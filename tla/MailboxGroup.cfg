SPECIFICATION Spec
CONSTANTS
    d1 = d1
    d2 = d2
    g0 = g0
    g1 = g1
    u1 = u1
    u2 = u2
    Envelopes = {g1}
    Users = {u1, u2}
    Tasks = {t1, t2, t3}
    Kind <- MCKind
    To <- MCTo
    Ts <- MCTs
    Ttls = {1, 2}
    Past = 1
    Skew = 0
    Ceiling = 2
    MaxDepth = 1
    KeyFloor = 1
    KeySlack = 1
    FullScan = FALSE
    MaxTime = 3
    MaxSends = 1
    MaxFaults = 1
    MaxCrashes = 1
SYMMETRY TaskSymmetry
INVARIANTS
    TypeOK
    QueuedIsDeliverable
    WaitingIsTracked
    RecallIsFinal
CHECK_DEADLOCK FALSE
