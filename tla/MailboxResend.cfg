SPECIFICATION Spec
CONSTANTS
    d1 = d1
    d2 = d2
    g0 = g0
    g1 = g1
    u1 = u1
    u2 = u2
    Envelopes = {d1}
    Users = {u1}
    Tasks = {t1, t2, t3}
    Kind <- MCKind
    To <- MCTo
    Ts <- MCTs
    Ttls = {2}
    Past = 1
    Skew = 0
    Ceiling = 2
    MaxDepth = 1
    KeyFloor = 1
    KeySlack = 1
    FullScan = FALSE
    MaxTime = 2
    MaxSends = 2
    MaxFaults = 0
    MaxCrashes = 0
SYMMETRY TaskSymmetry
INVARIANTS
    DuplicateIsNotLost
CHECK_DEADLOCK FALSE
