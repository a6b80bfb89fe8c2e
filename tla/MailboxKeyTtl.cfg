SPECIFICATION Spec
CONSTANTS
    d1 = d1
    d2 = d2
    g0 = g0
    g1 = g1
    u1 = u1
    u2 = u2
    Envelopes = {d1, d2}
    Users = {u1}
    Tasks = {t1, t2}
    Kind <- MCKind
    To <- MCTo
    Ts <- MCTs
    Ttls = {1, 4}
    Past = 1
    Skew = 0
    Ceiling = 4
    MaxDepth = 2
    KeyFloor = 1
    KeySlack = 1
    FullScan = FALSE
    MaxTime = 4
    MaxSends = 1
    MaxFaults = 0
    MaxCrashes = 0
SYMMETRY TaskSymmetry
INVARIANTS
    KeyOutlivesContent
CHECK_DEADLOCK FALSE
