SPECIFICATION Spec
CONSTANTS
    d1 = d1
    d2 = d2
    g0 = g0
    g1 = g1
    u1 = u1
    u2 = u2
    Envelopes = {d1, g1}
    Users = {u1}
    Tasks = {t1, t2}
    Kind <- MCKind
    To <- MCTo
    Ts <- MCTs
    Ttls = {1, 2}
    Past = 1
    Skew = 0
    Ceiling = 2
    MaxDepth = 1
    KeyFloor = 1
    KeySlack = 1
    FullScan = FALSE
    MaxTime = 1
    MaxSends = 1
    MaxFaults = 1
    MaxCrashes = 0
SYMMETRY TaskSymmetry
INVARIANTS
    HardCap
    ListedHasBlob
CHECK_DEADLOCK FALSE
