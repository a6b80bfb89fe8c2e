SPECIFICATION FairSpec
CONSTANTS
    d1 = d1
    d2 = d2
    g0 = g0
    g1 = g1
    u1 = u1
    u2 = u2
    Envelopes = {d2, g0}
    Users = {u1}
    Tasks = {t1, t2}
    Kind <- MCKind
    To <- MCTo
    Ts <- MCTs
    Ttls = {1}
    Past = 1
    Skew = 0
    Ceiling = 2
    MaxDepth = 1
    KeyFloor = 1
    KeySlack = 1
    FullScan = TRUE
    MaxTime = 2
    MaxSends = 1
    MaxFaults = 0
    MaxCrashes = 1
PROPERTIES
    OrphansAreReaped
CHECK_DEADLOCK FALSE
