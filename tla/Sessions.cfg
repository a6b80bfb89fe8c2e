SPECIFICATION FairSpec
CONSTANTS
    New = {n1}
    Legacy = {l1}
    Bare = {}
    Challenges = {c1}
    Tickets = {k1}
    Handlers = {p1, p2}
    Sockets = {s1}
    Ttl = 2
    Abs = 2
    MaxRequests = 3
    MaxFaults = 1
INVARIANTS
    TypeOK
    CeilingHolds
    IndexCoversLive
    RevokedStaysDead
PROPERTY
    SocketCloses
CHECK_DEADLOCK FALSE
