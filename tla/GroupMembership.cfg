SPECIFICATION FairSpec
CONSTANTS
    c = c
    a = a
    b = b
    d = d
    Users = {c, a, b, d}
    Creator = c
    Anonymous = {a}
    MaxMembers = 2
    Tokens = {t1, t2, t3}
    MaxTokens = 2
    Handlers = {h1, h2}
    MaxRequests = 3
INVARIANTS
    TypeOK
    MemberCap
    TokenIsSpentOnce
    LiveTokensAreListed
PROPERTIES
    RequestsEnd
CHECK_DEADLOCK FALSE
