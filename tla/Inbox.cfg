SPECIFICATION FairSpec
CONSTANTS
    Sockets = {s1, s2}
    Msgs = {m1, m2}
    Web = {e1}
    Native = {e2}
    Limit = 1
    CatchUpMax = 1
    MaxSubs = 1
    MaxFaults = 1
INVARIANTS
    TypeOK
    SlotCap
    OnlineIsEarned
    OpenSocketHears
PROPERTY
    PushResumes
CHECK_DEADLOCK FALSE
