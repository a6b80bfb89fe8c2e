SPECIFICATION Spec
CONSTANTS
    c = c
    b = b
    d = d
    Local = {c, d}
    Remote = {b}
    Creator = c
    Msgs = {m1}
    Senders = {d, b}
    ControlWindow = 1
    DeleteWindow = 1
    MaxChanges = 2
    MaxDeletes = 1
    MaxFaults = 1
INVARIANTS
    TypeOK
    OnlyMembersTalk
    NobodyIsForgotten
    OnlyOwnersDelete
    GoneIsToldOnce
CHECK_DEADLOCK FALSE
