SPECIFICATION FairSpec
CONSTANTS
    o1 = o1
    d1 = d1
    r1 = r1
    Switches = {d1, d2}
    Owners = {o1}
    OwnerOf <- MCOwnerOf
    Anonymous = {o1}
    Recipients = {r1, r2}
    RecipientsOf <- MCRecipientsOf
    Handlers = {h1, h2}
    MaxActive = 1
    Trigger = 2
    AnonInactive = 0
    Delay = 1
    SignedOnly = TRUE
    MaxRequests = 1
    MaxFailures = 1
INVARIANTS
    TypeOK
    ActiveQuota
    EachRecipientOnce
PROPERTIES
    OnlySilentOwners
    OnlyArmedSends
    SilentSwitchFires
CHECK_DEADLOCK FALSE
