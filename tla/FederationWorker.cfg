SPECIFICATION Spec
CONSTANTS
    Messages = {m1}
    RowIds = {r1, r2}
    Workers = {w1}
    Handlers = {h1}
    BatchSize = 2
    MaxAttempts = 2
    Backoff <- OneTick
    InFlightTimeout = 1
    SucceededRetention = 1
    DeadRetention = 1
    Window = 1
    Horizon = 2
    MaxFaults = 0
SYMMETRY Symmetry
INVARIANTS
    TypeOK
    UnsentHasPayload
    OutcomeIsEarned
    AttemptsAreCounted
PROPERTIES
    KeepsPromise
CHECK_DEADLOCK FALSE
