SPECIFICATION FairSpec
CONSTANTS
    Messages = {m1}
    RowIds = {r1}
    Workers = {w1, w2}
    Handlers = {h1}
    BatchSize = 1
    MaxAttempts = 1
    Backoff <- OneTick
    InFlightTimeout = 0
    SucceededRetention = 0
    DeadRetention = 0
    Window = 0
    Horizon = 1
    MaxFaults = 1
PROPERTIES
    EveryRowSettles
CHECK_DEADLOCK FALSE
