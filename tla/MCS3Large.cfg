SPECIFICATION IsolatedSpec
CONSTANTS
    StorageTypes = {"s3"}
    ExactSentinel = FALSE
    Escapes <- Unescaped
    Procs = {p1, p2}
    Sent <- MovingCalls
    InitialBuckets <- TreeBuckets
    Prefixed = TRUE
    PageSize = 2
    MaxKeyLen = 4
    Chunks = 1
    DeleteLimit = 2
    MaxCalls = 1
    MaxFaults = 0
PROPERTY FaultFreeSucceeds
CHECK_DEADLOCK FALSE
