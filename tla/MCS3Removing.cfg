SPECIFICATION IsolatedSpec
CONSTANTS
    StorageTypes = {"s3"}
    ExactSentinel = FALSE
    Escapes <- Unescaped
    Procs = {p1, p2}
    Sent <- RemovingCalls
    InitialBuckets <- TreeBuckets
    Prefixed = TRUE
    PageSize = 2
    MaxKeyLen = 4
    Chunks = 1
    DeleteLimit = 10
    MaxCalls = 1
    MaxFaults = 1
PROPERTY RemoveOkRemoves
CHECK_DEADLOCK FALSE
