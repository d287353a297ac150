SPECIFICATION Spec
CONSTANTS
    StorageTypes = {"s3"}
    ExactSentinel = FALSE
    Escapes <- Unescaped
    Procs = {p1, p2}
    Sent <- RacingCalls
    InitialBuckets <- RacingBuckets
    Prefixed = TRUE
    PageSize = 2
    MaxKeyLen = 4
    Chunks = 1
    DeleteLimit = 10
    MaxCalls = 2
    MaxFaults = 0
PROPERTY RenameDeletesCopied
CHECK_DEADLOCK FALSE
