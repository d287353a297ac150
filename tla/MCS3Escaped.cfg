SPECIFICATION IsolatedSpec
CONSTANTS
    StorageTypes = {"s3"}
    ExactSentinel = FALSE
    Escapes <- OneEscape
    Procs = {p1, p2}
    Sent <- EscapedCalls
    InitialBuckets <- EscapedBuckets
    Prefixed = TRUE
    PageSize = 2
    MaxKeyLen = 4
    Chunks = 1
    DeleteLimit = 10
    MaxCalls = 1
    MaxFaults = 0
PROPERTY RenameDeletesCopied
CHECK_DEADLOCK FALSE
