SPECIFICATION FairSpec
CONSTANTS
    StorageTypes = {"gcs", "azure"}
    Procs = {p1, p2}
    Sent <- IsolatedCalls
    InitialBuckets <- TreeBuckets
    Prefixed = TRUE
    PageSize = 1
    MaxKeyLen = 4
    Chunks = 1
    DeleteLimit = 10
    ExactSentinel = FALSE
    Escapes <- Unescaped
    MaxCalls = 2
    MaxFaults = 2
PROPERTIES
    StaysInside
    RenameKeepsData
    RenameDeletesCopied
    ReaddirExact
    ImplementsTree
    CallsReturn
CHECK_DEADLOCK FALSE
