SPECIFICATION FairSpec
CONSTANTS
    StorageTypes = {"s3"}
    ExactSentinel = FALSE
    Escapes <- Unescaped
    Procs = {p1, p2}
    Sent <- IsolatedCalls
    InitialBuckets <- TreeBuckets
    Prefixed = TRUE
    PageSize = 1
    MaxKeyLen = 4
    Chunks = 1
    DeleteLimit = 10
    MaxCalls = 2
    MaxFaults = 2
INVARIANT TypeOK
PROPERTIES
    StaysInside
    RenameKeepsData
    RenameDeletesCopied
    FaultFreeSucceeds
    ReaddirExact
    ImplementsTree
    CallsReturn
CHECK_DEADLOCK FALSE
