SPECIFICATION FairSpec
CONSTANTS
    StorageTypes = {"s3", "gcs", "azure"}
    Procs = {p1, p2}
    Sent <- DAVCalls
    Requests <- DAVRequests
    InitialBuckets <- DAVBuckets
    Prefixed = TRUE
    PageSize = 2
    MaxKeyLen = 4
    Chunks = 1
    DeleteLimit = 10
    ExactSentinel = FALSE
    Escapes <- Unescaped
    MaxCalls = 6
    MaxFaults = 1
    MaxRequests = 2
INVARIANT TypeOK
PROPERTIES
    AcknowledgedUploads
    MoveKeepsSource
    MoveReplaces
    PreconditionHonoured
    NothingLostUnasked
    NotFoundMeansAbsent
    DirectoriesListed
    RequestsAnswered
CHECK_DEADLOCK FALSE
