------------------------------ MODULE Backends ------------------------------
(***************************************************************************)
(* storage.New of internal/storage/filesystem.go: STORAGE_TYPE chooses the *)
(* cloud file system for the life of the server.                           *)
(***************************************************************************)
EXTENDS S3FileSystem, GCSFileSystem, AzureFileSystem

CONSTANT StorageTypes   \* the values of STORAGE_TYPE considered

ASSUME BackendsAssumption ==
    /\ StorageTypes \subseteq {"s3", "gcs", "azure"}
    /\ ExactSentinel \in BOOLEAN

VARIABLE backend   \* STORAGE_TYPE

BackendInit ==
    /\ backend \in StorageTypes
    /\ FrameInit

Stay == UNCHANGED backend

\* The next API request of the call that goroutine p has made.
Step(p) ==
    /\ \/ backend = "s3" /\ S3Step(p)
       \/ backend = "gcs" /\ GCSStep(p)
       \/ backend = "azure" /\ AzureStep(p)
    /\ Stay

Labels == IF backend = "s3" THEN S3Labels ELSE BlobLabels
=============================================================================
