--------------------------- MODULE CloudFileSystem ---------------------------
(***************************************************************************)
(* A cloud file system on its own: clients make any calls, freely or in    *)
(* different subtrees, and every backend makes the same promises.          *)
(***************************************************************************)
EXTENDS Backends, FileSystemProperties

storageVars == <<vars, backend>>

Init == BackendInit

Next ==
    \/ \E p \in Procs, c \in Calls : Begin(p, c) /\ Stay
    \/ \E p \in Procs : Step(p)
    \/ Crash /\ Stay

Spec == Init /\ [][Next]_storageVars

\* Calls in flight at the same time work in disjoint subtrees.
IsolatedNext ==
    \/ \E p \in Procs, c \in Calls : IsolatedBegin(p, c) /\ Stay
    \/ \E p \in Procs : Step(p)
    \/ Crash /\ Stay

IsolatedSpec == Init /\ [][IsolatedNext]_storageVars

\* Every goroutine keeps running: the API client gives up on a request sooner or
\* later, and the server's ReadTimeout ends a body that stops arriving.
FairSpec == IsolatedSpec /\ \A p \in Procs : WF_vars(Step(p))

-----------------------------------------------------------------------------

\* Every variable has its type; keys that reach the bucket are keys and a buffer
\* never holds more than the upload (all of s3.go, gcs.go, azure.go).
TypeOK == StoreTypeOK /\ FrameTypeOK(Labels)

\* Every call returns: the listing loops advance, a pass that deletes what it has
\* listed makes progress, and no call waits for another (RemoveAll, Rename, Readdir).
CallsReturn == \A p \in Procs : pc[p] # "idle" ~> pc[p] = "idle"
=============================================================================
