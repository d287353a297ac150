------------------------------ MODULE DAVServer ------------------------------
(***************************************************************************)
(* server.New: the handlers on top of the cloud file system that          *)
(* STORAGE_TYPE names.  Requests of clients, API requests of their calls,  *)
(* faults and restarts interleave freely.                                  *)
(***************************************************************************)
EXTENDS Backends, DAVHandler

ASSUME ServerAssumption == Calls = CallsOf(Requests)

allVars == <<vars, davVars, backend>>

Init ==
    /\ backend \in StorageTypes
    /\ HandlerInit

\* The next API request of the call that goroutine p has made.
Serve(p) == Step(p) /\ UNCHANGED davVars

Next ==
    \/ \E p \in Procs, r \in Requests : Receive(p, r) /\ Stay
    \/ \E p \in Procs, r \in Requests : Refuse(p, r) /\ Stay
    \/ \E p \in Procs : LockDst(p) /\ Stay
    \/ \E p \in Procs : Redirect(p) /\ Stay
    \/ \E p \in Procs : Dispatch(p) /\ Stay
    \/ \E p \in Procs : ServeListing(p) /\ Stay
    \/ \E p \in Procs : ServeFile(p) /\ Stay
    \/ \E p \in Procs : Uploaded(p) /\ Stay
    \/ \E p \in Procs : FoundToDelete(p) /\ Stay
    \/ \E p \in Procs : Deleted(p) /\ Stay
    \/ \E p \in Procs : Created(p) /\ Stay
    \/ \E p \in Procs : MoveOnto(p) /\ Stay
    \/ \E p \in Procs : DstRemoved(p) /\ Stay
    \/ \E p \in Procs : Renamed(p) /\ Stay
    \/ \E p \in Procs : Serve(p)
    \/ Restart /\ Stay

Spec == Init /\ [][Next]_allVars

\* Handlers run, and the API client gives up on a request sooner or later.
FairSpec ==
    /\ Spec
    /\ \A p \in Procs : WF_allVars(Serve(p)) /\ WF_allVars(Handle(p) /\ Stay)

-----------------------------------------------------------------------------
(* Vocabulary *)

Responds(p, method, codes) ==
    /\ stage[p] # "idle" /\ stage'[p] = "idle"
    /\ request[p].method = method
    /\ status'[p] \in codes

Present(b, path) == \E k \in DOMAIN b : InTree(k, path)

\* A MOVE between two separate trees, in which nobody else works.
QuietMove(p) ==
    /\ request[p].method = "MOVE" /\ alone[p]
    /\ ~Within(request[p].path, request[p].dst) /\ ~Within(request[p].dst, request[p].path)

Intact(b, now, path) == \A k \in DOMAIN b \cup DOMAIN now : InTree(k, path) => SameAt(b, now, k)

\* Stat has called an existing destination missing.
Misjudged(p) == stage[p] = "create" /\ Present(arrived[p], request[p].dst)

\* What an object holds; markers hold nothing.
Contents(b) == {b[k].body : k \in DOMAIN b} \ {Folder.body}

-----------------------------------------------------------------------------
(* Safety *)

\* Every variable has its type, a path has one holder of its lock, and only a running
\* request holds locks (server.go:47-50).
TypeOK == StoreTypeOK /\ HandlerTypeOK

\* An upload that is answered 201 is stored completely, whatever uploads, moves and
\* deletions of the same name were sent meanwhile: the temporary lock keeps them out
\* until the answer (webdav.Handler with NewMemLS, s3File.Close).
AcknowledgedUploads ==
    [][\A p \in Procs :
          Responds(p, "PUT", {201}) /\ alone[p] =>
              LET r == request[p]
              IN  /\ keyFor(r.path) \in DOMAIN bucket
                  /\ bucket[keyFor(r.path)] = [body |-> r.body, chunks |-> Chunks]]_allVars

\* A MOVE never loses an object of its source, at whichever of its calls a request
\* fails or the process ends (handleCopyMove, Rename).
MoveKeepsSource ==
    [][\A p \in Procs :
          stage[p] # "idle" /\ QuietMove(p) =>
              Kept(arrived[p], bucket', request[p].path, request[p].dst)]_allVars

\* Without a fault, a MOVE answered 201 or 204 leaves at its destination the source
\* tree and nothing else, and nothing at the source (handleCopyMove, RemoveAll, Rename).
MoveReplaces ==
    [][\A p \in Procs :
          LET r == request[p]
              old == {k \in DOMAIN arrived[p] : InTree(k, r.path)}
          IN  /\ Responds(p, "MOVE", {201, 204}) /\ QuietMove(p) /\ faults = 0
              /\ old # {} /\ Plain(arrived[p], r.path)
              => /\ ~Present(bucket, r.path)
                 /\ {k \in DOMAIN bucket : InTree(k, r.dst)} = {Rebase(k, r.path, r.dst) : k \in old}
                 /\ \A k \in old : bucket[Rebase(k, r.path, r.dst)] = arrived[p][k]]_allVars

\* Without a fault, a MOVE with Overwrite: F onto something that exists changes
\* nothing and says so (handleCopyMove, Stat).
PreconditionHonoured ==
    [][\A p \in Procs :
          LET r == request[p]
          IN  /\ stage[p] = "statDst" /\ stage'[p] # "statDst" /\ faults' = 0
              /\ QuietMove(p) /\ ~r.overwrite /\ Present(arrived[p], r.dst)
              => /\ Responds(p, "MOVE", {412})
                 /\ Intact(arrived[p], bucket', r.path) /\ Intact(arrived[p], bucket', r.dst)]_allVars

\* Contents disappear only where a client asked for it: below a path it deletes, at a
\* path it uploads to, at the marker of a directory it creates, at the destination of a
\* MOVE with Overwrite: T.  In particular a MOVE with Overwrite: F may be repeated after
\* any failure or restart.  What else can destroy contents is named: a Stat that reports
\* a failed request as absence, and a MOVE that is not the only request in its two
\* trees or whose trees are nested (Stat, Rename, handleCopyMove).
NothingLostUnasked ==
    [][\A k \in DOMAIN bucket :
          bucket[k].body \in Contents(bucket) \ Contents(bucket') =>
              \E p \in Active :
                  LET r == request[p]
                  IN  \/ r.method = "DELETE" /\ InTree(k, r.path)
                      \/ r.method = "PUT" /\ k = keyFor(r.path)
                      \/ r.method = "MKCOL" /\ k = dirKeyFor(r.path)
                      \/ r.method = "MOVE" /\ InTree(k, r.dst) /\ (r.overwrite \/ Misjudged(p))
                      \/ /\ r.method = "MOVE" /\ ~QuietMove(p)
                         /\ InTree(k, r.path) \/ InTree(k, r.dst)]_allVars

\* Without a fault, a request answered 404 was for something that is not there (Stat
\* and OpenFile of the file systems, FoundToDelete and ServeFile of the handlers).
NotFoundMeansAbsent ==
    [][\A p \in Procs :
          /\ Responds(p, "GET", {404}) \/ Responds(p, "DELETE", {404})
          /\ alone[p] /\ faults = 0
          => ~Present(arrived[p], request[p].path)]_allVars

\* Without a fault a GET of what is not a file and a directory at once never fails
\* with 500 or 405, except on S3 for a directory that has no marker: Stat finds it,
\* OpenFile does not (ServeHTTP of dirlist.go).
DirectoriesListed ==
    [][\A p \in Procs :
          /\ Responds(p, "GET", {405, 500}) /\ alone[p] /\ faults = 0
          /\ Plain(arrived[p], request[p].path)
          => backend = "s3" /\ dirKeyFor(request[p].path) \notin DOMAIN arrived[p]]_allVars

-----------------------------------------------------------------------------
(* Liveness *)

\* Every request is answered or lost in a restart, and its locks are gone: nobody
\* waits for a lock (confirmLocks).
RequestsAnswered == \A p \in Procs : stage[p] # "idle" ~> stage[p] = "idle"
=============================================================================
