----------------------------- MODULE DAVHandler -----------------------------
(***************************************************************************)
(* The HTTP handlers behind the middleware chain: dirListHandler of        *)
(* internal/server/dirlist.go, and the methods of golang.org/x/net/webdav  *)
(* it passes everything else to.  A request is a short program of file     *)
(* system calls; one action is the handler's code between two calls.       *)
(*                                                                         *)
(* A request that changes something and carries no If header holds a lock  *)
(* on its path (and destination) while it runs: confirmLocks of webdav     *)
(* creates it, with depth 0, in the memory of this process.                *)
(***************************************************************************)
EXTENDS FileSystemProperties

CONSTANTS
    Requests,     \* what clients send
    MaxRequests   \* bound on the number of requests

Methods == {"GET", "PUT", "DELETE", "MKCOL", "MOVE"}

\* Paths are clean: the locks (slashClean of memLS) and the file systems clean theirs.
\* The spelling shows only where a MOVE names its source in two ways: its own lock
\* refuses what Refuse refuses here.
ASSUME RequestsAssumption ==
    /\ Requests \subseteq [method : Methods, path : Paths, dst : Paths,
                           overwrite : BOOLEAN, slash : BOOLEAN, body : Nat \ {0}]
    /\ MaxRequests \in Nat

VARIABLES
    request,   \* the request each goroutine serves, or served last
    stage,     \* the call whose answer its handler waits for, or "idle"
    held,      \* the paths it has locked
    status,    \* the status of its last response, 0 before there is one
    received,  \* requests so far
    arrived,   \* history: the bucket when the request had its locks
    alone      \* history: no other request has worked above or below its paths

davVars == <<request, stage, held, status, received, arrived, alone>>

NoRequest ==
    [method |-> "none", path |-> <<>>, dst |-> <<>>, overwrite |-> FALSE,
     slash |-> FALSE, body |-> 0]

HandlerInit ==
    /\ FrameInit
    /\ request = [p \in Procs |-> NoRequest]
    /\ stage = [p \in Procs |-> "idle"]
    /\ held = [p \in Procs |-> {}]
    /\ status = [p \in Procs |-> 0]
    /\ received = 0
    /\ arrived = [p \in Procs |-> NoBucket]
    /\ alone = [p \in Procs |-> TRUE]

-----------------------------------------------------------------------------
(* Calling the file system and answering the client *)

CallOf(op, r) ==
    [op |-> op, name |-> r.path, dst |-> <<>>, body |-> IF op = "Put" THEN r.body ELSE 1]

CallOnDst(op, r) == [CallOf(op, r) EXCEPT !.name = r.dst]
RenameOf(r) == [CallOf("Rename", r) EXCEPT !.dst = r.dst]

\* The calls the requests lead to.
OpsOf ==
    [GET |-> {"Stat", "Read", "Open"}, PUT |-> {"Put"}, DELETE |-> {"Stat", "RemoveAll"},
     MKCOL |-> {"Mkdir"}, MOVE |-> {}]

CallsOf(R) ==
    LET Moved == {r \in R : r.method = "MOVE" /\ r.path # r.dst}
    IN  (UNION {{CallOf(op, r) : op \in OpsOf[r.method]} : r \in R})
            \cup {CallOnDst(op, r) : op \in {"Stat", "RemoveAll"}, r \in Moved}
            \cup {RenameOf(r) : r \in Moved}

\* The handler has its answer: the call it waited for is over.
Answered(p, at) == stage[p] = at /\ pc[p] = "idle"
answer(p) == ret[p].kind

Ask(p, next, c) ==
    /\ Begin(p, c)
    /\ stage' = [stage EXCEPT ![p] = next]
    /\ UNCHANGED <<request, held, status, received, arrived, alone>>

Respond(p, code) ==
    /\ stage' = [stage EXCEPT ![p] = "idle"]
    /\ status' = [status EXCEPT ![p] = code]
    /\ held' = [held EXCEPT ![p] = {}]
    /\ arrived' = [arrived EXCEPT ![p] = NoBucket]
    /\ alone' = [alone EXCEPT ![p] = TRUE]
    /\ UNCHANGED <<vars, request, received>>

-----------------------------------------------------------------------------
(* Receiving a request, and the locks *)

Active == {p \in Procs : stage[p] # "idle"}
LockedFor(p, path) == \E q \in Procs \ {p} : path \in held[q]

PathsOfRequest(r) == IF r.method = "MOVE" THEN {r.path, r.dst} ELSE {r.path}

\* Request s works in the trees of r and no lock keeps it out.
Disturbs(s, r) ==
    /\ s.method # "GET"
    /\ \E x \in PathsOfRequest(r), y \in PathsOfRequest(s) :
          /\ Within(x, y) \/ Within(y, x)
          /\ x # y \/ r.method = "GET"

Alone(p, r) ==
    [q \in Procs |->
        IF q = p THEN \A s \in Active : ~Disturbs(request[s], r)
        ELSE alone[q] /\ (q \in Active => ~Disturbs(r, request[q]))]

\* The first call of each method; MOVE first locks its destination.
FirstStage ==
    [GET |-> "stat", PUT |-> "put", DELETE |-> "statDelete", MKCOL |-> "mkcol",
     MOVE |-> "lockDst"]

FirstOp ==
    [GET |-> "Stat", PUT |-> "Put", DELETE |-> "Stat", MKCOL |-> "Mkdir"]

Opening(r) == IF r.method = "GET" /\ ~r.slash THEN "statSlash" ELSE FirstStage[r.method]

Accept(p, r, code) ==
    /\ stage[p] = "idle"
    /\ received < MaxRequests
    /\ received' = received + 1
    /\ request' = [request EXCEPT ![p] = r]
    /\ status' = [status EXCEPT ![p] = code]

\* Mutant: a locked path is no obstacle.
ReceiveUnlocked(p, r) ==
    /\ Accept(p, r, 0)
    /\ r.method = "MOVE" => r.path # r.dst
    /\ stage' = [stage EXCEPT ![p] = Opening(r)]
    /\ UNCHANGED held
    /\ arrived' = [arrived EXCEPT ![p] = bucket]
    /\ alone' = Alone(p, r)
    /\ IF r.method = "MOVE" THEN UNCHANGED vars ELSE Begin(p, CallOf(FirstOp[r.method], r))

\* The request reaches its handler and takes the lock on its path.
Receive(p, r) ==
    /\ Accept(p, r, 0)
    /\ r.method = "GET" \/ ~LockedFor(p, r.path)
    /\ r.method = "MOVE" => r.path # r.dst
    /\ stage' = [stage EXCEPT ![p] = Opening(r)]
    /\ held' = [held EXCEPT ![p] = IF r.method = "GET" THEN {} ELSE {r.path}]
    /\ arrived' = [arrived EXCEPT ![p] = bucket]
    /\ alone' = Alone(p, r)
    /\ IF r.method = "MOVE" THEN UNCHANGED vars ELSE Begin(p, CallOf(FirstOp[r.method], r))

\* 403 for a MOVE onto itself, 423 when someone else holds the lock.
Refuse(p, r) ==
    /\ \/ Accept(p, r, 403) /\ r.method = "MOVE" /\ r.path = r.dst
       \/ Accept(p, r, 423) /\ r.method # "GET" /\ LockedFor(p, r.path)
    /\ UNCHANGED <<vars, stage, held, arrived, alone>>

\* Mutant: a locked destination is waited for.
LockDstWaiting(p) ==
    /\ Answered(p, "lockDst")
    /\ ~LockedFor(p, request[p].dst)
    /\ held' = [held EXCEPT ![p] = @ \cup {request[p].dst}]
    /\ arrived' = [arrived EXCEPT ![p] = bucket]
    /\ stage' = [stage EXCEPT ![p] = "statDst"]
    /\ Begin(p, CallOnDst("Stat", request[p]))
    /\ UNCHANGED <<request, status, received, alone>>

\* Mutant: the source stays locked when the destination is not to be had.
LockDstKeeping(p) ==
    /\ Answered(p, "lockDst")
    /\ LockedFor(p, request[p].dst)
    /\ stage' = [stage EXCEPT ![p] = "idle"]
    /\ status' = [status EXCEPT ![p] = 423]
    /\ UNCHANGED <<vars, request, held, received, arrived, alone>>

\* A MOVE holds its source while it asks for its destination, and gives up at once.
LockDst(p) ==
    /\ Answered(p, "lockDst")
    /\ \/ LockedFor(p, request[p].dst) /\ Respond(p, 423)
       \/ /\ ~LockedFor(p, request[p].dst)
          /\ held' = [held EXCEPT ![p] = @ \cup {request[p].dst}]
          /\ arrived' = [arrived EXCEPT ![p] = bucket]
          /\ stage' = [stage EXCEPT ![p] = "statDst"]
          /\ Begin(p, CallOnDst("Stat", request[p]))
          /\ UNCHANGED <<request, status, received, alone>>

-----------------------------------------------------------------------------
(* GET: dirListHandler.ServeHTTP *)

\* A directory without its trailing slash is redirected.
Redirect(p) ==
    /\ Answered(p, "statSlash")
    /\ IF answer(p) = "dir"
       THEN Respond(p, 301)
       ELSE Ask(p, "stat", CallOf("Stat", request[p]))

\* Stat is asked again: a directory is listed here, everything else is webdav's.
Dispatch(p) ==
    /\ Answered(p, "stat")
    /\ IF answer(p) = "dir"
       THEN Ask(p, "list", CallOf("Read", request[p]))
       ELSE Ask(p, "get", CallOf("Open", request[p]))

\* OpenFile or Readdir may fail although Stat has seen a directory.
ServeListing(p) ==
    /\ Answered(p, "list")
    /\ Respond(p, IF answer(p) = "dir" THEN 200 ELSE 500)

\* webdav's handleGetHeadPost refuses directories.
ServeFile(p) ==
    /\ Answered(p, "get")
    /\ Respond(p, IF answer(p) = "file" THEN 200 ELSE IF answer(p) = "dir" THEN 405 ELSE 404)

-----------------------------------------------------------------------------
(* webdav: handlePut, handleDelete, handleMkcol, handleCopyMove *)

\* The body broke off, the file is a directory, or Close failed: 405.
Uploaded(p) ==
    /\ Answered(p, "put")
    /\ Respond(p, IF answer(p) = "ok" THEN 201 ELSE 405)

FoundToDelete(p) ==
    /\ Answered(p, "statDelete")
    /\ IF answer(p) = "missing"
       THEN Respond(p, 404)
       ELSE Ask(p, "remove", CallOf("RemoveAll", request[p]))

Deleted(p) ==
    /\ Answered(p, "remove")
    /\ Respond(p, IF answer(p) = "ok" THEN 204 ELSE 405)

Created(p) ==
    /\ Answered(p, "mkcol")
    /\ Respond(p, IF answer(p) = "ok" THEN 201 ELSE 405)

\* Mutants: the Overwrite header is not looked at; the destination is not removed;
\* the source is removed in its place.
MoveOntoAlways(p) ==
    /\ Answered(p, "statDst")
    /\ IF answer(p) = "missing"
       THEN Ask(p, "create", RenameOf(request[p]))
       ELSE Ask(p, "removeDst", CallOnDst("RemoveAll", request[p]))

MoveOntoMerging(p) ==
    /\ Answered(p, "statDst")
    /\ \/ answer(p) = "missing" /\ Ask(p, "create", RenameOf(request[p]))
       \/ answer(p) # "missing" /\ request[p].overwrite /\ Ask(p, "replace", RenameOf(request[p]))
       \/ answer(p) # "missing" /\ ~request[p].overwrite /\ Respond(p, 412)

MoveOntoSource(p) ==
    /\ Answered(p, "statDst")
    /\ \/ answer(p) = "missing" /\ Ask(p, "create", RenameOf(request[p]))
       \/ /\ answer(p) # "missing" /\ request[p].overwrite
          /\ Ask(p, "removeDst", CallOf("RemoveAll", request[p]))
       \/ answer(p) # "missing" /\ ~request[p].overwrite /\ Respond(p, 412)

\* The source is never looked at; an existing destination is removed first, or
\* ends the MOVE.
MoveOnto(p) ==
    /\ Answered(p, "statDst")
    /\ \/ answer(p) = "missing" /\ Ask(p, "create", RenameOf(request[p]))
       \/ /\ answer(p) # "missing" /\ request[p].overwrite
          /\ Ask(p, "removeDst", CallOnDst("RemoveAll", request[p]))
       \/ answer(p) # "missing" /\ ~request[p].overwrite /\ Respond(p, 412)

DstRemoved(p) ==
    /\ Answered(p, "removeDst")
    /\ IF answer(p) = "ok"
       THEN Ask(p, "replace", RenameOf(request[p]))
       ELSE Respond(p, 403)

Renamed(p) ==
    \/ Answered(p, "create") /\ Respond(p, IF answer(p) = "ok" THEN 201 ELSE 403)
    \/ Answered(p, "replace") /\ Respond(p, IF answer(p) = "ok" THEN 204 ELSE 403)

-----------------------------------------------------------------------------

\* The handler's own steps, between two calls.
Handle(p) ==
    \/ LockDst(p)
    \/ Redirect(p) \/ Dispatch(p) \/ ServeListing(p) \/ ServeFile(p)
    \/ Uploaded(p) \/ FoundToDelete(p) \/ Deleted(p) \/ Created(p)
    \/ MoveOnto(p) \/ DstRemoved(p) \/ Renamed(p)

\* The process ends with its goroutines and its locks, and starts again.
Restart ==
    /\ Crash
    /\ stage' = [p \in Procs |-> "idle"]
    /\ held' = [p \in Procs |-> {}]
    /\ status' = [p \in Procs |-> IF stage[p] = "idle" THEN status[p] ELSE 0]
    /\ arrived' = [p \in Procs |-> NoBucket]
    /\ alone' = [p \in Procs |-> TRUE]
    /\ UNCHANGED <<request, received>>

Stages ==
    {"idle", "lockDst", "statSlash", "stat", "list", "get", "put", "statDelete", "remove",
     "mkcol", "statDst", "removeDst", "create", "replace"}

\* Every variable has its type (ServeHTTP of dirlist.go, webdav.Handler).
HandlerTypeOK ==
    /\ request \in [Procs -> Requests \cup {NoRequest}]
    /\ stage \in [Procs -> Stages]
    /\ held \in [Procs -> SUBSET Paths]
    /\ status \in [Procs -> {0, 200, 201, 204, 301, 403, 404, 405, 412, 423, 500}]
    /\ received \in 0..MaxRequests
    /\ alone \in [Procs -> BOOLEAN]
    /\ \A p, q \in Procs : p # q => held[p] \cap held[q] = {}
    /\ \A p \in Procs :
          /\ IsBucket(arrived[p])
          /\ pc[p] # "idle" \/ held[p] # {} => stage[p] # "idle"
=============================================================================
