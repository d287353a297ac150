------------------------------ MODULE DAVProofs ------------------------------
(***************************************************************************)
(* What clients of the server may rely on, for every set of requests, on   *)
(* every backend, whatever fails: the locks of a request and the order in  *)
(* which its handler calls the file system.                                *)
(***************************************************************************)
EXTENDS DAVServer, RenameProofs

-----------------------------------------------------------------------------
(* The inductive invariant *)

\* The stages of each method, and the call its handler waits for in each.
StagesOf(method) ==
    CASE method = "GET"    -> {"statSlash", "stat", "list", "get"}
      [] method = "PUT"    -> {"put"}
      [] method = "DELETE" -> {"statDelete", "remove"}
      [] method = "MKCOL"  -> {"mkcol"}
      [] method = "MOVE"   -> {"lockDst", "statDst", "removeDst", "create", "replace"}

CallAt(s, r) ==
    CASE s \in {"statSlash", "stat", "statDelete"} -> CallOf("Stat", r)
      [] s = "list"                  -> CallOf("Read", r)
      [] s = "get"                   -> CallOf("Open", r)
      [] s = "put"                   -> CallOf("Put", r)
      [] s = "remove"                -> CallOf("RemoveAll", r)
      [] s = "mkcol"                 -> CallOf("Mkdir", r)
      [] s = "statDst"               -> CallOnDst("Stat", r)
      [] s = "removeDst"             -> CallOnDst("RemoveAll", r)
      [] s \in {"create", "replace"} -> RenameOf(r)

LocksAt(s, r) ==
    IF r.method = "GET" THEN {}
    ELSE IF s \in {"statDst", "removeDst", "create", "replace"} THEN {r.path, r.dst}
    ELSE {r.path}

\* The call a handler makes after another, the answer of which was kind.
Follows(at, kind, r, next) ==
    \/ next = "stat" /\ at = "statSlash"
    \/ next = "list" /\ at = "stat" /\ kind = "dir"
    \/ next = "get" /\ at = "stat" /\ kind # "dir"
    \/ next = "remove" /\ at = "statDelete" /\ kind # "missing"
    \/ next = "removeDst" /\ at = "statDst" /\ kind # "missing" /\ r.overwrite
    \/ next = "create" /\ at = "statDst" /\ kind = "missing"
    \/ next = "replace" /\ at = "removeDst" /\ kind = "ok"

\* A running request is one a client sent; its handler is at a stage of its method,
\* has made the call of that stage and holds the locks of that stage.
Serving(p) ==
    /\ stage[p] # "idle" =>
          /\ request[p] \in Requests
          /\ request[p].method = "MOVE" => request[p].path # request[p].dst
          /\ stage[p] \in StagesOf(request[p].method)
          /\ held[p] = LocksAt(stage[p], request[p])
          /\ stage[p] # "lockDst" => call[p] = CallAt(stage[p], request[p])
    /\ stage[p] = "idle" => held[p] = {}
    /\ stage[p] \in {"idle", "lockDst"} => pc[p] = "idle"

\* A request counts as alone only if none of the others disturbs it.
TrulyAlone ==
    \A p, q \in Active : p # q /\ alone[p] => ~Disturbs(request[q], request[p])

DAVInv ==
    /\ CallsInv
    /\ HandlerTypeOK
    /\ DOMAIN arrived = Procs
    /\ \A p \in Procs : Serving(p)
    /\ TrulyAlone

-----------------------------------------------------------------------------
(* An upload *)

\* An upload that has been acknowledged by Close is in the bucket until the client
\* is told.
UploadInv(p) ==
    stage[p] = "put" /\ pc[p] = "idle" /\ ret[p].kind = "ok" /\ alone[p] =>
        LET r == request[p]
        IN  /\ keyFor(r.path) \in DOMAIN bucket
            /\ bucket[keyFor(r.path)] = [body |-> r.body, chunks |-> Chunks]

-----------------------------------------------------------------------------
(* A MOVE *)

\* The object that was at k when the request had its locks is at its new key.
Arrived(p, k) ==
    LET new == Rebase(k, request[p].path, request[p].dst)
    IN  /\ k \in DOMAIN arrived[p]
        /\ new \in DOMAIN bucket /\ bucket[new] = arrived[p][k]

\* The source is as it was until the Rename, which starts from it.
MoveInv(p) ==
    stage[p] # "idle" /\ QuietMove(p) =>
        /\ RenameInv(p)
        /\ \A k : InTree(k, request[p].path) =>
              \/ SameAt(arrived[p], bucket, k)
              \/ /\ stage[p] \in {"create", "replace"}
                 /\ k \notin DOMAIN bucket /\ Arrived(p, k)
        /\ Moving(p) => \A k : InTree(k, request[p].path) => SameAt(arrived[p], before[p], k)

-----------------------------------------------------------------------------
(* What the handlers see without a fault *)

StatStages == {"statSlash", "stat", "statDelete", "statDst"}

\* Nothing has changed where the handler is looking.
Undisturbed(p) ==
    stage[p] \in StatStages \cup {"list", "get"} /\ alone[p] =>
        Intact(arrived[p], bucket, name(p))

\* What Stat may answer about a bucket.
StatSaw(b, path, kind) ==
    \/ kind = "file" /\ path # <<>> /\ keyFor(path) \in DOMAIN b
    \/ kind = "dir" /\ (path = <<>> \/ (keyFor(path) \notin DOMAIN b /\ KeysUnder(b, path) # {}))
    \/ kind = "missing" /\ path # <<>> /\ ~Present(b, path)

StatInv(p) ==
    stage[p] \in StatStages /\ alone[p] /\ faults = 0 =>
        /\ pc[p] \in {"statMarker", "statList"} => name(p) # <<>> /\ keyFor(name(p)) \notin DOMAIN arrived[p]
        /\ pc[p] = "idle" => StatSaw(arrived[p], name(p), ret[p].kind)

\* Only what Stat has not called a directory is opened to be sent.
GetInv(p) ==
    stage[p] = "get" /\ alone[p] /\ faults = 0 =>
        /\ name(p) # <<>>
        /\ keyFor(name(p)) \in DOMAIN arrived[p] \/ ~Present(arrived[p], name(p))
        /\ pc[p] = "idle" =>
              \/ ret[p].kind = "file"
              \/ ret[p].kind = "dir" /\ KeysUnder(arrived[p], name(p)) # {}
              \/ ret[p].kind \in {"missing", "error"} /\ keyFor(name(p)) \notin DOMAIN arrived[p]

\* Only what Stat has called a directory is listed; S3 needs the marker to open it.
NoMarker(p) == backend = "s3" /\ dirKeyFor(name(p)) \notin DOMAIN arrived[p]

ListInv(p) ==
    stage[p] = "list" /\ alone[p] /\ faults = 0 =>
        /\ name(p) = <<>> \/ KeysUnder(arrived[p], name(p)) # {}
        /\ pc[p] = "openList" => name(p) # <<>>
        /\ pc[p] = "get" => NoMarker(p)
        /\ pc[p] = "idle" => ret[p].kind = "dir" \/ NoMarker(p)

SeesTruth(p) == Undisturbed(p) /\ StatInv(p) /\ GetInv(p) /\ ListInv(p)

-----------------------------------------------------------------------------
(* What a MOVE without Overwrite: T may write over *)

\* The destination holds nothing but copies of the source.
OnlyCopies(p) ==
    \A j \in DOMAIN bucket : InTree(j, request[p].dst) =>
        \E k \in DOMAIN arrived[p] :
            /\ InTree(k, request[p].path) /\ j = Rebase(k, request[p].path, request[p].dst)
            /\ bucket[j] = arrived[p][k]

FreshInv(p) ==
    /\ stage[p] \in {"removeDst", "replace"} => request[p].overwrite
    /\ stage[p] = "create" /\ QuietMove(p) /\ ~Misjudged(p) => OnlyCopies(p)

\* Without a fault the destination is empty when the Rename begins and holds nothing but
\* copies until the answer; a Rename that has succeeded has left nothing behind.
Replaced(p) ==
    LET r == request[p]
    IN  /\ stage[p] = "removeDst" /\ pc[p] = "idle" /\ ret[p].kind = "ok" =>
              ~Present(bucket, r.dst)
        /\ stage[p] \in {"create", "replace"} => OnlyCopies(p)
        /\ stage[p] \in {"create", "replace"} /\ pc[p] = "idle" /\ ret[p].kind = "ok"
           /\ Plain(arrived[p], r.path) => ~Present(bucket, r.path)

ReplaceStages == {"removeDst", "create", "replace"}

ReplaceInv(p) ==
    stage[p] \in ReplaceStages /\ QuietMove(p) =>
        /\ SweepInv(p)
        /\ faults = 0 => Replaced(p)

-----------------------------------------------------------------------------
(* Requests and their calls *)

\* What is known of a request.
LEMMA RequestTypes ==
    ASSUME NEW r \in Requests
    PROVE  /\ r.method \in Methods /\ r.path \in Paths /\ r.dst \in Paths
           /\ r.body \in Nat
           /\ \A x \in PathsOfRequest(r) : x \in Paths
BY RequestsAssumption DEF PathsOfRequest

\* The stages a request passes through belong to its method alone.
LEMMA StageMethods ==
    ASSUME NEW r \in Requests, NEW s \in StagesOf(r.method)
    PROVE  /\ s \in Stages /\ s # "idle"
           /\ s \in {"statSlash", "stat", "list", "get"} => r.method = "GET"
           /\ s = "put" => r.method = "PUT"
           /\ s \in {"statDelete", "remove"} => r.method = "DELETE"
           /\ s = "mkcol" => r.method = "MKCOL"
           /\ s \in {"lockDst", "statDst", "removeDst", "create", "replace"} => r.method = "MOVE"
<1>1. r.method \in Methods
  BY RequestTypes
<1>2. CASE r.method = "GET"
  BY <1>2 DEF StagesOf, Stages
<1>3. CASE r.method = "PUT"
  BY <1>3 DEF StagesOf, Stages
<1>4. CASE r.method = "DELETE"
  BY <1>4 DEF StagesOf, Stages
<1>5. CASE r.method = "MKCOL"
  BY <1>5 DEF StagesOf, Stages
<1>6. CASE r.method = "MOVE"
  BY <1>6 DEF StagesOf, Stages
<1>. QED BY <1>1, <1>2, <1>3, <1>4, <1>5, <1>6 DEF Methods

\* The call of a stage is one of the calls considered.
LEMMA StageCalls ==
    ASSUME NEW r \in Requests, NEW s \in StagesOf(r.method), s # "lockDst",
           r.method = "MOVE" => r.path # r.dst
    PROVE  CallAt(s, r) \in Calls
<1>1. r.method \in Methods
  BY RequestTypes
<1>2. ASSUME NEW op \in OpsOf[r.method] PROVE CallOf(op, r) \in Calls
  BY ServerAssumption DEF CallsOf
<1>3. CASE r.method = "GET"
  BY <1>2, <1>3 DEF StagesOf, CallAt, OpsOf
<1>4. CASE r.method = "PUT"
  BY <1>2, <1>4 DEF StagesOf, CallAt, OpsOf
<1>5. CASE r.method = "DELETE"
  BY <1>2, <1>5 DEF StagesOf, CallAt, OpsOf
<1>6. CASE r.method = "MKCOL"
  BY <1>2, <1>6 DEF StagesOf, CallAt, OpsOf
<1>7. CASE r.method = "MOVE"
  <2>1. {CallOnDst("Stat", r), CallOnDst("RemoveAll", r), RenameOf(r)} \subseteq Calls
    BY <1>7, ServerAssumption DEF CallsOf
  <2>. QED BY <1>7, <2>1 DEF StagesOf, CallAt
<1>. QED BY <1>1, <1>3, <1>4, <1>5, <1>6, <1>7 DEF Methods

\* The fields of the calls.
LEMMA CallFields ==
    ASSUME NEW r, NEW op
    PROVE  /\ CallOf(op, r).op = op /\ CallOf(op, r).name = r.path
           /\ op = "Put" => CallOf(op, r).body = r.body
           /\ CallOnDst(op, r).op = op /\ CallOnDst(op, r).name = r.dst
           /\ RenameOf(r).op = "Rename" /\ RenameOf(r).name = r.path /\ RenameOf(r).dst = r.dst
BY DEF CallOf, CallOnDst, RenameOf

\* Only these stages call an operation that writes.
LEMMA WritingStages ==
    ASSUME NEW r \in Requests, NEW s \in StagesOf(r.method), s # "lockDst",
           NEW k, Footprint(CallAt(s, r), k)
    PROVE  s \in {"put", "remove", "mkcol", "removeDst", "create", "replace"}
<1>1. CallAt(s, r).op \in {"Mkdir", "Put", "RemoveAll", "Rename"}
  BY DEF Footprint
<1>. QED BY <1>1, StageMethods, CallFields DEF CallAt, Stages

\* What a stage's call may change lies in a tree whose path the request has locked.
LEMMA StageFootprint ==
    ASSUME NEW r \in Requests, NEW s \in StagesOf(r.method), s # "lockDst",
           r.method = "MOVE" => r.path # r.dst,
           NEW k, Footprint(CallAt(s, r), k)
    PROVE  /\ r.method # "GET"
           /\ \E y \in PathsOfRequest(r) : y \in LocksAt(s, r) /\ InTree(k, y)
<1> DEFINE c == CallAt(s, r)
<1>1. c \in Calls
  BY StageCalls
<1>2. PICK y \in PathsOf(c) : InTree(k, y)
  BY <1>1, FootprintTree
<1>4. s \in {"put", "remove", "mkcol", "removeDst", "create", "replace"}
  BY WritingStages
<1>5. r.method # "GET"
  BY <1>4, StageMethods
<1>6. CASE s \in {"put", "remove", "mkcol"}
  <2>1. c.name = r.path /\ c.op # "Rename"
    BY <1>6, CallFields DEF CallAt
  <2>. QED BY <1>2, <1>5, <1>6, <2>1 DEF PathsOf, PathsOfRequest, LocksAt
<1>7. CASE s \in {"removeDst", "create", "replace"}
  <2>1. PathsOf(c) \subseteq {r.path, r.dst}
    <3>1. CASE s = "removeDst"
      BY <3>1, CallFields DEF CallAt, PathsOf
    <3>2. CASE s \in {"create", "replace"}
      <4>1. c = RenameOf(r)
        BY <3>2 DEF CallAt
      <4>. QED BY <4>1, CallFields DEF PathsOf
    <3>. QED BY <1>7, <3>1, <3>2
  <2>2. r.method = "MOVE"
    BY <1>7, StageMethods
  <2>. QED BY <1>2, <1>7, <2>1, <2>2 DEF PathsOfRequest, LocksAt
<1>. QED BY <1>4, <1>5, <1>6, <1>7

-----------------------------------------------------------------------------
(* The invariant holds *)

\* What is known of a running request.
LEMMA ServingFacts ==
    ASSUME DAVInv, NEW p \in Procs, stage[p] # "idle"
    PROVE  /\ request[p] \in Requests /\ stage[p] \in StagesOf(request[p].method)
           /\ request[p].method = "MOVE" => request[p].path # request[p].dst
           /\ held[p] = LocksAt(stage[p], request[p])
           /\ stage[p] # "lockDst" => call[p] = CallAt(stage[p], request[p])
           /\ stage[p] = "lockDst" => pc[p] = "idle"
BY DEF DAVInv, Serving

\* The handler makes the call of its next stage with the locks it has.
LEMMA AskKeeps ==
    ASSUME DAVInv, NEW p \in Procs, stage[p] # "idle",
           NEW next \in StagesOf(request[p].method), next # "lockDst",
           LocksAt(next, request[p]) = held[p],
           Ask(p, next, CallAt(next, request[p]))
    PROVE  DAVInv'
<1> DEFINE c == CallAt(next, request[p])
<1>1. request[p] \in Requests /\ (request[p].method = "MOVE" => request[p].path # request[p].dst)
  BY ServingFacts
<1>2. c \in Calls /\ next \in Stages /\ next # "idle"
  BY <1>1, StageCalls, StageMethods
<1> HIDE DEF c
<1>3. /\ Begin(p, c) /\ stage' = [stage EXCEPT ![p] = next]
      /\ UNCHANGED <<request, held, status, received, arrived, alone>>
  BY DEF Ask, c
<1>4. CallsInv'
  BY <1>2, <1>3, BeginKeeps DEF DAVInv
<1>5. /\ pc' = [pc EXCEPT ![p] = FirstStep[c.op]] /\ call' = [call EXCEPT ![p] = c]
      /\ DOMAIN pc = Procs /\ DOMAIN call = Procs /\ DOMAIN stage = Procs
  BY <1>3 DEF Begin, DAVInv, CallsInv, FrameTypeOK, HandlerTypeOK
<1>6. HandlerTypeOK' /\ (DOMAIN arrived = Procs)'
  BY <1>2, <1>3, <1>5 DEF DAVInv, HandlerTypeOK
<1>7. Serving(p)'
  BY <1>1, <1>2, <1>3, <1>5 DEF Serving, c
<1>8. \A q \in Procs \ {p} : Serving(q)'
  BY <1>3, <1>5 DEF DAVInv, Serving
<1>9. TrulyAlone'
  BY <1>3, <1>5 DEF DAVInv, TrulyAlone, Active
<1>. QED BY <1>4, <1>6, <1>7, <1>8, <1>9 DEF DAVInv

\* The handler answers and gives its locks back.
LEMMA RespondKeeps ==
    ASSUME DAVInv, NEW p \in Procs, pc[p] = "idle",
           NEW code \in {200, 201, 204, 301, 403, 404, 405, 412, 423, 500},
           Respond(p, code)
    PROVE  DAVInv'
<1>1. CallsInv'
  BY StutterKeeps DEF Respond, DAVInv
<1>2. /\ stage' = [stage EXCEPT ![p] = "idle"] /\ status' = [status EXCEPT ![p] = code]
      /\ held' = [held EXCEPT ![p] = {}] /\ arrived' = [arrived EXCEPT ![p] = NoBucket]
      /\ alone' = [alone EXCEPT ![p] = TRUE]
      /\ UNCHANGED <<pc, call, request, received>>
      /\ DOMAIN stage = Procs /\ DOMAIN held = Procs /\ DOMAIN arrived = Procs
      /\ DOMAIN alone = Procs
  BY DEF Respond, vars, DAVInv, HandlerTypeOK
<1>3. HandlerTypeOK' /\ (DOMAIN arrived = Procs)'
  BY <1>2, NoBucketType DEF DAVInv, HandlerTypeOK, Stages
<1>4. \A q \in Procs : Serving(q)'
  BY <1>2 DEF DAVInv, Serving
<1>5. TrulyAlone'
  BY <1>2 DEF DAVInv, TrulyAlone, Active
<1>. QED BY <1>1, <1>3, <1>4, <1>5 DEF DAVInv

\* A request arrives and takes its first lock.
LEMMA ReceiveKeeps ==
    ASSUME DAVInv, NEW p \in Procs, NEW r \in Requests, Receive(p, r)
    PROVE  DAVInv'
<1>1. /\ stage[p] = "idle" /\ received < MaxRequests /\ received' = received + 1
      /\ request' = [request EXCEPT ![p] = r] /\ status' = [status EXCEPT ![p] = 0]
      /\ r.method = "GET" \/ ~LockedFor(p, r.path)
      /\ r.method = "MOVE" => r.path # r.dst
      /\ stage' = [stage EXCEPT ![p] = Opening(r)]
      /\ held' = [held EXCEPT ![p] = IF r.method = "GET" THEN {} ELSE {r.path}]
      /\ arrived' = [arrived EXCEPT ![p] = bucket]
      /\ alone' = Alone(p, r)
      /\ IF r.method = "MOVE" THEN UNCHANGED vars ELSE Begin(p, CallOf(FirstOp[r.method], r))
  BY DEF Receive, Accept
<1>2. r.method \in Methods /\ r.path \in Paths
  BY RequestTypes
<1>3. pc[p] = "idle" /\ held[p] = {}
  BY <1>1 DEF DAVInv, Serving
<1> DEFINE s == Opening(r)
<1>4. /\ s \in StagesOf(r.method) /\ (s = "lockDst" <=> r.method = "MOVE")
      /\ s \notin {"statDst", "removeDst", "create", "replace"}
      /\ r.method # "MOVE" => CallOf(FirstOp[r.method], r) = CallAt(s, r)
  BY <1>2 DEF Opening, FirstStage, StagesOf, FirstOp, CallAt, Methods
<1>5. s \in Stages /\ s # "idle"
  BY <1>4, StageMethods
<1> HIDE DEF s
<1>6. stage' = [stage EXCEPT ![p] = s]
  BY <1>1 DEF s
<1>7. CallsInv'
  <2>1. CASE r.method = "MOVE"
    BY <1>1, <2>1, StutterKeeps DEF DAVInv
  <2>2. CASE r.method # "MOVE"
    BY <1>1, <1>4, <2>2, StageCalls, BeginKeeps DEF DAVInv
  <2>. QED BY <2>1, <2>2
<1>8. /\ \A q \in Procs \ {p} : pc'[q] = pc[q] /\ call'[q] = call[q]
      /\ s = "lockDst" => pc'[p] = "idle"
      /\ s # "lockDst" => call'[p] = CallAt(s, r)
  BY <1>1, <1>3, <1>4 DEF vars, Begin, DAVInv, CallsInv, FrameTypeOK
<1>9. /\ DOMAIN stage = Procs /\ DOMAIN held = Procs /\ DOMAIN arrived = Procs
      /\ DOMAIN request = Procs /\ DOMAIN alone = Procs
  BY DEF DAVInv, HandlerTypeOK
<1>10. alone' \in [Procs -> BOOLEAN]
  BY <1>1 DEF Alone, DAVInv, HandlerTypeOK
<1>11. \A q \in Procs \ {p} : held'[p] \cap held[q] = {}
  BY <1>1, <1>9 DEF LockedFor
<1>12. HandlerTypeOK' /\ (DOMAIN arrived = Procs)'
  <2>1. request' \in [Procs -> Requests \cup {NoRequest}] /\ stage' \in [Procs -> Stages]
    BY <1>1, <1>5, <1>6 DEF DAVInv, HandlerTypeOK
  <2>2. held' \in [Procs -> SUBSET Paths] /\ received' \in 0..MaxRequests
    BY <1>1, <1>2, RequestsAssumption DEF DAVInv, HandlerTypeOK
  <2>3. status' \in [Procs -> {0, 200, 201, 204, 301, 403, 404, 405, 412, 423, 500}]
    BY <1>1 DEF DAVInv, HandlerTypeOK
  <2>4. \A q1, q2 \in Procs : q1 # q2 => held'[q1] \cap held'[q2] = {}
    BY <1>1, <1>9, <1>11 DEF DAVInv, HandlerTypeOK
  <2>5. \A q \in Procs : IsBucket(arrived'[q])
    BY <1>1, <1>9 DEF DAVInv, HandlerTypeOK, CallsInv, StoreTypeOK
  <2>6. \A q \in Procs : pc'[q] # "idle" \/ held'[q] # {} => stage'[q] # "idle"
    BY <1>1, <1>5, <1>6, <1>8, <1>9 DEF DAVInv, HandlerTypeOK
  <2>. QED BY <1>1, <1>10, <2>1, <2>2, <2>3, <2>4, <2>5, <2>6 DEF HandlerTypeOK, DAVInv
<1>13. Serving(p)'
  BY <1>1, <1>4, <1>5, <1>6, <1>8, <1>9 DEF Serving, LocksAt
<1>14. \A q \in Procs \ {p} : Serving(q)'
  BY <1>1, <1>8, <1>9 DEF DAVInv, Serving
<1>15. TrulyAlone'
  BY <1>1, <1>5, <1>6, <1>9 DEF DAVInv, TrulyAlone, Active, Alone
<1>. QED BY <1>7, <1>12, <1>13, <1>14, <1>15 DEF DAVInv

\* A request is turned away.
LEMMA RefuseKeeps ==
    ASSUME DAVInv, NEW p \in Procs, NEW r \in Requests, Refuse(p, r)
    PROVE  DAVInv'
<1>1. PICK code \in {403, 423} : Accept(p, r, code)
  BY DEF Refuse
<1>2. /\ stage[p] = "idle" /\ received < MaxRequests /\ received' = received + 1
      /\ request' = [request EXCEPT ![p] = r] /\ status' = [status EXCEPT ![p] = code]
      /\ UNCHANGED <<pc, call, stage, held, arrived, alone>>
      /\ UNCHANGED vars
  BY <1>1 DEF Accept, Refuse, vars
<1>3. CallsInv'
  BY <1>2, StutterKeeps DEF DAVInv
<1>4. HandlerTypeOK' /\ (DOMAIN arrived = Procs)'
  BY <1>2, RequestsAssumption DEF DAVInv, HandlerTypeOK
<1>5. \A q \in Procs : Serving(q)'
  BY <1>2 DEF DAVInv, Serving, HandlerTypeOK
<1>6. TrulyAlone'
  BY <1>2 DEF DAVInv, TrulyAlone, Active, HandlerTypeOK
<1>. QED BY <1>3, <1>4, <1>5, <1>6 DEF DAVInv

\* A MOVE takes its second lock, or gives up.
LEMMA LockDstKeeps ==
    ASSUME DAVInv, NEW p \in Procs, LockDst(p)
    PROVE  DAVInv'
<1>1. stage[p] = "lockDst" /\ pc[p] = "idle"
  BY DEF LockDst, Answered
<1>2. CASE Respond(p, 423)
  BY <1>1, <1>2, RespondKeeps
<1>3. CASE ~Respond(p, 423)
  <2> DEFINE r == request[p]
  <2>1. /\ r \in Requests /\ r.method = "MOVE" /\ r.path # r.dst /\ held[p] = {r.path}
        /\ r.dst \in Paths
    BY <1>1, ServingFacts, StageMethods, RequestTypes DEF LocksAt
  <2>2. "statDst" \in StagesOf(r.method)
    BY <2>1 DEF StagesOf
  <2>3. CallAt("statDst", r) = CallOnDst("Stat", r)
    BY DEF CallAt
  <2> DEFINE c == CallOnDst("Stat", r)
  <2>4. c \in Calls
    BY <2>1, <2>2, <2>3, StageCalls
  <2>5. /\ ~LockedFor(p, r.dst)
        /\ held' = [held EXCEPT ![p] = @ \cup {r.dst}]
        /\ arrived' = [arrived EXCEPT ![p] = bucket]
        /\ stage' = [stage EXCEPT ![p] = "statDst"]
        /\ Begin(p, c)
        /\ UNCHANGED <<request, status, received, alone>>
    BY <1>3 DEF LockDst
  <2> HIDE DEF c, r
  <2>6. CallsInv'
    BY <2>4, <2>5, BeginKeeps DEF DAVInv
  <2>7. /\ pc' = [pc EXCEPT ![p] = FirstStep[c.op]] /\ call' = [call EXCEPT ![p] = c]
        /\ DOMAIN pc = Procs /\ DOMAIN call = Procs /\ DOMAIN stage = Procs
        /\ DOMAIN held = Procs /\ DOMAIN arrived = Procs
    BY <2>5 DEF Begin, DAVInv, CallsInv, FrameTypeOK, HandlerTypeOK
  <2>8. \A q \in Procs \ {p} : r.dst \notin held[q]
    BY <2>5 DEF LockedFor
  <2>9. HandlerTypeOK' /\ (DOMAIN arrived = Procs)'
    <3>1. stage' \in [Procs -> Stages] /\ held' \in [Procs -> SUBSET Paths]
      BY <2>1, <2>5 DEF DAVInv, HandlerTypeOK, Stages
    <3>2. \A q1, q2 \in Procs : q1 # q2 => held'[q1] \cap held'[q2] = {}
      BY <2>5, <2>7, <2>8 DEF DAVInv, HandlerTypeOK
    <3>3. \A q \in Procs : IsBucket(arrived'[q])
      BY <2>5, <2>7 DEF DAVInv, HandlerTypeOK, CallsInv, StoreTypeOK
    <3>4. \A q \in Procs : pc'[q] # "idle" \/ held'[q] # {} => stage'[q] # "idle"
      BY <2>5, <2>7 DEF DAVInv, HandlerTypeOK
    <3>. QED BY <2>5, <2>7, <3>1, <3>2, <3>3, <3>4 DEF DAVInv, HandlerTypeOK
  <2>10. Serving(p)'
    <3>1. LocksAt("statDst", r) = {r.path, r.dst}
      BY <2>1 DEF LocksAt
    <3>2. held'[p] = {r.path, r.dst} /\ request'[p] = r /\ stage'[p] = "statDst" /\ call'[p] = c
      BY <2>1, <2>5, <2>7 DEF r
    <3>. QED BY <2>1, <2>2, <2>3, <3>1, <3>2 DEF Serving, c, r
  <2>11. \A q \in Procs \ {p} : Serving(q)'
    BY <2>5, <2>7 DEF DAVInv, Serving
  <2>12. TrulyAlone'
    BY <1>1, <2>5, <2>7 DEF DAVInv, TrulyAlone, Active
  <2>. QED BY <2>6, <2>9, <2>10, <2>11, <2>12 DEF DAVInv
<1>. QED BY <1>2, <1>3

\* A step of a call changes nothing the handlers know.
LEMMA ServeFacts ==
    ASSUME DAVInv, NEW p \in Procs, Serve(p)
    PROVE  /\ Step(p) /\ Fine(p) /\ pc[p] # "idle" /\ stage[p] \notin {"idle", "lockDst"}
           /\ UNCHANGED <<request, stage, held, status, received, arrived, alone, call>>
<1>1. Step(p) /\ Fine(p) /\ pc[p] # "idle"
  BY StepFine, StepActive DEF Serve, DAVInv
<1>2. stage[p] \notin {"idle", "lockDst"}
  BY <1>1 DEF DAVInv, Serving
<1>. QED BY <1>1, <1>2 DEF Serve, davVars, Fine

LEMMA ServeKeeps ==
    ASSUME DAVInv, NEW p \in Procs, Serve(p)
    PROVE  DAVInv'
<1>1. CallsInv'
  BY ServeFacts, FineKeeps DEF DAVInv
<1>2. \A q \in Procs \ {p} : pc'[q] = pc[q]
  BY ServeFacts DEF Fine
<1>3. HandlerTypeOK' /\ (DOMAIN arrived = Procs)'
  BY <1>2, ServeFacts DEF DAVInv, HandlerTypeOK
<1>4. \A q \in Procs : Serving(q)'
  BY <1>2, ServeFacts DEF DAVInv, Serving
<1>5. TrulyAlone'
  BY ServeFacts DEF DAVInv, TrulyAlone, Active
<1>. QED BY <1>1, <1>3, <1>4, <1>5 DEF DAVInv

LEMMA RestartKeeps == ASSUME DAVInv, Restart PROVE DAVInv'
<1>1. CallsInv'
  BY CrashKeeps DEF Restart, DAVInv
<1>2. /\ pc' = [p \in Procs |-> "idle"] /\ stage' = [p \in Procs |-> "idle"]
      /\ held' = [p \in Procs |-> {}] /\ alone' = [p \in Procs |-> TRUE]
      /\ arrived' = [p \in Procs |-> NoBucket] /\ UNCHANGED <<request, received>>
      /\ status' = [p \in Procs |-> IF stage[p] = "idle" THEN status[p] ELSE 0]
  BY DEF Restart, Crash
<1>3. HandlerTypeOK' /\ (DOMAIN arrived = Procs)'
  BY <1>2, NoBucketType DEF DAVInv, HandlerTypeOK, Stages
<1>4. \A q \in Procs : Serving(q)'
  BY <1>2 DEF Serving
<1>5. TrulyAlone'
  BY <1>2 DEF TrulyAlone, Active
<1>. QED BY <1>1, <1>3, <1>4, <1>5 DEF DAVInv

\* What a step of a handler may be: it answers, or makes the call of another stage.
LEMMA HandleKinds ==
    ASSUME DAVInv, NEW p \in Procs, Handle(p), ~LockDst(p)
    PROVE  /\ stage[p] \notin {"idle", "lockDst"} /\ pc[p] = "idle"
           /\ \/ \E code \in {200, 201, 204, 301, 403, 404, 405, 412, 423, 500} : Respond(p, code)
              \/ \E next \in StagesOf(request[p].method) \ {"lockDst"} :
                    /\ Follows(stage[p], ret[p].kind, request[p], next)
                    /\ LocksAt(next, request[p]) = held[p]
                    /\ Ask(p, next, CallAt(next, request[p]))
<1> DEFINE Asks(next) == next \in StagesOf(request[p].method) \ {"lockDst"}
                         /\ Follows(stage[p], ret[p].kind, request[p], next)
                    /\ next \notin {"statSlash", "statDelete", "statDst"}
                         /\ LocksAt(next, request[p]) = held[p]
                         /\ Ask(p, next, CallAt(next, request[p]))
           Answers == \E code \in {200, 201, 204, 301, 403, 404, 405, 412, 423, 500} : Respond(p, code)
<1>1. stage[p] \notin {"idle", "lockDst"} /\ pc[p] = "idle"
  BY DEF Handle, Answered, Redirect, Dispatch, ServeListing, ServeFile, Uploaded,
     FoundToDelete, Deleted, Created, MoveOnto, DstRemoved, Renamed
<1>2. /\ request[p] \in Requests /\ stage[p] \in StagesOf(request[p].method)
      /\ held[p] = LocksAt(stage[p], request[p])
  BY <1>1, ServingFacts
<1>3. /\ stage[p] \in {"statSlash", "stat", "list", "get"} => request[p].method = "GET"
      /\ stage[p] \in {"statDelete", "remove"} => request[p].method = "DELETE"
      /\ stage[p] \in {"statDst", "removeDst", "create", "replace"} => request[p].method = "MOVE"
  BY <1>2, StageMethods
<1>4. CASE Redirect(p)
  <2>1. stage[p] = "statSlash" /\ request[p].method = "GET"
    BY <1>3, <1>4 DEF Redirect, Answered
  <2>2. Answers \/ Ask(p, "stat", CallOf("Stat", request[p]))
    BY <1>4 DEF Redirect
  <2>3. Ask(p, "stat", CallOf("Stat", request[p])) => Asks("stat")
    BY <1>2, <2>1 DEF StagesOf, CallAt, LocksAt, Follows
  <2>. QED BY <1>1, <2>2, <2>3
<1>5. CASE Dispatch(p)
  <2>1. stage[p] = "stat" /\ request[p].method = "GET"
    BY <1>3, <1>5 DEF Dispatch, Answered
  <2>2. \/ ret[p].kind = "dir" /\ Ask(p, "list", CallOf("Read", request[p]))
        \/ ret[p].kind # "dir" /\ Ask(p, "get", CallOf("Open", request[p]))
    BY <1>5 DEF Dispatch, answer
  <2>3. /\ ret[p].kind = "dir" /\ Ask(p, "list", CallOf("Read", request[p])) => Asks("list")
        /\ ret[p].kind # "dir" /\ Ask(p, "get", CallOf("Open", request[p])) => Asks("get")
    BY <1>2, <2>1 DEF StagesOf, CallAt, LocksAt, Follows
  <2>. QED BY <1>1, <2>2, <2>3
<1>6. CASE ServeListing(p) \/ ServeFile(p) \/ Uploaded(p) \/ Deleted(p) \/ Created(p) \/ Renamed(p)
  <2>1. Answers
    BY <1>6 DEF ServeListing, ServeFile, Uploaded, Deleted, Created, Renamed
  <2>. QED BY <1>1, <2>1
<1>7. CASE FoundToDelete(p)
  <2>1. stage[p] = "statDelete" /\ request[p].method = "DELETE"
    BY <1>3, <1>7 DEF FoundToDelete, Answered
  <2>2. Answers \/ (ret[p].kind # "missing" /\ Ask(p, "remove", CallOf("RemoveAll", request[p])))
    BY <1>7 DEF FoundToDelete, answer
  <2>3. ret[p].kind # "missing" /\ Ask(p, "remove", CallOf("RemoveAll", request[p])) => Asks("remove")
    BY <1>2, <2>1 DEF StagesOf, CallAt, LocksAt, Follows
  <2>. QED BY <1>1, <2>2, <2>3
<1>8. CASE MoveOnto(p)
  <2>1. stage[p] = "statDst" /\ request[p].method = "MOVE"
    BY <1>3, <1>8 DEF MoveOnto, Answered
  <2>2. \/ Answers
        \/ ret[p].kind = "missing" /\ Ask(p, "create", RenameOf(request[p]))
        \/ /\ ret[p].kind # "missing" /\ request[p].overwrite
           /\ Ask(p, "removeDst", CallOnDst("RemoveAll", request[p]))
    BY <1>8 DEF MoveOnto, answer
  <2>3. /\ ret[p].kind = "missing" /\ Ask(p, "create", RenameOf(request[p])) => Asks("create")
        /\ /\ ret[p].kind # "missing" /\ request[p].overwrite
           /\ Ask(p, "removeDst", CallOnDst("RemoveAll", request[p]))
           => Asks("removeDst")
    BY <1>2, <2>1 DEF StagesOf, CallAt, LocksAt, Follows
  <2>. QED BY <1>1, <2>2, <2>3
<1>9. CASE DstRemoved(p)
  <2>1. stage[p] = "removeDst" /\ request[p].method = "MOVE"
    BY <1>3, <1>9 DEF DstRemoved, Answered
  <2>2. Answers \/ (ret[p].kind = "ok" /\ Ask(p, "replace", RenameOf(request[p])))
    BY <1>9 DEF DstRemoved, answer
  <2>3. ret[p].kind = "ok" /\ Ask(p, "replace", RenameOf(request[p])) => Asks("replace")
    BY <1>2, <2>1 DEF StagesOf, CallAt, LocksAt, Follows
  <2>. QED BY <1>1, <2>2, <2>3
<1>. QED BY <1>4, <1>5, <1>6, <1>7, <1>8, <1>9 DEF Handle

LEMMA HandleKeeps == ASSUME DAVInv, NEW p \in Procs, Handle(p) PROVE DAVInv'
<1>1. CASE LockDst(p)
  BY <1>1, LockDstKeeps
<1>2. CASE ~LockDst(p)
  BY <1>2, HandleKinds, AskKeeps, RespondKeeps
<1>. QED BY <1>1, <1>2

LEMMA StutterDAV == DAVInv /\ UNCHANGED allVars => DAVInv'
<1>. SUFFICES ASSUME DAVInv, UNCHANGED allVars PROVE DAVInv'
  OBVIOUS
<1>1. UNCHANGED vars /\ UNCHANGED <<request, stage, held, status, received, arrived, alone>>
      /\ UNCHANGED <<pc, call>>
  BY DEF allVars, davVars, vars
<1>2. CallsInv'
  BY <1>1, StutterKeeps DEF DAVInv
<1>3. HandlerTypeOK' /\ (DOMAIN arrived = Procs)'
  BY <1>1 DEF DAVInv, HandlerTypeOK
<1>4. (\A q \in Procs : Serving(q))' /\ TrulyAlone'
  BY <1>1 DEF DAVInv, Serving, TrulyAlone, Active
<1>. QED BY <1>2, <1>3, <1>4 DEF DAVInv

\* The steps of the server.
LEMMA NextKinds ==
    ASSUME Next
    PROVE  \/ \E p \in Procs, r \in Requests : Receive(p, r) \/ Refuse(p, r)
           \/ \E p \in Procs : Handle(p)
           \/ \E p \in Procs : Serve(p)
           \/ Restart
BY DEF Next, Handle

LEMMA InitDAV == Init => DAVInv
<1>. SUFFICES ASSUME Init PROVE DAVInv
  OBVIOUS
<1>1. FrameInit /\ CallsInv
  BY InitCalls DEF Init, HandlerInit
<1>2. HandlerTypeOK /\ DOMAIN arrived = Procs
  BY <1>1, NoBucketType, RequestsAssumption DEF Init, HandlerInit, FrameInit, HandlerTypeOK, Stages
<1>3. (\A q \in Procs : Serving(q)) /\ TrulyAlone
  BY <1>1 DEF Init, HandlerInit, FrameInit, Serving, TrulyAlone, Active
<1>. QED BY <1>1, <1>2, <1>3 DEF DAVInv

LEMMA NextDAV == DAVInv /\ [Next]_allVars => DAVInv'
BY NextKinds, ReceiveKeeps, RefuseKeeps, HandleKeeps, ServeKeeps, RestartKeeps, StutterDAV

\* The inductive invariant holds in every reachable state: whatever requests arrive,
\* fail and are lost, a handler's stage, its call and its locks belong together.
THEOREM ServerInvariance == Spec => []DAVInv
BY InitDAV, NextDAV, PTL DEF Spec

\* Every variable of the server has its type, no path is locked for two requests at
\* once and locks are held by running requests only (webdav.NewMemLS, confirmLocks).
THEOREM ServerTypeCorrect == Spec => []TypeOK
<1>1. DAVInv => TypeOK
  BY DEF DAVInv, CallsInv, TypeOK
<1>. QED BY <1>1, ServerInvariance, PTL

-----------------------------------------------------------------------------
(* What the locks are for *)

LEMMA WithinItself == \A x \in Paths : Within(x, x)
<1>. SUFFICES ASSUME NEW x \in Paths PROVE Within(x, x)
  OBVIOUS
<1>1. x \in Seq(Nat)
  BY DEF Paths
<1>2. SubSeq(x, 1, Len(x)) = x /\ Len(x) \in Nat
  BY <1>1
<1>. QED BY <1>2 DEF Within

\* While a request that counts as alone runs, no call of another one changes anything
\* at or below a path it has locked, or reads.
LEMMA OthersOut ==
    ASSUME DAVInv, NEW p \in Procs, NEW q \in Procs, p # q, Serve(q),
           stage[p] # "idle", alone[p],
           NEW x \in PathsOfRequest(request[p]), request[p].method = "GET" \/ x \in held[p],
           NEW k, InTree(k, x)
    PROVE  SameAt(bucket, bucket', k)
<1>. SUFFICES ASSUME ~SameAt(bucket, bucket', k) PROVE FALSE
  OBVIOUS
<1>1. Fine(q) /\ stage[q] \notin {"idle", "lockDst"}
  BY ServeFacts
<1>2. k \in Keys
  BY <1>1 DEF Fine, StoreTypeOK, IsBucket, SameAt, DAVInv, CallsInv
<1>3. /\ request[q] \in Requests /\ stage[q] \in StagesOf(request[q].method)
      /\ request[q].method = "MOVE" => request[q].path # request[q].dst
      /\ held[q] = LocksAt(stage[q], request[q])
      /\ call[q] = CallAt(stage[q], request[q])
  BY <1>1, ServingFacts
<1>4. Footprint(CallAt(stage[q], request[q]), k)
  BY <1>1, <1>3 DEF Fine
<1>5. request[q].method # "GET"
  BY <1>1, <1>3, <1>4, StageFootprint
<1>6. PICK y \in PathsOfRequest(request[q]) : y \in held[q] /\ InTree(k, y)
  BY <1>1, <1>3, <1>4, StageFootprint
<1>7. x \in Paths /\ y \in Paths
  BY <1>3, <1>6, ServingFacts, RequestTypes
<1>8. ~Disturbs(request[q], request[p])
  BY <1>1 DEF DAVInv, TrulyAlone, Active
<1>9. CASE x = y
  <2>1. request[p].method = "GET"
    BY <1>6, <1>9 DEF DAVInv, HandlerTypeOK
  <2>. QED BY <1>5, <1>6, <1>7, <1>8, <1>9, <2>1, WithinItself DEF Disturbs
<1>10. CASE x # y
  <2>1. ~Within(x, y) /\ ~Within(y, x)
    BY <1>5, <1>6, <1>8, <1>10 DEF Disturbs
  <2>. QED BY <1>2, <1>6, <1>7, <2>1, TreesApart
<1>. QED BY <1>9, <1>10

-----------------------------------------------------------------------------
(* What a step means for a request *)

\* Nothing of the request of p changes; it may turn out not to be alone.
Untouched(p) ==
    /\ request'[p] = request[p] /\ stage'[p] = stage[p] /\ arrived'[p] = arrived[p]
    /\ pc'[p] = pc[p] /\ call'[p] = call[p] /\ loc'[p] = loc[p] /\ ret'[p] = ret[p]
    /\ before'[p] = before[p]
    /\ alone'[p] => alone[p]

\* The handler of p makes the call of a stage of its method: the first one after it
\* has its locks, or the next one.
Asking(p) ==
    /\ pc[p] = "idle" /\ stage'[p] \in StagesOf(request'[p].method) \ {"lockDst"}
    /\ call'[p] = CallAt(stage'[p], request'[p]) /\ pc'[p] = FirstStep[call'[p].op]
    /\ before'[p] = bucket /\ loc'[p] = loc[p]
    /\ IF stage[p] \in {"idle", "lockDst"}
       THEN arrived'[p] = bucket /\ stage'[p] \in StatStages \cup {"put", "mkcol"}
       ELSE /\ request'[p] = request[p] /\ arrived'[p] = arrived[p] /\ alone'[p] = alone[p]
            /\ Follows(stage[p], ret[p].kind, request[p], stage'[p])

LEMMA ReceiveMeans ==
    ASSUME DAVInv, NEW q \in Procs, NEW r \in Requests, Receive(q, r), NEW p \in Procs
    PROVE  /\ bucket' = bucket /\ faults' = faults
           /\ \/ p # q /\ Untouched(p)
              \/ p = q /\ stage[p] = "idle" /\ Asking(p)
              \/ p = q /\ stage[p] = "idle" /\ stage'[p] = "lockDst" /\ pc'[p] = "idle"
                 /\ request'[p] = r /\ arrived'[p] = bucket
<1>1. /\ stage[q] = "idle"
      /\ request' = [request EXCEPT ![q] = r]
      /\ stage' = [stage EXCEPT ![q] = Opening(r)]
      /\ arrived' = [arrived EXCEPT ![q] = bucket]
      /\ alone' = Alone(q, r)
      /\ IF r.method = "MOVE" THEN UNCHANGED vars ELSE Begin(q, CallOf(FirstOp[r.method], r))
  BY DEF Receive, Accept
<1>2. /\ DOMAIN stage = Procs /\ DOMAIN arrived = Procs /\ DOMAIN request = Procs
      /\ DOMAIN pc = Procs /\ DOMAIN call = Procs /\ DOMAIN before = Procs /\ DOMAIN ret = Procs
  BY DEF DAVInv, HandlerTypeOK, CallsInv, FrameTypeOK
<1>3. bucket' = bucket /\ faults' = faults /\ loc' = loc /\ pc[q] = "idle"
  BY <1>1 DEF Begin, vars, DAVInv, Serving
<1>4. CASE p # q
  BY <1>1, <1>2, <1>3, <1>4 DEF Begin, vars, Untouched, Alone
<1>5. CASE p = q
  <2>1. r.method \in Methods
    BY RequestTypes
  <2>2. /\ stage'[p] = Opening(r) /\ request'[p] = r /\ arrived'[p] = bucket
    BY <1>1, <1>2, <1>5
  <2>3. CASE r.method = "MOVE"
    <3>1. Opening(r) = "lockDst" /\ pc' = pc
      BY <1>1, <2>3 DEF Opening, FirstStage, vars
    <3>. QED BY <1>1, <1>3, <1>5, <2>2, <3>1
  <2>4. CASE r.method # "MOVE"
    <3> DEFINE c == CallOf(FirstOp[r.method], r)
    <3>1. /\ Opening(r) \in StagesOf(r.method) \ {"lockDst"} /\ c = CallAt(Opening(r), r)
          /\ Opening(r) \in StatStages \cup {"put", "mkcol"}
      BY <2>1, <2>4 DEF Opening, FirstStage, StagesOf, FirstOp, CallAt, Methods, StatStages
    <3>2. Begin(q, c)
      BY <1>1, <2>4
    <3> HIDE DEF c
    <3>3. call'[p] = c /\ pc'[p] = FirstStep[c.op] /\ before'[p] = bucket
      BY <1>2, <1>5, <3>2 DEF Begin
    <3>. QED BY <1>1, <1>3, <1>5, <2>2, <3>1, <3>3 DEF Asking
  <2>. QED BY <2>3, <2>4
<1>. QED BY <1>3, <1>4, <1>5

LEMMA RefuseMeans ==
    ASSUME DAVInv, NEW q \in Procs, NEW r \in Requests, Refuse(q, r), NEW p \in Procs
    PROVE  /\ bucket' = bucket /\ faults' = faults
           /\ Untouched(p) \/ (stage[p] = "idle" /\ stage'[p] = "idle")
<1>1. /\ stage[q] = "idle" /\ request' = [request EXCEPT ![q] = r]
      /\ UNCHANGED <<vars, stage, arrived, alone>>
  BY DEF Refuse, Accept
<1>2. DOMAIN request = Procs
  BY DEF DAVInv, HandlerTypeOK
<1>. QED BY <1>1, <1>2 DEF vars, Untouched

LEMMA HandleMeans ==
    ASSUME DAVInv, NEW q \in Procs, Handle(q), NEW p \in Procs
    PROVE  /\ bucket' = bucket /\ faults' = faults /\ request' = request
           /\ \/ p # q /\ Untouched(p)
              \/ p = q /\ stage[p] # "idle" /\ (stage'[p] = "idle" \/ Asking(p))
<1>1. /\ DOMAIN stage = Procs /\ DOMAIN arrived = Procs /\ DOMAIN alone = Procs
      /\ DOMAIN pc = Procs /\ DOMAIN call = Procs /\ DOMAIN before = Procs /\ DOMAIN ret = Procs
  BY DEF DAVInv, HandlerTypeOK, CallsInv, FrameTypeOK
<1> DEFINE Goal == /\ bucket' = bucket /\ faults' = faults /\ request' = request
                   /\ \/ p # q /\ Untouched(p)
                      \/ p = q /\ stage[p] # "idle" /\ (stage'[p] = "idle" \/ Asking(p))
<1>2. ASSUME NEW code, Respond(q, code), stage[q] # "idle" PROVE Goal
  BY <1>1, <1>2 DEF Respond, vars, Untouched
<1>3. ASSUME NEW next \in StagesOf(request[q].method) \ {"lockDst"},
             Ask(q, next, CallAt(next, request[q])),
             stage[q] \notin {"idle", "lockDst"},
             Follows(stage[q], ret[q].kind, request[q], next)
      PROVE  Goal
  <2> DEFINE c == CallAt(next, request[q])
  <2>1. Begin(q, c) /\ stage' = [stage EXCEPT ![q] = next]
        /\ UNCHANGED <<request, arrived, alone>>
    BY <1>3 DEF Ask
  <2> HIDE DEF c
  <2>2. /\ call' = [call EXCEPT ![q] = c] /\ pc' = [pc EXCEPT ![q] = FirstStep[c.op]]
        /\ before' = [before EXCEPT ![q] = bucket] /\ ret' = [ret EXCEPT ![q] = Nothing]
        /\ UNCHANGED <<bucket, loc, faults>> /\ pc[q] = "idle"
    BY <2>1 DEF Begin
  <2>3. CASE p # q
    BY <1>1, <2>1, <2>2, <2>3 DEF Untouched
  <2>4. CASE p = q
    BY <1>1, <1>3, <2>1, <2>2, <2>4 DEF Asking, c
  <2>. QED BY <2>3, <2>4
<1>4. CASE LockDst(q)
  <2>1. stage[q] = "lockDst"
    BY <1>4 DEF LockDst, Answered
  <2>2. CASE Respond(q, 423)
    BY <1>2, <2>1, <2>2
  <2>3. CASE ~Respond(q, 423)
    <3> DEFINE c == CallOnDst("Stat", request[q])
    <3>1. /\ arrived' = [arrived EXCEPT ![q] = bucket] /\ stage' = [stage EXCEPT ![q] = "statDst"]
          /\ Begin(q, c) /\ UNCHANGED <<request, alone>>
      BY <1>4, <2>3 DEF LockDst
    <3>2. c = CallAt("statDst", request[q])
      BY DEF CallAt
    <3> HIDE DEF c
    <3>3. /\ call' = [call EXCEPT ![q] = c] /\ pc' = [pc EXCEPT ![q] = FirstStep[c.op]]
          /\ before' = [before EXCEPT ![q] = bucket] /\ ret' = [ret EXCEPT ![q] = Nothing]
          /\ UNCHANGED <<bucket, loc, faults>> /\ pc[q] = "idle"
      BY <3>1 DEF Begin
    <3>4. CASE p # q
      BY <1>1, <3>1, <3>3, <3>4 DEF Untouched
    <3>5. CASE p = q
      <4>1. "statDst" \in StagesOf(request[q].method)
        BY <2>1, ServingFacts, StageMethods DEF StagesOf
      <4>. QED BY <1>1, <2>1, <3>1, <3>2, <3>3, <3>5, <4>1 DEF Asking, StatStages
    <3>. QED BY <3>4, <3>5
  <2>. QED BY <2>2, <2>3
<1>5. CASE ~LockDst(q)
  BY <1>2, <1>3, <1>5, HandleKinds
<1>. QED BY <1>4, <1>5

LEMMA RestartMeans ==
    ASSUME NEW p \in Procs, DAVInv, Restart
    PROVE  /\ bucket' = bucket
           /\ stage'[p] = "idle"
           /\ stage[p] # "idle" => status'[p] = 0
BY DEF Restart, Crash, Fails, DAVInv, CallsInv, StoreTypeOK

LEMMA ServeMeans ==
    ASSUME DAVInv, NEW q \in Procs, Serve(q), NEW p \in Procs, p # q
    PROVE  Untouched(p)
BY ServeFacts DEF Fine, Untouched

\* Only a call of a file system writes to the bucket.
LEMMA BucketWrites ==
    ASSUME DAVInv, [Next]_allVars, bucket' # bucket
    PROVE  \E q \in Procs : Serve(q)
<1>1. ASSUME NEW q \in Procs, NEW r \in Requests, Receive(q, r) \/ Refuse(q, r) PROVE FALSE
  BY <1>1, ReceiveMeans, RefuseMeans
<1>2. ASSUME NEW q \in Procs, Handle(q) PROVE FALSE
  BY <1>2, HandleMeans
<1>3. ASSUME Restart PROVE FALSE
  BY <1>3 DEF Restart, Crash
<1>4. ASSUME UNCHANGED allVars PROVE FALSE
  BY <1>4 DEF allVars, vars
<1>. QED BY <1>1, <1>2, <1>3, <1>4, NextKinds

\* Only its own handler answers a request.
LEMMA Responding ==
    ASSUME DAVInv, [Next]_allVars, NEW p \in Procs, NEW method, NEW codes,
           Responds(p, method, codes), 0 \notin codes
    PROVE  /\ Handle(p) /\ bucket' = bucket /\ faults' = faults
           /\ request[p] \in Requests /\ request[p].method = method
           /\ stage[p] \in StagesOf(method)
<1>1. /\ stage[p] # "idle" /\ stage'[p] = "idle" /\ request[p].method = method
      /\ status'[p] \in codes
  BY DEF Responds
<1>2. request[p] \in Requests /\ stage[p] \in StagesOf(method)
  BY <1>1, ServingFacts
<1>3. ~Untouched(p)
  BY <1>1 DEF Untouched
<1>4. CASE \E q \in Procs, r \in Requests : Receive(q, r) \/ Refuse(q, r)
  BY <1>1, <1>3, <1>4, ReceiveMeans, RefuseMeans
<1>5. CASE \E q \in Procs : Handle(q)
  <2>1. Handle(p)
    BY <1>3, <1>5, HandleMeans
  <2>. QED BY <1>1, <1>2, <2>1, HandleMeans
<1>6. CASE \E q \in Procs : Serve(q)
  BY <1>1, <1>6, ServeFacts
<1>7. CASE Restart
  BY <1>1, <1>7, RestartMeans
<1>8. CASE UNCHANGED allVars
  BY <1>1, <1>8 DEF allVars, davVars
<1>. QED BY <1>4, <1>5, <1>6, <1>7, <1>8, NextKinds

-----------------------------------------------------------------------------
(* Uploads *)

\* Only a complete upload that has been stored makes Close return without an error.
LEMMA CloseStores ==
    ASSUME CallsInv, NEW p \in Procs, Step(p), call[p].op = "Put",
           pc'[p] = "idle", ret'[p].kind = "ok"
    PROVE  /\ keyFor(name(p)) \in DOMAIN bucket'
           /\ bucket'[keyFor(name(p))] = [body |-> call[p].body, chunks |-> Chunks]
<1>1. /\ pc[p] \in {"open", "openList", "write"} /\ loc[p] \in Locals
      /\ DOMAIN pc = Procs /\ DOMAIN ret = Procs
  BY StepActive, OperationOf DEF CallsInv, FrameTypeOK, Scope, ScopeOf, LabelsOf
<1>2. \/ OpenRoot(p) \/ S3OpenHead(p) \/ OpenHead(p) \/ OpenList(p) \/ Write(p) \/ Close(p)
  <2>1. CASE S3Step(p)
    BY <1>1, <2>1
       DEF S3Step, Mkdir, OpenGet, ReaddirPage, S3RemoveFile, S3RemoveList, S3RemoveBatch,
           S3RenameFile, S3RenameDelete, S3RenameList, S3RenameCopy, S3RenameBatch, StatRoot,
           StatFile, StatMarker, StatList
  <2>2. CASE GCSStep(p) \/ AzureStep(p)
    BY <1>1, <2>2
       DEF GCSStep, GCSOpenFile, GCSReaddir, GCSRemoveAll, GCSRemoveFile, GCSRename,
           GCSRenameFile, GCSStat, AzureStep, AzureOpenFile, AzureRemoveAll, AzureRemoveFile,
           AzureRename, AzureRenameFile, AzureStat, ReaddirPage, Mkdir, OpenGet, GCSOpenGet, RemoveList,
           RemoveObject, RenameDelete, RenameList, RenameCopy, RenameObject, StatRoot,
           StatFile, StatMarker, StatList
  <2>. QED BY <2>1, <2>2 DEF Step
<1>3. CASE OpenRoot(p) \/ S3OpenHead(p) \/ OpenHead(p) \/ OpenList(p)
  BY <1>1, <1>3 DEF OpenRoot, S3OpenHead, OpenHead, OpenList, Opened, Goto, Return, ReturnWith
<1>4. CASE Write(p)
  BY <1>1, <1>4 DEF Write, Goto
<1>5. CASE Close(p)
  <2> DEFINE object == [body |-> call[p].body, chunks |-> loc[p].chunks]
  <2>1. PICK ok \in BOOLEAN :
          /\ PutObject(keyFor(name(p)), object, ok)
          /\ Return(p, IF ~ok THEN "error" ELSE IF loc[p].chunks < Chunks THEN "aborted" ELSE "ok")
    BY <1>5 DEF Close
  <2>2. ok /\ ~(loc[p].chunks < Chunks)
    BY <1>1, <2>1 DEF Return, ReturnWith
  <2>3. loc[p].chunks = Chunks
    BY <1>1, <2>2, StoreAssumption DEF Locals
  <2>4. bucket' = Store(bucket, keyFor(name(p)), object)
    BY <2>1, <2>2 DEF PutObject
  <2>. QED BY <2>3, <2>4 DEF Store
<1>. QED BY <1>2, <1>3, <1>4, <1>5

\* A step of a call that is not its own leaves an upload that is alone as it is.
LEMMA UploadStays ==
    ASSUME DAVInv, [Next]_allVars, NEW p \in Procs, UploadInv(p)
    PROVE  UploadInv(p)'
<1>. SUFFICES ASSUME stage'[p] = "put", pc'[p] = "idle", ret'[p].kind = "ok", alone'[p]
              PROVE  /\ keyFor(request'[p].path) \in DOMAIN bucket'
                     /\ bucket'[keyFor(request'[p].path)]
                          = [body |-> request'[p].body, chunks |-> Chunks]
  BY DEF UploadInv
<1> DEFINE k == keyFor(request[p].path)
<1>1. ASSUME Untouched(p), SameAt(bucket, bucket', k) PROVE UploadInv(p)'
  BY <1>1 DEF UploadInv, Untouched, SameAt
<1>2. ~Asking(p)
  <2>. SUFFICES ASSUME Asking(p) PROVE FALSE
    OBVIOUS
  <2>1. call'[p] = CallOf("Put", request'[p])
    BY DEF Asking, CallAt
  <2>. QED BY <2>1, CallFields DEF Asking, FirstStep
<1>3. ASSUME bucket' = bucket, Untouched(p) PROVE UploadInv(p)'
  BY <1>1, <1>3, SameFacts
<1>4. CASE \E q \in Procs, r \in Requests : Receive(q, r) \/ Refuse(q, r)
  BY <1>2, <1>3, <1>4, ReceiveMeans, RefuseMeans DEF UploadInv
<1>5. CASE \E q \in Procs : Handle(q)
  BY <1>2, <1>3, <1>5, HandleMeans DEF UploadInv
<1>6. CASE Restart
  BY <1>6, RestartMeans
<1>7. CASE UNCHANGED allVars
  BY <1>7 DEF allVars, davVars, vars, UploadInv
<1>8. CASE Serve(p)
  <2>1. /\ Step(p) /\ stage[p] = "put" /\ call'[p] = call[p] /\ request' = request
    BY <1>8, ServeFacts
  <2>2. call[p] = CallOf("Put", request[p])
    BY <1>8, <2>1, ServeFacts, ServingFacts DEF CallAt
  <2>3. /\ keyFor(name(p)) \in DOMAIN bucket'
        /\ bucket'[keyFor(name(p))] = [body |-> call[p].body, chunks |-> Chunks]
    BY <2>1, <2>2, CallFields, CloseStores DEF DAVInv
  <2>. QED BY <2>1, <2>2, <2>3, CallFields DEF name
<1>9. ASSUME NEW q \in Procs \ {p}, Serve(q) PROVE UploadInv(p)'
  <2>1. Untouched(p)
    BY <1>9, ServeMeans
  <2>2. stage[p] = "put" /\ alone[p]
    BY <2>1 DEF Untouched
  <2>3. /\ request[p].path \in PathsOfRequest(request[p]) /\ request[p].path \in held[p]
    BY <2>2, ServingFacts, StageMethods DEF PathsOfRequest, LocksAt
  <2>4. SameAt(bucket, bucket', k)
    BY <1>9, <2>2, <2>3, OthersOut DEF InTree
  <2>. QED BY <1>1, <2>1, <2>4
<1>. QED BY <1>4, <1>5, <1>6, <1>7, <1>8, <1>9, NextKinds DEF UploadInv

Uploads == DAVInv /\ \A p \in Procs : UploadInv(p)

LEMMA UploadsHold == Spec => []Uploads
<1>1. Init => Uploads
  BY InitDAV DEF Uploads, UploadInv, Init, HandlerInit
<1>2. Uploads /\ [Next]_allVars => Uploads'
  BY NextDAV, UploadStays DEF Uploads
<1>. QED BY <1>1, <1>2, PTL DEF Spec

\* An upload that is answered 201 is stored completely when the client is told,
\* whatever other requests are sent meanwhile: the lock on its name keeps them out
\* (webdav.Handler with NewMemLS, Close).
THEOREM UploadsAcknowledged == Spec => AcknowledgedUploads
<1>1. ASSUME Uploads, [Next]_allVars, NEW p \in Procs, Responds(p, "PUT", {201}), alone[p]
      PROVE  LET r == request[p]
             IN  /\ keyFor(r.path) \in DOMAIN bucket
                 /\ bucket[keyFor(r.path)] = [body |-> r.body, chunks |-> Chunks]
  <2>1. Handle(p) /\ stage[p] = "put"
    BY <1>1, Responding DEF Uploads, StagesOf
  <2>2. Uploaded(p)
    BY <2>1 DEF Handle, Answered, LockDst, Redirect, Dispatch, ServeListing, ServeFile, Uploaded,
       FoundToDelete, Deleted, Created, MoveOnto, DstRemoved, Renamed
  <2>3. pc[p] = "idle" /\ (status'[p] = 201 => ret[p].kind = "ok")
    BY <1>1, <2>2 DEF Uploaded, Answered, answer, Respond, Uploads, DAVInv, HandlerTypeOK
  <2>. QED BY <1>1, <2>1, <2>3 DEF Uploads, UploadInv, Responds
<1>2. Uploads /\ [Next]_allVars =>
        [\A p \in Procs :
          Responds(p, "PUT", {201}) /\ alone[p] =>
              LET r == request[p]
              IN  /\ keyFor(r.path) \in DOMAIN bucket
                  /\ bucket[keyFor(r.path)] = [body |-> r.body, chunks |-> Chunks]]_allVars
  BY <1>1
<1>. QED BY <1>2, UploadsHold, PTL DEF Spec, AcknowledgedUploads

-----------------------------------------------------------------------------
(* Moves *)

\* A Rename that begins has copied and deleted nothing.
LEMMA RenameBegins ==
    ASSUME CallsInv, NEW p \in Procs, pc[p] = "idle", pc'[p] = FirstStep[call'[p].op],
           before'[p] = bucket, bucket' = bucket, loc'[p] = loc[p]
    PROVE  RenameInv(p)'
<1>1. loc[p].page = {} /\ loc[p].toDelete = {}
  BY DEF CallsInv, Scope, ScopeOf, Cleared
<1>2. call'[p].op = "Rename" => pc'[p] \notin {"renameDelete", "renameObject"}
  BY DEF FirstStep
<1>. QED BY <1>1, <1>2, SameFacts DEF RenameInv, Moving

\* What is known of a quiet MOVE whose Rename is under way.
LEMMA MoveRenames ==
    ASSUME DAVInv, NEW p \in Procs, stage[p] # "idle", QuietMove(p)
    PROVE  /\ request[p] \in Requests /\ request[p].path \in Paths /\ request[p].dst \in Paths
           /\ request[p].path \in held[p]
           /\ stage[p] \in {"lockDst", "statDst", "removeDst", "create", "replace"}
           /\ stage[p] # "lockDst" => request[p].dst \in held[p]
           /\ stage[p] \in {"create", "replace"} =>
                 name(p) = request[p].path /\ dst(p) = request[p].dst /\ call[p].op = "Rename"
           /\ Moving(p) => stage[p] \in {"create", "replace"}
           /\ NoEscapes /\ Moving(p) /\ RenameInv(p) => RenameOK(p)
<1>1. /\ request[p] \in Requests /\ request[p].path \in Paths /\ request[p].dst \in Paths
      /\ stage[p] \in {"lockDst", "statDst", "removeDst", "create", "replace"}
      /\ held[p] = LocksAt(stage[p], request[p])
  BY ServingFacts, RequestTypes DEF StagesOf, QuietMove
<1>2. /\ request[p].path \in held[p] /\ (stage[p] # "lockDst" => request[p].dst \in held[p])
  BY <1>1 DEF LocksAt, QuietMove
<1>3. stage[p] \in {"create", "replace"} => call[p] = RenameOf(request[p])
  BY ServingFacts DEF CallAt
<1>4. stage[p] \in {"create", "replace"} =>
          name(p) = request[p].path /\ dst(p) = request[p].dst /\ call[p].op = "Rename"
  BY <1>3, CallFields DEF name, dst
<1>5. Moving(p) => stage[p] \in {"create", "replace"}
  BY <1>1, ServingFacts, CallFields DEF CallAt, Moving
<1>6. NoEscapes /\ Moving(p) /\ RenameInv(p) => RenameOK(p)
  BY <1>4, <1>5 DEF RenameOK, QuietMove, DAVInv
<1>. QED BY <1>1, <1>2, <1>4, <1>5, <1>6

\* A key that changes is a key.
LEMMA ChangedKeys ==
    ASSUME StoreTypeOK, StoreTypeOK', NEW k, ~SameAt(bucket, bucket', k)
    PROVE  k \in Keys
BY DEF StoreTypeOK, IsBucket, SameAt

\* A step of the MOVE's own calls keeps its invariant.
LEMMA OwnMoveStep ==
    ASSUME NoEscapes, DAVInv, NEW p \in Procs, Serve(p), MoveInv(p), stage[p] # "idle", QuietMove(p)
    PROVE  MoveInv(p)'
<1> DEFINE src == request[p].path
<1>1. /\ Step(p) /\ Fine(p) /\ pc[p] # "idle" /\ stage[p] # "lockDst"
      /\ UNCHANGED <<request, stage, arrived, alone, call>>
  BY ServeFacts
<1>2. CASE stage[p] \in {"create", "replace"}
  <2>1. /\ name(p) = src /\ dst(p) = request[p].dst /\ Moving(p) /\ RenameOK(p)
    BY <1>1, <1>2, MoveRenames DEF MoveInv, Moving
  <2>2. MovedNow(p) /\ RenameInv(p)'
    BY <1>1, <2>1, RenameStep DEF StepKeeps, Safe
  <2>3. \A k : InTree(k, src) => SameAt(arrived[p], before[p], k)
    BY <2>1 DEF MoveInv
  <2>4. Moving(p)' => \A k : InTree(k, src) => SameAt(arrived[p], before'[p], k)
    BY <1>1, <2>3 DEF Fine, Moving
  <2>5. ASSUME NEW k, InTree(k, src)
        PROVE  SameAt(arrived[p], bucket', k) \/ (k \notin DOMAIN bucket' /\ Arrived(p, k)')
    <3>1. CASE SameAt(before[p], bucket', k)
      BY <2>3, <2>5, <3>1 DEF SameAt
    <3>2. CASE k \notin DOMAIN bucket' /\ CopiedNow(p, k)
      BY <1>1, <2>1, <2>3, <2>5, <3>2 DEF SameAt, CopiedNow, Arrived
    <3>. QED BY <2>1, <2>2, <2>5, <3>1, <3>2 DEF MovedNow
  <2>. QED BY <1>1, <1>2, <2>2, <2>4, <2>5 DEF MoveInv
<1>3. CASE stage[p] \notin {"create", "replace"}
  <2>1. stage[p] \in {"statDst", "removeDst"} /\ ~Moving(p)
    BY <1>1, <1>3, MoveRenames
  <2>2. call[p].op # "Rename"
    BY <1>1, <2>1 DEF Moving
  <2>3. call[p].op \in {"Stat", "RemoveAll"} /\ call[p].name = request[p].dst
    BY <1>1, <2>1, ServingFacts, CallFields DEF CallAt
  <2>4. ASSUME NEW k, InTree(k, src) PROVE SameAt(bucket, bucket', k)
    <3>. SUFFICES ASSUME ~SameAt(bucket, bucket', k) PROVE FALSE
      OBVIOUS
    <3>1. Footprint(call[p], k) /\ k \in Keys
      BY <1>1, ChangedKeys DEF Fine, DAVInv, CallsInv
    <3>2. InTree(k, request[p].dst)
      BY <2>3, <3>1 DEF Footprint
    <3>. QED BY <2>4, <3>1, <3>2, MoveRenames, TreesApart DEF QuietMove
  <2>5. \A k : InTree(k, src) => SameAt(arrived[p], bucket, k)
    BY <2>1 DEF MoveInv
  <2>6. RenameInv(p)' /\ ~Moving(p)'
    BY <1>1, <2>2 DEF RenameInv, Moving
  <2>. QED BY <1>1, <2>4, <2>5, <2>6 DEF MoveInv, SameAt
<1>. QED BY <1>2, <1>3

\* A step of somebody else's call keeps it, too.
LEMMA OtherMoveStep ==
    ASSUME NoEscapes, DAVInv, NEW p \in Procs, NEW q \in Procs \ {p}, Serve(q), MoveInv(p),
           stage[p] # "idle", QuietMove(p)
    PROVE  MoveInv(p)'
<1> DEFINE src == request[p].path
<1>1. Untouched(p)
  BY ServeMeans
<1>2. /\ src \in PathsOfRequest(request[p]) /\ request[p].dst \in PathsOfRequest(request[p])
      /\ alone[p]
  BY DEF QuietMove, PathsOfRequest
<1>3. \A k : InTree(k, src) => SameAt(bucket, bucket', k)
  BY <1>2, OthersOut, MoveRenames
<1>4. stage[p] # "lockDst" => \A k : InTree(k, request[p].dst) => SameAt(bucket, bucket', k)
  BY <1>2, OthersOut, MoveRenames
<1>5. RenameInv(p)'
  <2>1. CASE Moving(p)
    <3>1. /\ RenameOK(p) /\ name(p) = src /\ dst(p) = request[p].dst /\ stage[p] # "lockDst"
      BY <2>1, MoveRenames DEF MoveInv
    <3>2. LeftAlone(p)
      BY <1>3, <1>4, <3>1 DEF LeftAlone
    <3>. QED BY <1>1, <2>1, <3>1, <3>2, OthersKeep DEF Untouched
  <2>2. CASE ~Moving(p)
    BY <1>1, <2>2 DEF Untouched, RenameInv, Moving
  <2>. QED BY <2>1, <2>2
<1>6. ASSUME NEW k, InTree(k, src), Arrived(p, k), stage[p] \in {"create", "replace"}
      PROVE  Arrived(p, k)'
  <2>1. k \in Keys
    BY <1>6 DEF Arrived, DAVInv, HandlerTypeOK, IsBucket
  <2>2. InTree(Rebase(k, src, request[p].dst), request[p].dst)
    BY <1>6, <2>1, MoveRenames, RebaseTree
  <2>. QED BY <1>1, <1>4, <1>6, <2>2 DEF Arrived, Untouched, SameAt
<1>7. ASSUME NEW k, InTree(k, src)
      PROVE  \/ SameAt(arrived[p], bucket', k)
             \/ stage[p] \in {"create", "replace"} /\ k \notin DOMAIN bucket' /\ Arrived(p, k)'
  <2>1. CASE SameAt(arrived[p], bucket, k)
    BY <1>3, <1>7, <2>1 DEF SameAt
  <2>2. CASE stage[p] \in {"create", "replace"} /\ k \notin DOMAIN bucket /\ Arrived(p, k)
    BY <1>3, <1>6, <1>7, <2>2 DEF SameAt
  <2>. QED BY <1>7, <2>1, <2>2 DEF MoveInv
<1>. QED BY <1>1, <1>5, <1>7 DEF MoveInv, Untouched, Moving

\* A step between two calls.
LEMMA MoveUntouched ==
    ASSUME NEW p \in Procs, MoveInv(p), Untouched(p), bucket' = bucket
    PROVE  MoveInv(p)'
<1>. SUFFICES ASSUME stage'[p] # "idle", QuietMove(p)' PROVE MoveInv(p)'
  BY DEF MoveInv
<1>1. stage[p] # "idle" /\ QuietMove(p)
  BY DEF Untouched, QuietMove
<1>2. RenameInv(p)'
  BY <1>1 DEF MoveInv, RenameInv, Moving, Untouched, Copied, name, dst
<1>3. \A k : Arrived(p, k) => Arrived(p, k)'
  BY DEF Arrived, Untouched
<1>. QED BY <1>1, <1>2, <1>3 DEF MoveInv, Untouched, Moving

LEMMA MoveAsking ==
    ASSUME DAVInv, NEW p \in Procs, MoveInv(p), Asking(p), bucket' = bucket,
           stage[p] # "idle" => request'[p] = request[p]
    PROVE  MoveInv(p)'
<1>. SUFFICES ASSUME QuietMove(p)' PROVE MoveInv(p)'
  BY DEF MoveInv
<1>1. RenameInv(p)'
  BY RenameBegins DEF Asking, DAVInv
<1>2. \A k : InTree(k, request'[p].path) => SameAt(arrived'[p], bucket, k)
  <2>1. CASE stage[p] \in {"idle", "lockDst"}
    BY <2>1, SameFacts DEF Asking
  <2>2. CASE stage[p] \notin {"idle", "lockDst"}
    <3>1. /\ QuietMove(p) /\ request'[p] = request[p] /\ arrived'[p] = arrived[p]
          /\ stage[p] \notin {"create", "replace"}
      BY <2>2 DEF Asking, QuietMove, Follows
    <3>. QED BY <2>2, <3>1 DEF MoveInv, Asking
  <2>. QED BY <2>1, <2>2
<1>. QED BY <1>1, <1>2 DEF MoveInv, Asking

LEMMA MoveStays ==
    ASSUME NoEscapes, DAVInv, [Next]_allVars, NEW p \in Procs, MoveInv(p)
    PROVE  MoveInv(p)'
<1>1. CASE \E q \in Procs, r \in Requests : Receive(q, r)
  <2>1. PICK q \in Procs, r \in Requests : Receive(q, r)
    BY <1>1
  <2>2. /\ bucket' = bucket
        /\ \/ p # q /\ Untouched(p)
           \/ p = q /\ stage[p] = "idle" /\ Asking(p)
           \/ p = q /\ stage[p] = "idle" /\ stage'[p] = "lockDst" /\ pc'[p] = "idle"
              /\ request'[p] = r /\ arrived'[p] = bucket
    BY <2>1, ReceiveMeans
  <2>3. CASE stage'[p] = "lockDst" /\ pc'[p] = "idle" /\ arrived'[p] = bucket
    BY <2>2, <2>3, SameFacts DEF MoveInv, RenameInv, Moving
  <2>. QED BY <2>2, <2>3, MoveUntouched, MoveAsking
<1>2. CASE \E q \in Procs, r \in Requests : Refuse(q, r)
  BY <1>2, RefuseMeans, MoveUntouched DEF MoveInv
<1>3. CASE \E q \in Procs : Handle(q)
  <2>1. bucket' = bucket /\ (Untouched(p) \/ stage'[p] = "idle" \/ (stage[p] # "idle" /\ Asking(p)))
    BY <1>3, HandleMeans
  <2>2. CASE stage[p] # "idle" /\ Asking(p)
    <3>1. request'[p] = request[p]
      BY <1>3, HandleMeans
    <3>. QED BY <2>1, <2>2, <3>1, MoveAsking
  <2>. QED BY <2>1, <2>2, MoveUntouched DEF MoveInv
<1>4. CASE Restart
  BY <1>4, RestartMeans DEF MoveInv
<1>5. CASE UNCHANGED allVars
  BY <1>5, MoveUntouched DEF allVars, davVars, vars, Untouched
<1>6. ASSUME NEW q \in Procs, Serve(q) PROVE MoveInv(p)'
  <2>1. UNCHANGED <<stage, request, alone>>
    BY <1>6, ServeFacts
  <2>2. CASE stage[p] # "idle" /\ QuietMove(p)
    BY <1>6, <2>2, OwnMoveStep, OtherMoveStep
  <2>3. CASE ~(stage[p] # "idle" /\ QuietMove(p))
    BY <2>1, <2>3 DEF MoveInv, QuietMove
  <2>. QED BY <2>2, <2>3
<1>. QED BY <1>1, <1>2, <1>3, <1>4, <1>5, <1>6, NextKinds

MovesQuiet == DAVInv /\ \A p \in Procs : MoveInv(p)

LEMMA MovesHold ==
    ASSUME NoEscapes
    PROVE  Spec => []MovesQuiet
<1>1. Init => MovesQuiet
  BY InitDAV DEF MovesQuiet, MoveInv, Init, HandlerInit
<1>2. MovesQuiet /\ [Next]_allVars => MovesQuiet'
  BY NextDAV, MoveStays DEF MovesQuiet
<1>. QED BY <1>1, <1>2, PTL DEF Spec

\* If no name holds a percent escape (CopySource of s3.go), a MOVE between two separate
\* trees in which nobody else works loses no object of its source, on any backend, at whichever of its calls a request fails or the process
\* ends: each is still at its old key or already at its new one (handleCopyMove,
\* RemoveAll, Rename).
THEOREM MovesKeepTheirSource ==
    ASSUME NoEscapes
    PROVE  Spec => MoveKeepsSource
<1>1. ASSUME MovesQuiet, MovesQuiet', [Next]_allVars, NEW p \in Procs,
             stage[p] # "idle", QuietMove(p)
      PROVE  Kept(arrived[p], bucket', request[p].path, request[p].dst)
  <2>1. ASSUME bucket' = bucket
        PROVE  Kept(arrived[p], bucket', request[p].path, request[p].dst)
    BY <1>1, <2>1 DEF MovesQuiet, MoveInv, Kept, SameAt, Arrived
  <2>2. CASE \E q \in Procs : Serve(q)
    <3>1. UNCHANGED <<stage, request, alone, arrived>>
      BY <1>1, <2>2, ServeFacts DEF MovesQuiet
    <3>2. \A k : InTree(k, request[p].path) =>
              SameAt(arrived[p], bucket', k) \/ Arrived(p, k)'
      BY <1>1, <3>1 DEF MovesQuiet, MoveInv, QuietMove
    <3>. QED BY <3>1, <3>2 DEF Kept, SameAt, Arrived
  <2>3. CASE UNCHANGED allVars
    BY <2>1, <2>3 DEF allVars, vars
  <2>. QED
    BY <1>1, <2>1, <2>2, <2>3, NextKinds, ReceiveMeans, RefuseMeans, HandleMeans, RestartMeans
       DEF MovesQuiet
<1>2. MovesQuiet /\ MovesQuiet' /\ [Next]_allVars =>
        [\A p \in Procs :
          stage[p] # "idle" /\ QuietMove(p) =>
              Kept(arrived[p], bucket', request[p].path, request[p].dst)]_allVars
  BY <1>1
<1>. QED BY <1>2, MovesHold, PTL DEF Spec, MoveKeepsSource

-----------------------------------------------------------------------------
(* What a handler sees *)

\* Trees that are the same look the same.
LEMMA IntactFacts ==
    ASSUME NEW b, NEW now, NEW x \in Paths, Intact(b, now, x)
    PROVE  /\ keyFor(x) \in DOMAIN b <=> keyFor(x) \in DOMAIN now
           /\ dirKeyFor(x) \in DOMAIN b <=> dirKeyFor(x) \in DOMAIN now
           /\ KeysUnder(b, x) = KeysUnder(now, x)
           /\ Present(b, x) <=> keyFor(x) \in DOMAIN b \/ KeysUnder(b, x) # {}
           /\ dirKeyFor(x) \in DOMAIN b => KeysUnder(b, x) # {}
<1>1. InTree(keyFor(x), x) /\ IsUnder(dirKeyFor(x), x)
  <2>1. x \in Seq(Nat) /\ Slash \in Nat
    BY DEF Paths, Slash
  <2>2. Len(Append(x, Slash)) > Len(x) /\ SubSeq(Append(x, Slash), 1, Len(x)) = x
    BY <2>1
  <2>. QED BY <2>2 DEF dirKeyFor, InTree, IsUnder
<1>2. \A k : InTree(k, x) => (k \in DOMAIN b <=> k \in DOMAIN now)
  BY DEF Intact, SameAt
<1>3. \A k : IsUnder(k, x) => InTree(k, x)
  BY DEF InTree
<1>4. KeysUnder(b, x) = KeysUnder(now, x)
  BY <1>2, <1>3 DEF KeysUnder
<1>5. Present(b, x) <=> keyFor(x) \in DOMAIN b \/ KeysUnder(b, x) # {}
  BY DEF Present, InTree, KeysUnder
<1>6. dirKeyFor(x) \in DOMAIN b => KeysUnder(b, x) # {}
  BY <1>1 DEF KeysUnder
<1>. QED BY <1>1, <1>2, <1>3, <1>4, <1>5, <1>6

\* The call of a stage that only looks.
LEMMA LookingFacts ==
    ASSUME DAVInv, NEW p \in Procs, stage[p] \in StatStages \cup {"list", "get"}
    PROVE  /\ request[p] \in Requests /\ name(p) \in Paths
           /\ name(p) \in PathsOfRequest(request[p])
           /\ request[p].method = "GET" \/ name(p) \in held[p]
           /\ stage[p] \in StatStages => call[p].op = "Stat"
           /\ stage[p] = "list" => call[p].op = "Read"
           /\ stage[p] = "get" => call[p].op = "Open"
           /\ name(p) = IF stage[p] = "statDst" THEN request[p].dst ELSE request[p].path
<1>1. /\ request[p] \in Requests /\ stage[p] \in StagesOf(request[p].method)
      /\ held[p] = LocksAt(stage[p], request[p]) /\ call[p] = CallAt(stage[p], request[p])
  BY ServingFacts DEF StatStages
<1>2. /\ stage[p] \in StatStages => call[p].op = "Stat"
      /\ stage[p] = "list" => call[p].op = "Read"
      /\ stage[p] = "get" => call[p].op = "Open"
      /\ name(p) = IF stage[p] = "statDst" THEN request[p].dst ELSE request[p].path
  BY <1>1, CallFields DEF CallAt, StatStages, name
<1>3. stage[p] = "statDst" => request[p].method = "MOVE"
  BY <1>1, StageMethods
<1>4. name(p) \in PathsOfRequest(request[p])
  BY <1>2, <1>3 DEF PathsOfRequest
<1>5. request[p].method = "GET" \/ name(p) \in held[p]
  BY <1>1, <1>2 DEF LocksAt
<1>. QED BY <1>1, <1>2, <1>4, <1>5, RequestTypes

\* A step of a Stat.
LEMMA StatSees ==
    ASSUME DAVInv, NEW p \in Procs, Serve(p), SeesTruth(p), stage[p] \in StatStages
    PROVE  StatInv(p)'
<1>. SUFFICES ASSUME alone'[p], faults' = 0 PROVE StatInv(p)'
  BY DEF StatInv
<1> DEFINE x == name(p)
<1>1. /\ Step(p) /\ Fine(p) /\ UNCHANGED <<request, stage, arrived, alone, call>>
      /\ DOMAIN pc = Procs /\ DOMAIN ret = Procs
  BY ServeFacts DEF DAVInv, CallsInv, FrameTypeOK
<1>2. faults = 0 /\ ~Fails
  BY <1>1, NoFault DEF DAVInv, CallsInv
<1>3. x \in Paths /\ name(p)' = x
  BY <1>1, LookingFacts DEF name
<1>4. Intact(arrived[p], bucket, x)
  BY <1>1 DEF SeesTruth, Undisturbed
<1>5. /\ pc[p] \in {"statMarker", "statList"} => x # <<>> /\ keyFor(x) \notin DOMAIN arrived[p]
  BY <1>1, <1>2 DEF SeesTruth, StatInv
<1>6. StatRoot(p) \/ StatFile(p) \/ StatMarker(p) \/ StatList(p)
  BY <1>1, LookingFacts, StatStep DEF DAVInv
<1>7. CASE StatRoot(p)
  <2>1. pc'[p] = "idle" /\ ret'[p].kind = "dir" /\ x = <<>>
    BY <1>1, <1>7 DEF StatRoot, Return, ReturnWith
  <2>. QED BY <1>1, <1>3, <2>1 DEF StatInv, StatSaw
<1>8. CASE StatFile(p)
  <2>1. PICK found \in BOOLEAN :
          /\ HeadObject(keyFor(x), found) /\ x # <<>>
          /\ IF found THEN Return(p, "file") ELSE Goto(p, "statMarker", loc[p])
    BY <1>8 DEF StatFile
  <2>2. found <=> keyFor(x) \in DOMAIN arrived[p]
    BY <1>2, <1>3, <1>4, <2>1, IntactFacts DEF HeadObject
  <2>3. IF found THEN pc'[p] = "idle" /\ ret'[p].kind = "file" ELSE pc'[p] = "statMarker"
    BY <1>1, <2>1 DEF Return, ReturnWith, Goto
  <2>. QED BY <1>1, <1>3, <2>1, <2>2, <2>3 DEF StatInv, StatSaw
<1>9. CASE StatMarker(p)
  <2>1. PICK found \in BOOLEAN :
          /\ HeadObject(dirKeyFor(x), found) /\ pc[p] = "statMarker"
          /\ IF found THEN Return(p, "dir") ELSE Goto(p, "statList", loc[p])
    BY <1>9 DEF StatMarker
  <2>2. found => KeysUnder(arrived[p], x) # {}
    BY <1>2, <1>3, <1>4, <2>1, IntactFacts DEF HeadObject
  <2>3. IF found THEN pc'[p] = "idle" /\ ret'[p].kind = "dir" ELSE pc'[p] = "statList"
    BY <1>1, <2>1 DEF Return, ReturnWith, Goto
  <2>. QED BY <1>1, <1>3, <1>5, <2>1, <2>2, <2>3 DEF StatInv, StatSaw
<1>10. CASE StatList(p)
  <2>1. PICK ok \in BOOLEAN :
          /\ ListObjects(ok) /\ pc[p] = "statList"
          /\ Return(p, IF ok /\ KeysUnder(bucket, x) # {} THEN "dir" ELSE "missing")
    BY <1>10 DEF StatList
  <2>2. ok
    BY <1>2, <2>1 DEF ListObjects
  <2>3. /\ pc'[p] = "idle"
        /\ ret'[p].kind = IF KeysUnder(bucket, x) # {} THEN "dir" ELSE "missing"
    BY <1>1, <2>1, <2>2 DEF Return, ReturnWith
  <2>4. /\ KeysUnder(bucket, x) = KeysUnder(arrived[p], x)
        /\ Present(arrived[p], x) <=>
              keyFor(x) \in DOMAIN arrived[p] \/ KeysUnder(arrived[p], x) # {}
    BY <1>3, <1>4, IntactFacts
  <2>. QED BY <1>1, <1>3, <1>5, <2>1, <2>3, <2>4 DEF StatInv, StatSaw
<1>. QED BY <1>6, <1>7, <1>8, <1>9, <1>10

\* A step of opening a file that is sent.
LEMMA GetSees ==
    ASSUME DAVInv, NEW p \in Procs, Serve(p), SeesTruth(p), stage[p] = "get"
    PROVE  GetInv(p)'
<1>. SUFFICES ASSUME alone'[p], faults' = 0 PROVE GetInv(p)'
  BY DEF GetInv
<1> DEFINE x == name(p)
<1>1. /\ Step(p) /\ Fine(p) /\ UNCHANGED <<request, stage, arrived, alone, call>>
      /\ DOMAIN pc = Procs /\ DOMAIN ret = Procs
  BY ServeFacts DEF DAVInv, CallsInv, FrameTypeOK
<1>2. faults = 0 /\ ~Fails
  BY <1>1, NoFault DEF DAVInv, CallsInv
<1>3. x \in Paths /\ name(p)' = x /\ call[p].op = "Open"
  BY <1>1, LookingFacts DEF name
<1>4. Intact(arrived[p], bucket, x)
  BY <1>1 DEF SeesTruth, Undisturbed
<1>5. x # <<>> /\ (keyFor(x) \in DOMAIN arrived[p] \/ ~Present(arrived[p], x))
  BY <1>1, <1>2 DEF SeesTruth, GetInv
<1>6. ASSUME pc'[p] # "idle" PROVE GetInv(p)'
  BY <1>1, <1>3, <1>5, <1>6 DEF GetInv
<1>7. ASSUME Return(p, "dir"), KeysUnder(bucket, x) # {} PROVE GetInv(p)'
  <2>1. ret'[p].kind = "dir" /\ KeysUnder(arrived[p], x) # {}
    BY <1>1, <1>3, <1>4, <1>7, IntactFacts DEF Return, ReturnWith
  <2>. QED BY <1>1, <1>3, <1>5, <2>1 DEF GetInv
<1>8. ASSUME NEW label \in {"openList", "get"}, Goto(p, label, loc[p]) PROVE pc'[p] # "idle"
  BY <1>1, <1>8 DEF Goto
<1>9. \/ OpenHead(p) \/ OpenList(p) \/ OpenGet(p) \/ GCSOpenGet(p)
      \/ S3OpenHead(p)
  <2>1. pc[p] # "readdir"
    BY <1>1, <1>3, StepActive DEF DAVInv, CallsInv, Scope, ScopeOf, LabelsOf
  <2>2. ~OpenRoot(p) /\ ~ReaddirPage(p) /\ ~GCSReaddir(p)
    BY <1>5, <2>1 DEF OpenRoot, ReaddirPage, GCSReaddir
  <2>. QED BY <1>1, <1>3, <2>2, OpenStep DEF DAVInv
<1>10. CASE OpenHead(p) \/ S3OpenHead(p)
  <2>1. PICK dir \in BOOLEAN :
          /\ HeadObject(dirKeyFor(x), dir)
          /\ \/ dir /\ Return(p, "dir")
             \/ \E label \in {"openList", "get"} : Goto(p, label, loc[p])
    <3>1. CASE OpenHead(p)
      BY <1>3, <3>1 DEF OpenHead, Opened
    <3>2. CASE S3OpenHead(p)
      BY <1>3, <3>2 DEF S3OpenHead
    <3>. QED BY <1>10, <3>1, <3>2
  <2>2. dir => KeysUnder(bucket, x) # {}
    <3>1. dir => dirKeyFor(x) \in DOMAIN bucket
      BY <1>2, <2>1 DEF HeadObject
    <3>2. Intact(bucket, bucket, x)
      BY SameFacts DEF Intact
    <3>. QED BY <1>3, <3>1, <3>2, IntactFacts
  <2>. QED BY <1>6, <1>7, <1>8, <2>1, <2>2
<1>11. CASE OpenList(p)
  <2>1. \/ Return(p, "dir") /\ KeysUnder(bucket, x) # {}
        \/ \E label \in {"openList", "get"} : Goto(p, label, loc[p])
    BY <1>3, <1>11 DEF OpenList, Opened
  <2>. QED BY <1>6, <1>7, <1>8, <2>1
<1>12. CASE OpenGet(p) \/ GCSOpenGet(p)
  <2>1. PICK kind \in {"file", "missing", "error"} :
          Return(p, kind) /\ (kind = "file" <=> keyFor(x) \in DOMAIN bucket)
    BY <1>2, <1>12 DEF OpenGet, GCSOpenGet
  <2>2. ret'[p].kind = kind /\ (kind = "file" <=> keyFor(x) \in DOMAIN arrived[p])
    BY <1>1, <1>3, <1>4, <2>1, IntactFacts DEF Return, ReturnWith
  <2>. QED BY <1>1, <1>3, <1>5, <2>2 DEF GetInv
<1>. QED BY <1>9, <1>10, <1>11, <1>12

\* A step of listing a directory.
LEMMA ListSees ==
    ASSUME DAVInv, NEW p \in Procs, Serve(p), SeesTruth(p), stage[p] = "list"
    PROVE  ListInv(p)'
<1>. SUFFICES ASSUME alone'[p], faults' = 0 PROVE ListInv(p)'
  BY DEF ListInv
<1> DEFINE x == name(p)
<1>1. /\ Step(p) /\ Fine(p) /\ UNCHANGED <<request, stage, arrived, alone, call>>
      /\ DOMAIN pc = Procs /\ DOMAIN ret = Procs /\ backend' = backend
  BY ServeFacts DEF DAVInv, CallsInv, FrameTypeOK, Step, Stay
<1>2. faults = 0 /\ ~Fails
  BY <1>1, NoFault DEF DAVInv, CallsInv
<1>3. x \in Paths /\ name(p)' = x /\ call[p].op = "Read"
  BY <1>1, LookingFacts DEF name
<1>4. Intact(arrived[p], bucket, x)
  BY <1>1 DEF SeesTruth, Undisturbed
<1>5. /\ x = <<>> \/ KeysUnder(arrived[p], x) # {}
      /\ pc[p] = "openList" => x # <<>>
      /\ pc[p] = "get" => NoMarker(p)
  BY <1>1, <1>2 DEF SeesTruth, ListInv
<1>6. NoMarker(p)' <=> NoMarker(p)
  BY <1>1, <1>3 DEF NoMarker
<1>7. ASSUME Goto(p, "readdir", loc[p]) \/ (\E l : Goto(p, "readdir", l)) PROVE ListInv(p)'
  <2>1. pc'[p] = "readdir"
    BY <1>1, <1>7 DEF Goto
  <2>. QED BY <1>1, <1>3, <1>5, <2>1 DEF ListInv
<1>8. ASSUME NEW kind, NEW entries, ReturnWith(p, kind, entries), kind = "dir" \/ NoMarker(p)
      PROVE  ListInv(p)'
  <2>1. pc'[p] = "idle" /\ ret'[p].kind = kind
    BY <1>1, <1>8 DEF ReturnWith
  <2>. QED BY <1>1, <1>3, <1>5, <1>6, <1>8, <2>1 DEF ListInv
<1>9. CASE OpenRoot(p)
  BY <1>3, <1>7, <1>9 DEF OpenRoot
<1>10. CASE backend = "s3" /\ S3OpenHead(p)
  <2>1. PICK dir \in BOOLEAN :
          /\ HeadObject(dirKeyFor(x), dir)
          /\ \/ Goto(p, "readdir", loc[p])
             \/ ~dir /\ Goto(p, "get", loc[p])
    BY <1>3, <1>10 DEF S3OpenHead
  <2>2. CASE ~dir /\ Goto(p, "get", loc[p])
    <3>1. NoMarker(p)
      BY <1>2, <1>3, <1>4, <1>10, <2>1, <2>2, IntactFacts DEF HeadObject, NoMarker
    <3>2. pc'[p] = "get"
      BY <1>1, <2>2 DEF Goto
    <3>. QED BY <1>1, <1>3, <1>5, <1>6, <3>1, <3>2 DEF ListInv
  <2>. QED BY <1>7, <2>1, <2>2
<1>11. CASE OpenHead(p)
  <2>1. x # <<>> /\ (Goto(p, "readdir", loc[p]) \/ Goto(p, "openList", loc[p]))
    BY <1>3, <1>11 DEF OpenHead, Opened
  <2>2. CASE Goto(p, "openList", loc[p])
    <3>1. pc'[p] = "openList"
      BY <1>1, <2>2 DEF Goto
    <3>. QED BY <1>1, <1>3, <1>5, <2>1, <3>1 DEF ListInv
  <2>. QED BY <1>7, <2>1, <2>2
<1>12. CASE OpenList(p)
  <2>1. PICK ok \in BOOLEAN :
          /\ ListObjects(ok)
          /\ ok /\ KeysUnder(bucket, x) # {} => Goto(p, "readdir", loc[p])
    BY <1>3, <1>12 DEF OpenList, Opened
  <2>2. ok /\ x # <<>>
    BY <1>2, <1>5, <1>12, <2>1 DEF ListObjects, OpenList
  <2>3. KeysUnder(bucket, x) # {}
    BY <1>3, <1>4, <1>5, <2>2, IntactFacts
  <2>. QED BY <1>7, <2>1, <2>2, <2>3
<1>13. CASE OpenGet(p) \/ GCSOpenGet(p)
  <2>1. NoMarker(p) /\ \E kind : Return(p, kind)
    BY <1>5, <1>13 DEF OpenGet, GCSOpenGet
  <2>. QED BY <1>8, <2>1 DEF Return
<1>14. CASE ReaddirPage(p)
  <2>1. PICK ok \in BOOLEAN :
          /\ ListObjects(ok)
          /\ \/ ~ok
             \/ \E l : Goto(p, "readdir", l)
             \/ \E entries : ReturnWith(p, "dir", entries)
    BY <1>14 DEF ReaddirPage
  <2>2. ok
    BY <1>2, <2>1 DEF ListObjects
  <2>. QED BY <1>7, <1>8, <2>1, <2>2
<1>15. CASE GCSReaddir(p)
  <2>1. PICK ok \in BOOLEAN :
          /\ ListObjects(ok)
          /\ \/ ~ok
             \/ \E l : Goto(p, "readdir", l)
             \/ \E entries : ReturnWith(p, "dir", entries)
    BY <1>15 DEF GCSReaddir
  <2>2. ok
    BY <1>2, <2>1 DEF ListObjects
  <2>. QED BY <1>7, <1>8, <2>1, <2>2
<1>. QED
  BY <1>1, <1>3, <1>9, <1>10, <1>11, <1>12, <1>13, <1>14, <1>15, OpenStep DEF DAVInv

\* The backend never changes.
LEMMA SameBackend == [Next]_allVars => backend' = backend
BY DEF Next, Serve, Step, Stay, allVars

\* A step between two calls, or of nobody.
LEMMA LookUntouched ==
    ASSUME NEW p \in Procs, SeesTruth(p), Untouched(p), bucket' = bucket, faults' = faults,
           backend' = backend
    PROVE  SeesTruth(p)'
<1>. USE DEF Untouched
<1>1. Undisturbed(p)' /\ StatInv(p)'
  BY DEF SeesTruth, Undisturbed, StatInv, name
<1>2. GetInv(p)' /\ ListInv(p)'
  BY DEF SeesTruth, GetInv, ListInv, NoMarker, name
<1>. QED BY <1>1, <1>2 DEF SeesTruth

\* The next call of a handler starts from what the last one has answered.
LEMMA LookAsking ==
    ASSUME DAVInv, NEW p \in Procs, SeesTruth(p), Asking(p), DAVInv', bucket' = bucket,
           faults' = faults, backend' = backend
    PROVE  SeesTruth(p)'
<1> DEFINE r == request'[p]
<1>1. /\ call'[p] = CallAt(stage'[p], r) /\ pc'[p] = FirstStep[call'[p].op]
      /\ stage'[p] \in StagesOf(r.method) /\ stage'[p] # "lockDst"
  BY DEF Asking
<1>2. /\ stage'[p] \in StatStages => call'[p].op = "Stat"
      /\ stage'[p] = "list" => call'[p].op = "Read"
      /\ stage'[p] = "get" => call'[p].op = "Open"
      /\ stage'[p] \in {"stat", "list", "get"} => name(p)' = r.path
  <2> DEFINE s == stage'[p]
  <2>1. call'[p] = CallAt(s, r)
    BY <1>1
  <2> HIDE DEF s, r
  <2>2. /\ s \in StatStages => call'[p].op = "Stat"
        /\ s = "list" => call'[p].op = "Read"
        /\ s = "get" => call'[p].op = "Open"
        /\ s \in {"stat", "list", "get"} => call'[p].name = r.path
    BY <2>1, CallFields DEF CallAt, StatStages
  <2>. QED BY <2>2 DEF s, r, name
<1>3. /\ stage'[p] \in StatStages => pc'[p] = "statFile"
      /\ stage'[p] \in {"list", "get"} => pc'[p] = "open"
  BY <1>1, <1>2 DEF FirstStep
<1>4. CASE stage[p] \in {"idle", "lockDst"}
  <2>1. arrived'[p] = bucket /\ stage'[p] \in StatStages \cup {"put", "mkcol"}
    BY <1>4 DEF Asking
  <2>2. Undisturbed(p)'
    BY <2>1, SameFacts DEF Undisturbed, Intact
  <2>. QED BY <1>3, <2>1, <2>2 DEF SeesTruth, StatInv, GetInv, ListInv, StatStages
<1>5. CASE stage[p] \notin {"idle", "lockDst"}
  <2>1. /\ request'[p] = request[p] /\ arrived'[p] = arrived[p] /\ alone'[p] = alone[p]
        /\ Follows(stage[p], ret[p].kind, request[p], stage'[p]) /\ pc[p] = "idle"
    BY <1>5 DEF Asking
  <2>2. CASE stage'[p] \notin {"stat", "list", "get"}
    BY <2>1, <2>2 DEF Follows, SeesTruth, Undisturbed, StatInv, GetInv, ListInv, StatStages
  <2>3. CASE stage'[p] \in {"stat", "list", "get"}
    <3>1. stage[p] \in {"statSlash", "stat"} /\ (stage'[p] \in {"list", "get"} => stage[p] = "stat")
      BY <2>1, <2>3 DEF Follows
    <3>2. /\ name(p) = request[p].path /\ name(p) \in Paths /\ name(p)' = name(p)
      BY <1>2, <2>1, <2>3, <3>1, LookingFacts DEF StatStages
    <3>3. Undisturbed(p)'
      BY <2>1, <3>1, <3>2 DEF SeesTruth, Undisturbed, StatStages
    <3>4. ASSUME alone[p], faults = 0, stage[p] = "stat"
          PROVE  StatSaw(arrived[p], name(p), ret[p].kind)
      BY <2>1, <3>4 DEF SeesTruth, StatInv, StatStages
    <3>5. StatInv(p)'
      BY <1>3, <2>3 DEF StatInv
    <3>6. GetInv(p)'
      <4>. SUFFICES ASSUME stage'[p] = "get", alone'[p], faults' = 0 PROVE GetInv(p)'
        BY DEF GetInv
      <4>1. ret[p].kind # "dir" /\ StatSaw(arrived[p], name(p), ret[p].kind)
        BY <2>1, <3>1, <3>4 DEF Follows
      <4>2. name(p) # <<>> /\ (keyFor(name(p)) \in DOMAIN arrived[p] \/ ~Present(arrived[p], name(p)))
        BY <4>1 DEF StatSaw
      <4>. QED BY <1>3, <2>1, <3>2, <4>2 DEF GetInv
    <3>7. ListInv(p)'
      <4>. SUFFICES ASSUME stage'[p] = "list", alone'[p], faults' = 0 PROVE ListInv(p)'
        BY DEF ListInv
      <4>1. ret[p].kind = "dir" /\ StatSaw(arrived[p], name(p), ret[p].kind)
        BY <2>1, <3>1, <3>4 DEF Follows
      <4>. QED BY <1>3, <2>1, <3>2, <4>1 DEF ListInv, StatSaw
    <3>. QED BY <3>3, <3>5, <3>6, <3>7 DEF SeesTruth
  <2>. QED BY <2>2, <2>3
<1>. QED BY <1>4, <1>5

\* A step of the handler's own call.
LEMMA LookOwnStep ==
    ASSUME DAVInv, NEW p \in Procs, Serve(p), SeesTruth(p)
    PROVE  SeesTruth(p)'
<1>1. /\ Step(p) /\ Fine(p) /\ UNCHANGED <<request, stage, arrived, alone, call>>
  BY ServeFacts
<1>2. Undisturbed(p)'
  <2>. SUFFICES ASSUME stage[p] \in StatStages \cup {"list", "get"}, alone[p]
                PROVE  Intact(arrived[p], bucket', name(p))
    BY <1>1 DEF Undisturbed, name
  <2>1. \A k : SameAt(bucket, bucket', k)
    BY <1>1, LookingFacts DEF Fine, Footprint
  <2>2. Intact(arrived[p], bucket, name(p))
    BY DEF SeesTruth, Undisturbed
  <2>. QED BY <2>1, <2>2 DEF Intact, SameAt
<1>3. StatInv(p)'
  BY <1>1, StatSees DEF StatInv
<1>4. GetInv(p)' /\ ListInv(p)'
  BY <1>1, GetSees, ListSees DEF GetInv, ListInv
<1>. QED BY <1>2, <1>3, <1>4 DEF SeesTruth

\* A step of somebody else's call.
LEMMA LookOtherStep ==
    ASSUME DAVInv, NEW p \in Procs, NEW q \in Procs \ {p}, Serve(q), SeesTruth(p)
    PROVE  SeesTruth(p)'
<1>1. Untouched(p) /\ Step(q) /\ backend' = backend
  BY ServeMeans, ServeFacts DEF Step, Stay
<1>2. faults' = 0 => faults = 0
  BY <1>1, NoFault DEF DAVInv, CallsInv
<1>3. Undisturbed(p)'
  <2>. SUFFICES ASSUME stage[p] \in StatStages \cup {"list", "get"}, alone[p]
                PROVE  Intact(arrived[p], bucket', name(p))
    BY <1>1 DEF Undisturbed, Untouched, name
  <2>1. \A k : InTree(k, name(p)) => SameAt(bucket, bucket', k)
    BY LookingFacts, OthersOut DEF StatStages
  <2>2. Intact(arrived[p], bucket, name(p))
    BY DEF SeesTruth, Undisturbed
  <2>. QED BY <2>1, <2>2 DEF Intact, SameAt
<1>4. StatInv(p)' /\ GetInv(p)' /\ ListInv(p)'
  BY <1>1, <1>2 DEF SeesTruth, Untouched, StatInv, GetInv, ListInv, NoMarker, name
<1>. QED BY <1>3, <1>4 DEF SeesTruth

LEMMA LookStays ==
    ASSUME DAVInv, DAVInv', [Next]_allVars, NEW p \in Procs, SeesTruth(p)
    PROVE  SeesTruth(p)'
<1>. USE SameBackend
<1>1. ASSUME stage'[p] \in {"idle", "lockDst"} PROVE SeesTruth(p)'
  BY <1>1 DEF SeesTruth, Undisturbed, StatInv, GetInv, ListInv, StatStages
<1>2. CASE \E q \in Procs, r \in Requests : Receive(q, r)
  BY <1>1, <1>2, ReceiveMeans, LookUntouched, LookAsking
<1>3. CASE \E q \in Procs, r \in Requests : Refuse(q, r)
  BY <1>1, <1>3, RefuseMeans, LookUntouched
<1>4. CASE \E q \in Procs : Handle(q)
  BY <1>1, <1>4, HandleMeans, LookUntouched, LookAsking
<1>5. CASE \E q \in Procs : Serve(q)
  BY <1>5, LookOwnStep, LookOtherStep
<1>6. CASE Restart
  BY <1>1, <1>6, RestartMeans
<1>7. CASE UNCHANGED allVars
  BY <1>7, LookUntouched DEF allVars, davVars, vars, Untouched
<1>. QED BY <1>2, <1>3, <1>4, <1>5, <1>6, <1>7, NextKinds

Sight == DAVInv /\ \A p \in Procs : SeesTruth(p)

LEMMA SightHolds == Spec => []Sight
<1>1. Init => Sight
  BY InitDAV DEF Sight, SeesTruth, Undisturbed, StatInv, GetInv, ListInv, StatStages, Init, HandlerInit
<1>2. Sight /\ [Next]_allVars => Sight'
  BY NextDAV, LookStays DEF Sight
<1>. QED BY <1>1, <1>2, PTL DEF Spec

\* The answer of a handler is that of the stage it is at.
LEMMA AnswerAt ==
    ASSUME NEW p \in Procs, Handle(p)
    PROVE  /\ stage[p] = "lockDst" => LockDst(p)
           /\ stage[p] = "statDst" => MoveOnto(p)
           /\ stage[p] = "statSlash" => Redirect(p)
           /\ stage[p] = "stat" => Dispatch(p)
           /\ stage[p] = "list" => ServeListing(p)
           /\ stage[p] = "get" => ServeFile(p)
           /\ stage[p] = "statDelete" => FoundToDelete(p)
           /\ stage[p] = "remove" => Deleted(p)
           /\ stage[p] = "removeDst" => DstRemoved(p)
           /\ stage[p] \in {"create", "replace"} => Renamed(p)
BY DEF Handle, Answered, LockDst, Redirect, Dispatch, ServeListing, ServeFile, Uploaded,
   FoundToDelete, Deleted, Created, MoveOnto, DstRemoved, Renamed

\* Without a fault, 404 means that nothing is there (Stat and OpenFile of the file
\* systems, FoundToDelete and ServeFile of the handlers).
THEOREM NotFoundIsAbsent == Spec => NotFoundMeansAbsent
<1>1. ASSUME Sight, [Next]_allVars, NEW p \in Procs, alone[p], faults = 0,
             Responds(p, "GET", {404}) \/ Responds(p, "DELETE", {404})
      PROVE  ~Present(arrived[p], request[p].path)
  <2>1. /\ Handle(p) /\ status'[p] = 404 /\ stage'[p] = "idle" /\ stage[p] # "idle"
        /\ \/ stage[p] \in {"statSlash", "stat", "list", "get"}
           \/ stage[p] \in {"statDelete", "remove"}
        /\ DOMAIN status = Procs /\ DOMAIN stage = Procs
    <3>1. DAVInv /\ DOMAIN status = Procs /\ DOMAIN stage = Procs
      BY <1>1 DEF Sight, DAVInv, HandlerTypeOK
    <3>2. status'[p] = 404 /\ stage'[p] = "idle" /\ stage[p] # "idle"
      BY <1>1 DEF Responds
    <3>3. Handle(p) /\ (stage[p] \in StagesOf("GET") \/ stage[p] \in StagesOf("DELETE"))
      BY <1>1, <3>1, Responding
    <3>. QED BY <3>1, <3>2, <3>3 DEF StagesOf
  <2>2. ASSUME NEW next \in Stages \ {"idle"}, NEW c, Ask(p, next, c) PROVE FALSE
    BY <2>1, <2>2 DEF Ask
  <2>3. CASE stage[p] \in {"statSlash", "stat", "list", "remove"}
    <3>1. Redirect(p) \/ Dispatch(p) \/ ServeListing(p) \/ Deleted(p)
      BY <2>1, <2>3, AnswerAt
    <3>2. \E code \in {200, 204, 301, 405, 500} : Respond(p, code)
      BY <2>2, <3>1 DEF Redirect, Dispatch, ServeListing, Deleted, Stages
    <3>. QED BY <2>1, <3>2 DEF Respond
  <2>4. CASE stage[p] = "get"
    <3>1. ServeFile(p)
      BY <2>1, <2>4, AnswerAt
    <3>2. pc[p] = "idle" /\ ret[p].kind \notin {"file", "dir"}
      BY <2>1, <3>1 DEF ServeFile, Answered, answer, Respond
    <3>3. ~Present(arrived[p], name(p))
      BY <1>1, <2>4, <3>2 DEF Sight, SeesTruth, GetInv
    <3>. QED BY <1>1, <2>4, <3>3, LookingFacts DEF Sight
  <2>5. CASE stage[p] = "statDelete"
    <3>1. FoundToDelete(p)
      BY <2>1, <2>5, AnswerAt
    <3>2. pc[p] = "idle" /\ ret[p].kind = "missing"
      BY <2>2, <3>1 DEF FoundToDelete, Answered, answer, Stages
    <3>3. ~Present(arrived[p], name(p))
      BY <1>1, <2>5, <3>2 DEF Sight, SeesTruth, StatInv, StatSaw, StatStages
    <3>. QED BY <1>1, <2>5, <3>3, LookingFacts DEF Sight, StatStages
  <2>. QED BY <2>1, <2>3, <2>4, <2>5
<1>2. Sight /\ [Next]_allVars =>
        [\A p \in Procs :
          /\ Responds(p, "GET", {404}) \/ Responds(p, "DELETE", {404})
          /\ alone[p] /\ faults = 0
          => ~Present(arrived[p], request[p].path)]_allVars
  BY <1>1
<1>. QED BY <1>2, SightHolds, PTL DEF Spec, NotFoundMeansAbsent

\* Without a fault a GET of what is not a file and a directory at once fails only on
\* S3, for a directory without a marker (ServeHTTP of dirlist.go, OpenFile of s3.go).
THEOREM DirectoriesAreListed == Spec => DirectoriesListed
<1>1. ASSUME Sight, [Next]_allVars, NEW p \in Procs, alone[p], faults = 0,
             Responds(p, "GET", {405, 500}), Plain(arrived[p], request[p].path)
      PROVE  backend = "s3" /\ dirKeyFor(request[p].path) \notin DOMAIN arrived[p]
  <2>1. /\ Handle(p) /\ status'[p] \in {405, 500} /\ stage'[p] = "idle" /\ stage[p] # "idle"
        /\ stage[p] \in {"statSlash", "stat", "list", "get"}
        /\ DOMAIN status = Procs /\ DOMAIN stage = Procs
    <3>1. DAVInv /\ DOMAIN status = Procs /\ DOMAIN stage = Procs
      BY <1>1 DEF Sight, DAVInv, HandlerTypeOK
    <3>2. status'[p] \in {405, 500} /\ stage'[p] = "idle" /\ stage[p] # "idle"
      BY <1>1 DEF Responds
    <3>3. Handle(p) /\ stage[p] \in StagesOf("GET")
      BY <1>1, <3>1, Responding
    <3>. QED BY <3>1, <3>2, <3>3 DEF StagesOf
  <2>2. ASSUME NEW next \in Stages \ {"idle"}, NEW c, Ask(p, next, c) PROVE FALSE
    BY <2>1, <2>2 DEF Ask
  <2>3. CASE stage[p] \in {"statSlash", "stat"}
    <3>1. Redirect(p) \/ Dispatch(p)
      BY <2>1, <2>3, AnswerAt
    <3>2. Respond(p, 301)
      BY <2>2, <3>1 DEF Redirect, Dispatch, Stages
    <3>. QED BY <2>1, <3>2 DEF Respond
  <2>4. CASE stage[p] = "get"
    <3>1. ServeFile(p)
      BY <2>1, <2>4, AnswerAt
    <3>2. pc[p] = "idle" /\ ret[p].kind = "dir"
      BY <2>1, <3>1 DEF ServeFile, Answered, answer, Respond
    <3>3. /\ KeysUnder(arrived[p], name(p)) # {}
          /\ keyFor(name(p)) \in DOMAIN arrived[p] \/ ~Present(arrived[p], name(p))
      BY <1>1, <2>4, <3>2 DEF Sight, SeesTruth, GetInv
    <3>4. name(p) = request[p].path
      BY <1>1, <2>4, LookingFacts DEF Sight
    <3>. QED BY <1>1, <3>3, <3>4 DEF Plain, Present, KeysUnder, InTree
  <2>5. CASE stage[p] = "list"
    <3>1. ServeListing(p)
      BY <2>1, <2>5, AnswerAt
    <3>2. pc[p] = "idle" /\ ret[p].kind # "dir"
      BY <2>1, <3>1 DEF ServeListing, Answered, answer, Respond
    <3>3. NoMarker(p)
      BY <1>1, <2>5, <3>2 DEF Sight, SeesTruth, ListInv
    <3>. QED BY <1>1, <2>5, <3>3, LookingFacts DEF Sight, NoMarker
  <2>. QED BY <2>1, <2>3, <2>4, <2>5
<1>2. Sight /\ [Next]_allVars =>
        [\A p \in Procs :
          /\ Responds(p, "GET", {405, 500}) /\ alone[p] /\ faults = 0
          /\ Plain(arrived[p], request[p].path)
          => backend = "s3" /\ dirKeyFor(request[p].path) \notin DOMAIN arrived[p]]_allVars
  BY <1>1
<1>. QED BY <1>2, SightHolds, PTL DEF Spec, DirectoriesListed

\* Without a fault a MOVE with Overwrite: F onto something that exists is answered 412
\* and has changed nothing in its two trees (handleCopyMove, Stat).  The proof takes the
\* source from the invariant of MOVE and so needs names without percent escapes.
THEOREM PreconditionsHonoured ==
    ASSUME NoEscapes
    PROVE  Spec => PreconditionHonoured
<1>1. ASSUME Sight, MovesQuiet, [Next]_allVars, NEW p \in Procs,
             stage[p] = "statDst", stage'[p] # "statDst", faults' = 0,
             QuietMove(p), ~request[p].overwrite, Present(arrived[p], request[p].dst)
      PROVE  /\ Responds(p, "MOVE", {412})
             /\ Intact(arrived[p], bucket', request[p].path)
             /\ Intact(arrived[p], bucket', request[p].dst)
  <2>1. DAVInv /\ DOMAIN stage = Procs /\ DOMAIN status = Procs
    BY <1>1 DEF Sight, DAVInv, HandlerTypeOK
  <2>2. Handle(p)
    <3>1. ~Untouched(p)
      BY <1>1 DEF Untouched
    <3>2. CASE \E q \in Procs, r \in Requests : Receive(q, r) \/ Refuse(q, r)
      BY <1>1, <2>1, <3>1, <3>2, ReceiveMeans, RefuseMeans
    <3>3. CASE \E q \in Procs : Handle(q)
      BY <2>1, <3>1, <3>3, HandleMeans
    <3>4. CASE \E q \in Procs : Serve(q)
      BY <1>1, <2>1, <3>4, ServeFacts
    <3>5. CASE Restart
      <4>1. faults' = faults + 1 /\ faults \in Nat
        BY <2>1, <3>5 DEF Restart, Crash, Fails, DAVInv, CallsInv, StoreTypeOK
      <4>. QED BY <1>1, <4>1
    <3>6. CASE UNCHANGED allVars
      BY <1>1, <3>6 DEF allVars, davVars
    <3>. QED BY <1>1, <3>2, <3>3, <3>4, <3>5, <3>6, NextKinds
  <2>3. bucket' = bucket /\ faults = 0
    BY <1>1, <2>1, <2>2, HandleMeans
  <2>4. name(p) = request[p].dst /\ alone[p]
    BY <1>1, <2>1, LookingFacts DEF StatStages, QuietMove
  <2>5. MoveOnto(p) /\ pc[p] = "idle"
    BY <1>1, <2>2, AnswerAt DEF MoveOnto, Answered
  <2>6. ret[p].kind # "missing"
    BY <1>1, <2>3, <2>4, <2>5 DEF Sight, SeesTruth, StatInv, StatSaw, StatStages
  <2>7. Respond(p, 412)
    BY <1>1, <2>5, <2>6 DEF MoveOnto, answer
  <2>8. Responds(p, "MOVE", {412})
    BY <1>1, <2>1, <2>7 DEF Respond, Responds, QuietMove
  <2>9. Intact(arrived[p], bucket', request[p].dst)
    BY <1>1, <2>3, <2>4 DEF Sight, SeesTruth, Undisturbed, StatStages
  <2>10. Intact(arrived[p], bucket', request[p].path)
    BY <1>1, <2>3 DEF MovesQuiet, MoveInv, Intact
  <2>. QED BY <2>8, <2>9, <2>10
<1>2. Sight /\ MovesQuiet /\ [Next]_allVars =>
        [\A p \in Procs :
          LET r == request[p]
          IN  /\ stage[p] = "statDst" /\ stage'[p] # "statDst" /\ faults' = 0
              /\ QuietMove(p) /\ ~r.overwrite /\ Present(arrived[p], r.dst)
              => /\ Responds(p, "MOVE", {412})
                 /\ Intact(arrived[p], bucket', r.path) /\ Intact(arrived[p], bucket', r.dst)]_allVars
  BY <1>1
<1>. QED BY <1>2, SightHolds, MovesHold, PTL DEF Spec, PreconditionHonoured

-----------------------------------------------------------------------------
(* Contents *)

\* The own Rename adds copies only.
LEMMA OwnCopies ==
    ASSUME NoEscapes, DAVInv, NEW p \in Procs, Serve(p), MoveInv(p), stage[p] \in {"create", "replace"},
           QuietMove(p), OnlyCopies(p)
    PROVE  OnlyCopies(p)'
<1>1. /\ Step(p) /\ Fine(p) /\ pc[p] # "idle"
      /\ UNCHANGED <<request, stage, arrived, alone, call>>
  BY ServeFacts
<1>2. /\ name(p) = request[p].path /\ dst(p) = request[p].dst /\ Moving(p) /\ RenameOK(p)
  BY <1>1, MoveRenames DEF MoveInv, Moving
<1>3. WritesCopies(p)
  BY <1>1, <1>2, RenameStep DEF StepKeeps, Safe
<1>4. \A k : InTree(k, request[p].path) => SameAt(arrived[p], before[p], k)
  BY <1>2 DEF MoveInv
<1>5. ASSUME NEW j \in DOMAIN bucket', InTree(j, request[p].dst)
      PROVE  \E k \in DOMAIN arrived[p] :
                /\ InTree(k, request[p].path) /\ j = Rebase(k, request[p].path, request[p].dst)
                /\ bucket'[j] = arrived[p][k]
  <2>1. CASE SameAt(bucket, bucket', j)
    BY <1>5, <2>1 DEF OnlyCopies, SameAt
  <2>2. CASE \E k \in DOMAIN before[p] :
                /\ InTree(k, name(p)) /\ j = Rebase(k, name(p), dst(p))
                /\ bucket'[j] = before[p][k]
    BY <1>2, <1>4, <2>2 DEF SameAt
  <2>. QED BY <1>2, <1>3, <1>5, <2>1, <2>2 DEF WritesCopies
<1>. QED BY <1>1, <1>5 DEF OnlyCopies

\* Nobody else adds anything.
LEMMA OthersCopies ==
    ASSUME DAVInv, NEW p \in Procs, NEW q \in Procs \ {p}, Serve(q),
           stage[p] \in {"create", "replace"}, QuietMove(p), OnlyCopies(p)
    PROVE  OnlyCopies(p)'
<1>1. Untouched(p) /\ UNCHANGED <<request, stage, alone, arrived>>
  BY ServeMeans, ServeFacts
<1>2. \A k : InTree(k, request[p].dst) => SameAt(bucket, bucket', k)
  BY OthersOut, MoveRenames DEF QuietMove, PathsOfRequest
<1>. QED BY <1>1, <1>2 DEF OnlyCopies, SameAt

LEMMA FreshServed ==
    ASSUME NoEscapes, DAVInv, NEW p \in Procs, NEW q \in Procs, Serve(q), MoveInv(p), FreshInv(p)
    PROVE  FreshInv(p)'
<1>1. UNCHANGED <<request, stage, alone, arrived>>
  BY ServeFacts
<1>2. stage[p] = "create" /\ QuietMove(p) /\ ~Misjudged(p) => OnlyCopies(p)'
  BY OwnCopies, OthersCopies DEF FreshInv
<1>. QED BY <1>1, <1>2 DEF FreshInv, QuietMove, Misjudged

\* A Rename that creates its destination begins where nothing is.
LEMMA FreshAsking ==
    ASSUME DAVInv, NEW p \in Procs, SeesTruth(p), FreshInv(p), Asking(p), bucket' = bucket
    PROVE  FreshInv(p)'
<1>1. CASE stage[p] \in {"idle", "lockDst"}
  BY <1>1 DEF Asking, FreshInv, StatStages
<1>2. CASE stage[p] \notin {"idle", "lockDst"}
  <2>1. /\ request'[p] = request[p] /\ arrived'[p] = arrived[p] /\ alone'[p] = alone[p]
        /\ Follows(stage[p], ret[p].kind, request[p], stage'[p])
    BY <1>2 DEF Asking
  <2>2. stage'[p] \in {"removeDst", "replace"} => request'[p].overwrite
    BY <2>1 DEF Follows, FreshInv
  <2>3. ASSUME stage'[p] = "create", QuietMove(p)', ~Misjudged(p)' PROVE OnlyCopies(p)'
    <3>1. stage[p] = "statDst" /\ alone[p] /\ ~Present(arrived[p], request[p].dst)
      BY <2>1, <2>3 DEF Follows, QuietMove, Misjudged
    <3>2. name(p) = request[p].dst /\ request[p].dst \in Paths
      BY <3>1, LookingFacts DEF StatStages
    <3>3. Intact(arrived[p], bucket, request[p].dst)
      BY <3>1, <3>2 DEF SeesTruth, Undisturbed, StatStages
    <3>4. \A j \in DOMAIN bucket : ~InTree(j, request[p].dst)
      BY <3>1, <3>3 DEF Intact, SameAt, Present
    <3>. QED BY <2>1, <3>4 DEF OnlyCopies
  <2>. QED BY <2>2, <2>3 DEF FreshInv
<1>. QED BY <1>1, <1>2

LEMMA FreshUntouched ==
    ASSUME NEW p \in Procs, FreshInv(p), Untouched(p), bucket' = bucket
    PROVE  FreshInv(p)'
BY DEF FreshInv, Untouched, QuietMove, Misjudged, OnlyCopies

LEMMA FreshStays ==
    ASSUME NoEscapes, DAVInv, [Next]_allVars, NEW p \in Procs, MoveInv(p), SeesTruth(p), FreshInv(p)
    PROVE  FreshInv(p)'
<1>1. ASSUME stage'[p] \in {"idle", "lockDst"} PROVE FreshInv(p)'
  BY <1>1 DEF FreshInv
<1>2. CASE \E q \in Procs, r \in Requests : Receive(q, r)
  BY <1>1, <1>2, ReceiveMeans, FreshUntouched, FreshAsking
<1>3. CASE \E q \in Procs, r \in Requests : Refuse(q, r)
  BY <1>1, <1>3, RefuseMeans, FreshUntouched
<1>4. CASE \E q \in Procs : Handle(q)
  BY <1>1, <1>4, HandleMeans, FreshUntouched, FreshAsking
<1>5. CASE \E q \in Procs : Serve(q)
  BY <1>5, FreshServed
<1>6. CASE Restart
  BY <1>1, <1>6, RestartMeans
<1>7. CASE UNCHANGED allVars
  BY <1>7, FreshUntouched DEF allVars, davVars, vars, Untouched
<1>. QED BY <1>2, <1>3, <1>4, <1>5, <1>6, <1>7, NextKinds

Contained == MovesQuiet /\ Sight /\ \A p \in Procs : FreshInv(p)

LEMMA ContainedHolds ==
    ASSUME NoEscapes
    PROVE  Spec => []Contained
<1>1. Init => \A p \in Procs : FreshInv(p)
  BY DEF Init, HandlerInit, FreshInv
<1>2. MovesQuiet /\ Sight /\ (\A p \in Procs : FreshInv(p)) /\ [Next]_allVars
        => (\A p \in Procs : FreshInv(p))'
  BY FreshStays DEF MovesQuiet, Sight
<1>. QED BY <1>1, <1>2, MovesHold, SightHolds, PTL DEF Spec, Contained

\* What a quiet Rename changes is still there afterwards, unless it replaces something.
LEMMA RenameKeepsContents ==
    ASSUME NoEscapes, Contained, NEW p \in Procs, Serve(p), stage[p] \in {"create", "replace"},
           QuietMove(p), NEW k \in DOMAIN bucket, ~SameAt(bucket, bucket', k),
           InTree(k, request[p].path)
           \/ (InTree(k, request[p].dst) /\ ~request[p].overwrite /\ ~Misjudged(p))
    PROVE  \E j \in DOMAIN bucket' : bucket'[j] = bucket[k]
<1>1. DAVInv /\ MoveInv(p) /\ FreshInv(p)
  BY DEF Contained, MovesQuiet
<1>2. Step(p) /\ pc[p] # "idle"
  BY <1>1, ServeFacts
<1>3. /\ name(p) = request[p].path /\ dst(p) = request[p].dst /\ Moving(p) /\ RenameOK(p)
      /\ name(p) \in Paths /\ dst(p) \in Paths
  BY <1>1, <1>2, MoveRenames DEF MoveInv, Moving
<1>4. MovedNow(p) /\ DeletesCopied(p) /\ WritesCopies(p)
  BY <1>2, <1>3, RenameStep DEF StepKeeps, Safe
<1>5. CASE InTree(k, name(p))
  <2>1. SameAt(before[p], bucket, k)
    BY <1>3, <1>5, MovingFacts
  <2>2. k \notin DOMAIN bucket'
    BY <1>4, <1>5, <2>1 DEF MovedNow, SameAt
  <2>. QED BY <1>4, <2>2 DEF DeletesCopied
<1>6. CASE InTree(k, dst(p)) /\ ~request[p].overwrite /\ ~Misjudged(p)
  <2>1. stage[p] = "create" /\ OnlyCopies(p)
    BY <1>1, <1>6 DEF FreshInv
  <2>2. PICK k1 \in DOMAIN arrived[p] :
          InTree(k1, name(p)) /\ k = Rebase(k1, name(p), dst(p)) /\ bucket[k] = arrived[p][k1]
    BY <1>3, <1>6, <2>1 DEF OnlyCopies
  <2>3. PICK k2 \in DOMAIN before[p] :
          /\ k \in DOMAIN bucket'
          /\ InTree(k2, name(p)) /\ k = Rebase(k2, name(p), dst(p)) /\ bucket'[k] = before[p][k2]
    BY <1>4, <1>6 DEF WritesCopies
  <2>4. k1 \in Keys /\ k2 \in Keys
    BY <1>1 DEF DAVInv, HandlerTypeOK, CallsInv, FrameTypeOK, IsBucket
  <2>5. k1 = k2
    BY <1>3, <2>2, <2>3, <2>4, RebaseInjective
  <2>6. arrived[p][k1] = before[p][k1]
    BY <1>1, <1>3, <2>2 DEF MoveInv, SameAt
  <2>. QED BY <2>2, <2>3, <2>5, <2>6
<1>. QED BY <1>3, <1>5, <1>6

\* Contents disappear only where a client asked for it; what else can destroy them is a
\* Stat that calls a failed request absence, or a MOVE that is not alone or nested; no
\* name holds a percent escape (Stat, Rename, handleCopyMove).
THEOREM NothingIsLostUnasked ==
    ASSUME NoEscapes
    PROVE  Spec => NothingLostUnasked
<1>1. ASSUME Contained, [Next]_allVars, NEW k \in DOMAIN bucket,
             bucket[k].body \in Contents(bucket) \ Contents(bucket')
      PROVE  \E p \in Active :
                LET r == request[p]
                IN  \/ r.method = "DELETE" /\ InTree(k, r.path)
                    \/ r.method = "PUT" /\ k = keyFor(r.path)
                    \/ r.method = "MKCOL" /\ k = dirKeyFor(r.path)
                    \/ r.method = "MOVE" /\ InTree(k, r.dst) /\ (r.overwrite \/ Misjudged(p))
                    \/ /\ r.method = "MOVE" /\ ~QuietMove(p)
                       /\ InTree(k, r.path) \/ InTree(k, r.dst)
  <2>1. DAVInv
    BY <1>1 DEF Contained, MovesQuiet
  <2>2. \A j \in DOMAIN bucket' : bucket'[j] # bucket[k]
    BY <1>1 DEF Contents
  <2>3. ~SameAt(bucket, bucket', k)
    BY <2>2 DEF SameAt
  <2>4. bucket' # bucket
    BY <2>3, SameFacts
  <2>5. PICK p \in Procs : Serve(p)
    BY <1>1, <2>1, <2>4, BucketWrites
  <2> DEFINE r == request[p]
             c == call[p]
  <2>6. /\ Fine(p) /\ stage[p] \notin {"idle", "lockDst"}
    BY <2>1, <2>5, ServeFacts
  <2>7. /\ r \in Requests /\ stage[p] \in StagesOf(r.method)
        /\ c = CallAt(stage[p], r)
    BY <2>1, <2>6, ServingFacts
  <2>8. Footprint(c, k)
    BY <2>3, <2>6 DEF Fine
  <2>9. p \in Active
    BY <2>6 DEF Active
  <2>10. stage[p] \in {"put", "remove", "mkcol", "removeDst", "create", "replace"}
    <3> HIDE DEF r
    <3>. QED BY <2>6, <2>7, <2>8, WritingStages
  <2>11. CASE stage[p] \in {"put", "remove", "mkcol"}
    BY <2>7, <2>8, <2>9, <2>11, StageMethods, CallFields DEF Footprint, CallAt
  <2>12. CASE stage[p] = "removeDst"
    BY <1>1, <2>7, <2>8, <2>9, <2>12, StageMethods, CallFields
       DEF Footprint, CallAt, Contained, FreshInv
  <2>13. CASE stage[p] \in {"create", "replace"}
    <3>1. r.method = "MOVE"
      BY <2>7, <2>13, StageMethods
    <3>2. c = RenameOf(r)
      BY <2>7, <2>13 DEF CallAt
    <3>3. InTree(k, r.path) \/ InTree(k, r.dst)
      BY <2>8, <3>2, CallFields DEF Footprint
    <3>4. CASE ~QuietMove(p)
      BY <2>9, <3>1, <3>3, <3>4
    <3>5. CASE QuietMove(p) /\ InTree(k, r.dst) /\ (r.overwrite \/ Misjudged(p))
      BY <2>9, <3>1, <3>5
    <3>6. CASE QuietMove(p) /\ ~(InTree(k, r.dst) /\ (r.overwrite \/ Misjudged(p)))
      BY <1>1, <2>2, <2>3, <2>5, <2>13, <3>3, <3>6, RenameKeepsContents
    <3>. QED BY <3>4, <3>5, <3>6
  <2>. QED BY <2>10, <2>11, <2>12, <2>13
<1>2. Contained /\ [Next]_allVars =>
        [\A k \in DOMAIN bucket :
          bucket[k].body \in Contents(bucket) \ Contents(bucket') =>
              \E p \in Active :
                  LET r == request[p]
                  IN  \/ r.method = "DELETE" /\ InTree(k, r.path)
                      \/ r.method = "PUT" /\ k = keyFor(r.path)
                      \/ r.method = "MKCOL" /\ k = dirKeyFor(r.path)
                      \/ r.method = "MOVE" /\ InTree(k, r.dst) /\ (r.overwrite \/ Misjudged(p))
                      \/ /\ r.method = "MOVE" /\ ~QuietMove(p)
                         /\ InTree(k, r.path) \/ InTree(k, r.dst)]_allVars
  BY <1>1
<1>. QED BY <1>2, ContainedHolds, PTL DEF Spec, NothingLostUnasked

-----------------------------------------------------------------------------
(* What a MOVE leaves *)

\* The names of the call a quiet MOVE makes.
LEMMA ReplaceFacts ==
    ASSUME DAVInv, NEW p \in Procs, stage[p] \in ReplaceStages, QuietMove(p)
    PROVE  /\ request[p].path \in Paths /\ request[p].dst \in Paths
           /\ stage[p] = "removeDst" => call[p].op = "RemoveAll" /\ name(p) = request[p].dst
           /\ stage[p] \in {"create", "replace"} =>
                 call[p].op = "Rename" /\ name(p) = request[p].path
           /\ name(p) \in PathsOfRequest(request[p]) /\ name(p) \in held[p]
           /\ \A x \in {request[p].path, request[p].dst} :
                 x \in PathsOfRequest(request[p]) /\ x \in held[p]
           /\ alone[p]
<1>1. /\ request[p].path \in Paths /\ request[p].dst \in Paths
      /\ request[p].path \in held[p] /\ request[p].dst \in held[p]
      /\ stage[p] \in {"create", "replace"} =>
            call[p].op = "Rename" /\ name(p) = request[p].path
  BY MoveRenames DEF ReplaceStages
<1>2. stage[p] = "removeDst" => call[p].op = "RemoveAll" /\ name(p) = request[p].dst
  BY ServingFacts, CallFields DEF CallAt, name
<1>3. request[p].path \in PathsOfRequest(request[p]) /\ request[p].dst \in PathsOfRequest(request[p])
  BY DEF QuietMove, PathsOfRequest
<1>. QED BY <1>1, <1>2, <1>3 DEF QuietMove, ReplaceStages

\* A step of the MOVE's own RemoveAll or Rename.
LEMMA ReplaceOwnStep ==
    ASSUME NoEscapes, DAVInv, NEW p \in Procs, Serve(p), MoveInv(p), ReplaceInv(p),
           stage[p] \in ReplaceStages, QuietMove(p)
    PROVE  ReplaceInv(p)'
<1> DEFINE r == request[p]
<1>1. /\ Step(p) /\ Fine(p) /\ pc[p] # "idle"
      /\ UNCHANGED <<request, stage, arrived, alone, call>>
      /\ CallsInv /\ SweepInv(p) /\ (faults' = 0 => faults = 0)
  BY ServeFacts, NoFault DEF DAVInv, CallsInv, ReplaceInv
<1>2. pc'[p] = "idle" /\ ret'[p].kind = "ok" => Ends(p, "ok")
  BY <1>1 DEF Ends
<1>3. CASE stage[p] = "removeDst"
  <2>1. SweepInv(p)' /\ (Ends(p, "ok") /\ faults' = 0 => \A k \in DOMAIN bucket' : ~InTree(k, r.dst))
    BY <1>1, <1>3, ReplaceFacts, RemoveStep
  <2>2. faults' = 0 => Replaced(p)'
    BY <1>1, <1>2, <1>3, <2>1 DEF Replaced, Present
  <2>. QED BY <2>1, <2>2 DEF ReplaceInv
<1>4. CASE stage[p] \in {"create", "replace"}
  <2>1. RenameOK(p) /\ Moving(p) /\ name(p) = r.path
    BY <1>1, <1>4, MoveRenames DEF MoveInv, Moving
  <2>2. SweepKeeps(p)
    BY <1>1, <2>1, RenameStepSweeps
  <2>3. faults = 0 => OnlyCopies(p)'
    BY <1>4, OwnCopies DEF ReplaceInv, Replaced
  <2>4. Plain(arrived[p], r.path) => Plain(before[p], r.path)
    <3>1. \A k : InTree(k, r.path) => SameAt(arrived[p], before[p], k)
      BY <1>4, <2>1 DEF MoveInv
    <3>2. KeysUnder(arrived[p], r.path) = KeysUnder(before[p], r.path)
      BY <3>1 DEF KeysUnder, InTree, SameAt
    <3>. QED BY <3>1, <3>2 DEF Plain, InTree, SameAt
  <2>5. faults' = 0 => Replaced(p)'
    BY <1>1, <1>2, <1>4, <2>1, <2>2, <2>3, <2>4 DEF Replaced, Present, SweepKeeps, Clears
  <2>. QED BY <2>2, <2>5 DEF ReplaceInv, SweepKeeps
<1>. QED BY <1>3, <1>4 DEF ReplaceStages

\* A step of somebody else's call.
LEMMA ReplaceOtherStep ==
    ASSUME DAVInv, NEW p \in Procs, NEW q \in Procs \ {p}, Serve(q), ReplaceInv(p),
           stage[p] \in ReplaceStages, QuietMove(p)
    PROVE  ReplaceInv(p)'
<1>1. /\ Untouched(p) /\ UNCHANGED <<request, stage, alone, arrived>> /\ backend' = backend
      /\ faults' = 0 => faults = 0
  BY ServeMeans, ServeFacts, NoFault DEF DAVInv, CallsInv, Step, Stay
<1>2. ASSUME NEW x \in PathsOfRequest(request[p]), x \in held[p], NEW k, InTree(k, x)
      PROVE  SameAt(bucket, bucket', k)
  BY <1>2, ReplaceFacts, OthersOut DEF ReplaceStages
<1>3. SweepInv(p)'
  BY <1>1, <1>2, ReplaceFacts, SweepStays DEF ReplaceInv, Untouched
<1>4. ASSUME faults' = 0 PROVE Replaced(p)'
  <2>1. Replaced(p)
    BY <1>1, <1>4 DEF ReplaceInv
  <2>2. ASSUME NEW x \in {request[p].path, request[p].dst}, ~Present(bucket, x)
        PROVE  ~Present(bucket', x)
    BY <1>2, <2>2, ReplaceFacts DEF Present, SameAt
  <2>3. stage[p] \in {"create", "replace"} => OnlyCopies(p)'
    BY <2>1, OthersCopies DEF Replaced
  <2>. QED BY <1>1, <2>1, <2>2, <2>3 DEF Replaced, Untouched
<1>. QED BY <1>3, <1>4 DEF ReplaceInv

\* The destination is removed before the Rename begins, or was never there.
LEMMA ReplaceAsking ==
    ASSUME DAVInv, NEW p \in Procs, SeesTruth(p), ReplaceInv(p), Asking(p), bucket' = bucket,
           faults' = faults
    PROVE  ReplaceInv(p)'
<1>. SUFFICES ASSUME stage'[p] \in ReplaceStages, QuietMove(p)' PROVE ReplaceInv(p)'
  BY DEF ReplaceInv
<1>1. /\ request'[p] = request[p] /\ arrived'[p] = arrived[p] /\ alone'[p] = alone[p]
      /\ Follows(stage[p], ret[p].kind, request[p], stage'[p])
      /\ pc[p] = "idle" /\ loc'[p] = loc[p]
      /\ call'[p] = CallAt(stage'[p], request[p]) /\ pc'[p] = FirstStep[call'[p].op]
  BY DEF Asking, StatStages, ReplaceStages
<1>2. QuietMove(p)
  BY <1>1 DEF QuietMove
<1>3. pc'[p] \in {"removeFile", "renameFile"}
  <2>1. ASSUME NEW s \in ReplaceStages, NEW q
        PROVE  CallAt(s, q).op \in {"RemoveAll", "Rename"}
    BY <2>1, CallFields DEF CallAt, ReplaceStages
  <2>. QED BY <1>1, <2>1 DEF FirstStep
<1>4. SweepInv(p)'
  BY <1>1, <1>3, SweepBegins DEF DAVInv
<1>5. ASSUME faults = 0, stage'[p] \in {"create", "replace"} PROVE ~Present(bucket, request[p].dst)
  <2>1. CASE stage'[p] = "create"
    <3>1. stage[p] = "statDst" /\ ret[p].kind = "missing"
      BY <1>1, <2>1 DEF Follows
    <3>2. name(p) = request[p].dst /\ request[p].dst \in Paths
      BY <3>1, LookingFacts DEF StatStages
    <3>3. ~Present(arrived[p], request[p].dst) /\ Intact(arrived[p], bucket, request[p].dst)
      BY <1>1, <1>2, <1>5, <3>1, <3>2
         DEF SeesTruth, StatInv, StatSaw, Undisturbed, StatStages, QuietMove
    <3>. QED BY <3>3 DEF Intact, SameAt, Present
  <2>2. CASE stage'[p] = "replace"
    <3>1. stage[p] = "removeDst" /\ ret[p].kind = "ok"
      BY <1>1, <2>2 DEF Follows
    <3>. QED BY <1>1, <1>2, <1>5, <3>1 DEF ReplaceInv, Replaced, ReplaceStages
  <2>. QED BY <1>5, <2>1, <2>2
<1>6. ASSUME faults = 0 PROVE Replaced(p)'
  <2>1. stage'[p] \in {"create", "replace"} => OnlyCopies(p)'
    BY <1>1, <1>5, <1>6 DEF OnlyCopies, Present
  <2>. QED BY <1>3, <2>1 DEF Replaced
<1>. QED BY <1>4, <1>6 DEF ReplaceInv

LEMMA ReplaceUntouched ==
    ASSUME NEW p \in Procs, ReplaceInv(p), Untouched(p), bucket' = bucket, faults' = faults,
           backend' = backend
    PROVE  ReplaceInv(p)'
<1>. SUFFICES ASSUME stage'[p] \in ReplaceStages, QuietMove(p)' PROVE ReplaceInv(p)'
  BY DEF ReplaceInv
<1>1. stage[p] \in ReplaceStages /\ QuietMove(p)
  BY DEF Untouched, QuietMove
<1>2. SweepInv(p)'
  BY <1>1, SameFacts, SweepStays DEF ReplaceInv, Untouched
<1>3. faults = 0 => Replaced(p)'
  BY <1>1 DEF ReplaceInv, Replaced, OnlyCopies, Untouched
<1>. QED BY <1>2, <1>3 DEF ReplaceInv

LEMMA ReplaceStays ==
    ASSUME NoEscapes, DAVInv, [Next]_allVars, NEW p \in Procs, MoveInv(p), SeesTruth(p), ReplaceInv(p)
    PROVE  ReplaceInv(p)'
<1>. USE SameBackend
<1>1. ASSUME stage'[p] \in {"idle", "lockDst"} PROVE ReplaceInv(p)'
  BY <1>1 DEF ReplaceInv, ReplaceStages
<1>2. CASE \E q \in Procs, r \in Requests : Receive(q, r)
  BY <1>1, <1>2, ReceiveMeans, ReplaceUntouched, ReplaceAsking
<1>3. CASE \E q \in Procs, r \in Requests : Refuse(q, r)
  BY <1>1, <1>3, RefuseMeans, ReplaceUntouched
<1>4. CASE \E q \in Procs : Handle(q)
  BY <1>1, <1>4, HandleMeans, ReplaceUntouched, ReplaceAsking
<1>5. ASSUME NEW q \in Procs, Serve(q) PROVE ReplaceInv(p)'
  <2>1. UNCHANGED <<request, stage, alone>>
    BY <1>5, ServeFacts
  <2>2. CASE stage[p] \in ReplaceStages /\ QuietMove(p)
    BY <1>5, <2>2, ReplaceOwnStep, ReplaceOtherStep
  <2>. QED BY <2>1, <2>2 DEF ReplaceInv, QuietMove
<1>6. CASE Restart
  BY <1>1, <1>6, RestartMeans
<1>7. CASE UNCHANGED allVars
  BY <1>7, ReplaceUntouched DEF allVars, davVars, vars, Untouched
<1>. QED BY <1>2, <1>3, <1>4, <1>5, <1>6, <1>7, NextKinds

Replacing == MovesQuiet /\ Sight /\ \A p \in Procs : ReplaceInv(p)

LEMMA ReplacingHolds ==
    ASSUME NoEscapes
    PROVE  Spec => []Replacing
<1>1. Init => \A p \in Procs : ReplaceInv(p)
  BY DEF Init, HandlerInit, ReplaceInv, ReplaceStages
<1>2. MovesQuiet /\ Sight /\ (\A p \in Procs : ReplaceInv(p)) /\ [Next]_allVars
        => (\A p \in Procs : ReplaceInv(p))'
  BY ReplaceStays DEF MovesQuiet, Sight
<1>. QED BY <1>1, <1>2, MovesHold, SightHolds, PTL DEF Spec, Replacing

\* Without a fault, a MOVE answered 201 or 204 has left at its destination the source
\* tree and nothing else, and nothing at the source, on every backend and whatever the
\* number of pages, if no name holds a percent escape (handleCopyMove, RemoveAll, Rename).
THEOREM MovesReplace ==
    ASSUME NoEscapes
    PROVE  Spec => MoveReplaces
<1>1. ASSUME Replacing, [Next]_allVars, NEW p \in Procs,
             Responds(p, "MOVE", {201, 204}), QuietMove(p), faults = 0,
             Plain(arrived[p], request[p].path)
      PROVE  LET r == request[p]
                 old == {k \in DOMAIN arrived[p] : InTree(k, r.path)}
             IN  /\ ~Present(bucket, r.path)
                 /\ {k \in DOMAIN bucket : InTree(k, r.dst)} = {Rebase(k, r.path, r.dst) : k \in old}
                 /\ \A k \in old : bucket[Rebase(k, r.path, r.dst)] = arrived[p][k]
  <2> DEFINE r == request[p]
             old == {k \in DOMAIN arrived[p] : InTree(k, r.path)}
  <2>1. DAVInv /\ MoveInv(p) /\ ReplaceInv(p) /\ DOMAIN status = Procs /\ DOMAIN stage = Procs
    BY <1>1 DEF Replacing, MovesQuiet, DAVInv, HandlerTypeOK
  <2>2. /\ Handle(p) /\ status'[p] \in {201, 204} /\ stage'[p] = "idle" /\ stage[p] # "idle"
        /\ stage[p] \in {"lockDst", "statDst", "removeDst", "create", "replace"}
    <3>1. Handle(p) /\ stage[p] \in StagesOf("MOVE")
      BY <1>1, <2>1, Responding
    <3>. QED BY <1>1, <3>1 DEF StagesOf, Responds
  <2>3. stage[p] \in {"create", "replace"} /\ pc[p] = "idle" /\ ret[p].kind = "ok"
    <3>1. ASSUME NEW next \in Stages \ {"idle"}, NEW c, Ask(p, next, c) PROVE FALSE
      BY <2>1, <2>2, <3>1 DEF Ask
    <3>2. CASE stage[p] = "lockDst"
      <4>1. LockDst(p)
        BY <2>2, <3>2, AnswerAt
      <4>. QED BY <2>1, <2>2, <4>1 DEF LockDst, Respond
    <3>3. CASE stage[p] = "statDst"
      <4>1. MoveOnto(p)
        BY <2>2, <3>3, AnswerAt
      <4>. QED BY <2>1, <2>2, <3>1, <4>1 DEF MoveOnto, Respond, Stages
    <3>4. CASE stage[p] = "removeDst"
      <4>1. DstRemoved(p)
        BY <2>2, <3>4, AnswerAt
      <4>. QED BY <2>1, <2>2, <3>1, <4>1 DEF DstRemoved, Respond, Stages
    <3>5. CASE stage[p] \in {"create", "replace"}
      <4>1. Renamed(p)
        BY <2>2, <3>5, AnswerAt
      <4>. QED BY <2>1, <2>2, <3>5, <4>1 DEF Renamed, Answered, answer, Respond
    <3>. QED BY <2>2, <3>2, <3>3, <3>4, <3>5
  <2>4. ~Present(bucket, r.path) /\ OnlyCopies(p)
    BY <1>1, <2>1, <2>3 DEF ReplaceInv, Replaced, ReplaceStages
  <2>5. ASSUME NEW k \in old
        PROVE  /\ Rebase(k, r.path, r.dst) \in DOMAIN bucket
               /\ InTree(Rebase(k, r.path, r.dst), r.dst)
               /\ bucket[Rebase(k, r.path, r.dst)] = arrived[p][k]
    <3>1. k \in DOMAIN arrived[p] /\ InTree(k, r.path) /\ k \in Keys
      BY <2>1 DEF DAVInv, HandlerTypeOK, IsBucket
    <3>2. Arrived(p, k)
      BY <1>1, <2>1, <2>2, <2>4, <3>1 DEF MoveInv, SameAt, Present
    <3>3. InTree(Rebase(k, r.path, r.dst), r.dst)
      BY <1>1, <2>1, <2>2, <3>1, MoveRenames, RebaseTree
    <3>. QED BY <3>2, <3>3 DEF Arrived
  <2>6. \A j \in DOMAIN bucket : InTree(j, r.dst) => \E k \in old : j = Rebase(k, r.path, r.dst)
    BY <2>4 DEF OnlyCopies
  <2> HIDE DEF old
  <2>7. {k \in DOMAIN bucket : InTree(k, r.dst)} = {Rebase(k, r.path, r.dst) : k \in old}
    BY <2>5, <2>6
  <2>. QED BY <2>4, <2>5, <2>7 DEF old
<1>2. Replacing /\ [Next]_allVars =>
        [\A p \in Procs :
          LET r == request[p]
              old == {k \in DOMAIN arrived[p] : InTree(k, r.path)}
          IN  /\ Responds(p, "MOVE", {201, 204}) /\ QuietMove(p) /\ faults = 0
              /\ old # {} /\ Plain(arrived[p], r.path)
              => /\ ~Present(bucket, r.path)
                 /\ {k \in DOMAIN bucket : InTree(k, r.dst)} = {Rebase(k, r.path, r.dst) : k \in old}
                 /\ \A k \in old : bucket[Rebase(k, r.path, r.dst)] = arrived[p][k]]_allVars
  BY <1>1
<1>. QED BY <1>2, ReplacingHolds, PTL DEF Spec, MoveReplaces
=============================================================================
