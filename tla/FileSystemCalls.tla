-------------------------- MODULE FileSystemCalls --------------------------
(***************************************************************************)
(* What the three cloud file systems have in common: the goroutines that   *)
(* run webdav.FileSystem calls against one bucket, the way a call begins   *)
(* and returns, and what a single request to the storage service may do.   *)
(*                                                                         *)
(* net/http runs every request in its own goroutine and neither the file   *)
(* systems nor the bucket have a lock, so the steps of concurrent calls,   *)
(* one per API request, interleave freely.                                 *)
(***************************************************************************)
EXTENDS ObjectStore

CONSTANTS
    Procs,           \* request goroutines
    Sent,            \* the calls clients make: [op, name, dst, body]
    InitialBuckets,  \* what the bucket may hold before the server starts
    Prefixed,        \* whether S3_PREFIX, GCS_PREFIX or AZURE_PREFIX is set
    DeleteLimit,     \* keys one batch delete accepts (1000 in S3)
    MaxCalls,        \* bound on the number of calls
    MaxFaults        \* bound on failing API requests and restarts together

\* Put opens a file for writing and writes it, Read opens a directory and lists it,
\* Open only opens for reading.
Ops == {"Mkdir", "Put", "Read", "Open", "RemoveAll", "Rename", "Stat"}

\* The calls as the file systems see them: each begins with keyFor or dirKeyFor of its
\* paths, which clean what the client has spelled.
Cleaned(c) == [c EXCEPT !.name = Clean(@), !.dst = Clean(@)]
Calls == {Cleaned(c) : c \in Sent}

\* golang.org/x/net/webdav rejects a MOVE onto itself; the root is only read.
ASSUME CallsAssumption ==
    /\ Calls \subseteq [op : Ops, name : Paths, dst : Paths, body : Nat \ {0}]
    /\ \A c \in Calls : c.op \in {"Mkdir", "Put", "RemoveAll", "Rename"} => c.name # <<>>
    /\ \A c \in Calls : c.op = "Rename" => c.dst # <<>> /\ c.dst # c.name

ASSUME FrameAssumption ==
    /\ \A b \in InitialBuckets : IsBucket(b)
    /\ Prefixed \in BOOLEAN
    /\ DeleteLimit \in Nat
    /\ MaxCalls \in Nat
    /\ MaxFaults \in Nat

VARIABLES
    bucket,   \* the objects
    pc,       \* next API request of the call each goroutine runs, or "idle"
    call,     \* the call it runs, or ran last
    loc,      \* its local variables
    ret,      \* what its last call returned
    begun,    \* calls begun so far
    faults,   \* faults so far
    before    \* history: the bucket when the call in flight began

vars == <<bucket, pc, call, loc, ret, begun, faults, before>>

Nothing == [kind |-> "none", entries |-> {}]

\* toDelete, the rest of the current page, the listing's continuation token and
\* HasMorePages, the first request's error, the buffered chunks, the entries of
\* Readdir.
Cleared ==
    [toDelete |-> {}, page |-> {}, token |-> <<>>, more |-> TRUE,
     err |-> "none", chunks |-> 0, entries |-> {}]

NoBucket == [k \in {} |-> Folder]

FrameInit ==
    /\ bucket \in InitialBuckets
    /\ pc = [p \in Procs |-> "idle"]
    /\ call = [p \in Procs |-> NoCall]
    /\ loc = [p \in Procs |-> Cleared]
    /\ ret = [p \in Procs |-> Nothing]
    /\ begun = 0
    /\ faults = 0
    /\ before = [p \in Procs |-> NoBucket]

name(p) == call[p].name
dst(p) == call[p].dst

-----------------------------------------------------------------------------
(* Beginning, continuing and returning *)

FirstStep ==
    [Mkdir |-> "mkdir", Put |-> "open", Read |-> "open", Open |-> "open",
     RemoveAll |-> "removeFile", Rename |-> "renameFile", Stat |-> "statFile"]

Begin(p, c) ==
    /\ pc[p] = "idle"
    /\ begun < MaxCalls
    /\ begun' = begun + 1
    /\ pc' = [pc EXCEPT ![p] = FirstStep[c.op]]
    /\ call' = [call EXCEPT ![p] = c]
    /\ ret' = [ret EXCEPT ![p] = Nothing]
    /\ before' = [before EXCEPT ![p] = bucket]
    /\ UNCHANGED <<bucket, loc, faults>>

\* Goto and Return say what a step does to its own call; every step leaves the
\* rest of the frame alone.
Goto(p, label, locals) ==
    /\ pc' = [pc EXCEPT ![p] = label]
    /\ loc' = [loc EXCEPT ![p] = locals]
    /\ UNCHANGED <<call, ret, begun, before>>

ReturnWith(p, kind, entries) ==
    /\ pc' = [pc EXCEPT ![p] = "idle"]
    /\ loc' = [loc EXCEPT ![p] = Cleared]
    /\ ret' = [ret EXCEPT ![p] = [kind |-> kind, entries |-> entries]]
    /\ before' = [before EXCEPT ![p] = NoBucket]
    /\ UNCHANGED <<call, begun>>

Return(p, kind) == ReturnWith(p, kind, {})

-----------------------------------------------------------------------------
(* API requests.  A failed request (service error, network, cancelled       *)
(* context) may have taken effect before its answer was lost.               *)

Works == UNCHANGED faults
Fails == faults < MaxFaults /\ faults' = faults + 1
Fits(key) == Len(key) <= MaxKeyLen

PutObject(key, object, ok) ==
    \/ /\ ok /\ Works /\ Fits(key)
       /\ bucket' = Store(bucket, key, object)
    \/ /\ ~ok /\ Works /\ ~Fits(key)
       /\ UNCHANGED bucket
    \/ /\ ~ok /\ Fails /\ Fits(key)
       /\ bucket' \in {bucket, Store(bucket, key, object)}

HeadObject(key, ok) ==
    /\ UNCHANGED bucket
    /\ \/ ok = (key \in DOMAIN bucket) /\ Works
       \/ ~ok /\ Fails

CopyObject(src, key, err) ==
    \/ /\ err = "none" /\ Works
       /\ src \in DOMAIN bucket /\ Fits(key)
       /\ bucket' = Store(bucket, key, bucket[src])
    \/ /\ err = "missing" /\ Works
       /\ src \notin DOMAIN bucket
       /\ UNCHANGED bucket
    \/ /\ err = "error" /\ Works
       /\ src \in DOMAIN bucket /\ ~Fits(key)
       /\ UNCHANGED bucket
    \/ /\ err = "error" /\ Fails
       /\ \/ UNCHANGED bucket
          \/ /\ src \in DOMAIN bucket /\ Fits(key)
             /\ bucket' = Store(bucket, key, bucket[src])

\* A batch delete may succeed as a request and still leave some of its keys.
DeleteObjects(K, ok) ==
    \/ /\ ok /\ Works /\ Cardinality(K) <= DeleteLimit
       /\ bucket' = Without(bucket, K)
    \/ /\ ~ok /\ Works /\ Cardinality(K) > DeleteLimit
       /\ UNCHANGED bucket
    \/ /\ ok \in BOOLEAN /\ Fails /\ Cardinality(K) <= DeleteLimit
       /\ \E D \in SUBSET K : bucket' = Without(bucket, D)

ListObjects(ok) ==
    /\ UNCHANGED bucket
    /\ \/ ok /\ Works
       \/ ~ok /\ Fails

\* Mutants: HasMorePages is not asked; the continuation token is not sent.
NextPageOnlyFirst(locals, S) ==
    [locals EXCEPT !.page = FirstPage(S), !.more = FALSE]

NextPageAgain(locals, S) ==
    [locals EXCEPT !.page = FirstPage(S), !.more = (FirstPage(S) # S)]

\* The paginator's next page of the keys S: continuation token and HasMorePages.
NextPage(locals, S) ==
    LET rest == After(S, locals.token)
        page == FirstPage(rest)
    IN  [locals EXCEPT !.page = page,
                       !.more = (page # rest),
                       !.token = Last(page, @)]

\* The process ends (SIGKILL, or the 10 s of Shutdown are over): its goroutines
\* and their buffers are gone, the bucket is not.
Crash ==
    /\ \E p \in Procs : pc[p] # "idle"
    /\ Fails
    /\ pc' = [p \in Procs |-> "idle"]
    /\ loc' = [p \in Procs |-> Cleared]
    /\ ret' = [p \in Procs |-> IF pc[p] = "idle" THEN ret[p] ELSE [kind |-> "lost", entries |-> {}]]
    /\ before' = [p \in Procs |-> NoBucket]
    /\ UNCHANGED <<bucket, call, begun>>

-----------------------------------------------------------------------------
(* Types, and the vocabulary of the properties *)

Locals ==
    [toDelete : SUBSET Keys, page : SUBSET Keys, token : Keys, more : BOOLEAN,
     err : {"none", "missing", "error"}, chunks : 0..Chunks, entries : SUBSET Keys]

StoreTypeOK ==
    /\ IsBucket(bucket)
    /\ faults \in 0..MaxFaults

FrameTypeOK(Labels) ==
    /\ pc \in [Procs -> Labels]
    /\ call \in [Procs -> Calls \cup {NoCall}]
    /\ loc \in [Procs -> Locals]
    /\ ret \in [Procs -> [kind : Kinds, entries : SUBSET Keys]]
    /\ begun \in 0..MaxCalls
    /\ DOMAIN before = Procs
    /\ \A p \in Procs : IsBucket(before[p])
=============================================================================
