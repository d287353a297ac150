---------------------------- MODULE StorageProofs ----------------------------
(***************************************************************************)
(* For every set of goroutines, calls, buckets, page size and number of    *)
(* faults: the cloud file systems keep their types and no call of them     *)
(* touches an object outside the paths it was called with.  With calls in  *)
(* different subtrees a Rename loses nothing.                              *)
(***************************************************************************)
EXTENDS CloudFileSystem, RenameProofs

-----------------------------------------------------------------------------
(* Any calls *)

\* The inductive invariant: that of the calls, and the labels of the backend.
IInv == CallsInv /\ pc \in [Procs -> Labels]

LEMMA FirstLabel ==
    /\ "idle" \in Labels
    /\ \A c \in Calls : FirstStep[c.op] \in Labels
BY CallsAssumption DEF FirstStep, Ops, Labels, S3Labels, BlobLabels

LEMMA InitIInv == Init => IInv
BY InitCalls, FirstLabel DEF Init, BackendInit, FrameInit, IInv

LEMMA NextIInv == IInv /\ [Next]_storageVars => IInv'
<1>. SUFFICES ASSUME IInv, [Next]_storageVars PROVE IInv'
  OBVIOUS
<1>1. ASSUME Stay PROVE Labels' = Labels
  BY <1>1 DEF Stay, Labels
<1>2. CASE UNCHANGED storageVars
  BY <1>1, <1>2, StutterKeeps DEF storageVars, vars, Stay, IInv
<1>3. ASSUME NEW p \in Procs, NEW c \in Calls, Begin(p, c), Stay PROVE IInv'
  BY <1>1, <1>3, FirstLabel, BeginKeeps DEF IInv, Begin
<1>4. ASSUME NEW p \in Procs, Step(p) PROVE IInv'
  BY <1>4, StepFine, FineKeeps, StepLabel DEF IInv
<1>5. CASE Crash /\ Stay
  BY <1>1, <1>5, FirstLabel, CrashKeeps DEF IInv, Crash
<1>. QED
  BY <1>2, <1>3, <1>4, <1>5 DEF Next

\* The inductive invariant holds in every reachable state: types, and the keys a
\* call has listed lie below its own name (RemoveAll, Rename).
THEOREM Invariance == Spec => []IInv
BY InitIInv, NextIInv, PTL DEF Spec

\* Type correctness, for every value of the constants (s3.go, gcs.go, azure.go).
THEOREM TypeCorrect == Spec => []TypeOK
<1>1. IInv => TypeOK
  BY DEF IInv, CallsInv, TypeOK, FrameTypeOK
<1>. QED
  BY <1>1, Invariance, PTL

\* No call changes an object outside the paths it was called with (s3.go, gcs.go,
\* azure.go).
THEOREM CallsStayInside == Spec => StaysInside
<1> DEFINE Inside ==
      \A k \in DOMAIN bucket \cup DOMAIN bucket' :
          ~SameAt(bucket, bucket', k) =>
              \E p \in Procs : pc[p] # "idle" /\ Footprint(call[p], k)
<1>1. IInv /\ [Next]_storageVars => [Inside]_vars
  <2>. SUFFICES ASSUME IInv, Next PROVE Inside
    BY DEF storageVars
  <2>1. ASSUME NEW p \in Procs, NEW c \in Calls, Begin(p, c) PROVE Inside
    BY <2>1, SameFacts DEF Begin
  <2>2. ASSUME NEW p \in Procs, Step(p) PROVE Inside
    BY <2>2, StepFine, StepActive DEF Fine, IInv
  <2>3. CASE Crash
    BY <2>3, SameFacts DEF Crash
  <2>. QED
    BY <2>1, <2>2, <2>3 DEF Next
<1>. QED
  BY <1>1, Invariance, PTL DEF Spec, StaysInside

-----------------------------------------------------------------------------
(* Calls in different subtrees *)

\* No directory is moved into itself or onto a parent.
SeparateRenames ==
    \A c \in Calls : c.op = "Rename" => ~Within(c.name, c.dst) /\ ~Within(c.dst, c.name)

AllApart ==
    \A p, q \in Procs :
        p # q /\ pc[p] # "idle" /\ pc[q] # "idle" => Apart(call[p], call[q])

RInv == CallsInv /\ AllApart /\ \A p \in Procs : RenameInv(p)

LEMMA RenamesOK ==
    ASSUME RInv, SeparateRenames, NoEscapes, NEW p \in Procs, Moving(p)
    PROVE  RenameOK(p)
<1>1. call[p] \in Calls
  BY DEF RInv, CallsInv, Scope, ScopeOf, Moving
<1>. QED BY <1>1 DEF RInv, RenameOK, SeparateRenames, Moving, name, dst

\* A Rename's two trees are left alone by a call that is apart from it.
LEMMA ApartLeavesAlone ==
    ASSUME RInv, NEW p \in Procs, NEW q \in Procs, p # q, Moving(p), pc[q] # "idle", Fine(q)
    PROVE  LeftAlone(p)
<1>1. call[p] \in Calls /\ call[q] \in Calls
  BY DEF RInv, CallsInv, Scope, ScopeOf, Moving
<1>2. Apart(call[p], call[q])
  BY DEF RInv, AllApart, Moving
<1>3. name(p) \in PathsOf(call[p]) /\ dst(p) \in PathsOf(call[p])
  BY DEF Moving, PathsOf, name, dst
<1>. SUFFICES ASSUME NEW k, InTree(k, name(p)) \/ InTree(k, dst(p)), ~SameAt(bucket, bucket', k)
              PROVE  FALSE
  BY DEF LeftAlone
<1>4. Footprint(call[q], k)
  BY DEF Fine
<1>5. k \in Keys
  BY DEF Fine, StoreTypeOK, IsBucket, SameAt, RInv, CallsInv
<1>. QED BY <1>1, <1>2, <1>3, <1>4, <1>5, ApartFootprint

\* A step of a call in flight moves its Rename on, or leaves all others alone.
LEMMA RenameKept ==
    ASSUME RInv, SeparateRenames, NoEscapes, NEW q \in Procs, Step(q), NEW p \in Procs, Moving(p)
    PROVE  MovedNow(p) /\ RenameInv(p)'
<1>1. CASE p = q
  BY <1>1, RenamesOK, RenameStep DEF StepKeeps, Safe
<1>2. CASE p # q
  <2>1. Fine(q) /\ pc[q] # "idle"
    BY StepFine, StepActive DEF RInv
  <2>2. pc'[p] = pc[p] /\ loc'[p] = loc[p] /\ call'[p] = call[p] /\ before'[p] = before[p]
    BY <1>2, <2>1 DEF Fine
  <2>. QED BY <1>2, <2>1, <2>2, ApartLeavesAlone, RenamesOK, OthersKeep
<1>. QED BY <1>1, <1>2

LEMMA BeginApart ==
    ASSUME CallsInv, AllApart, NEW q \in Procs, NEW c \in Calls, IsolatedBegin(q, c)
    PROVE  AllApart'
<1>1. /\ pc' = [pc EXCEPT ![q] = FirstStep[c.op]] /\ call' = [call EXCEPT ![q] = c]
      /\ \A p \in Procs : pc[p] # "idle" => Apart(c, call[p])
      /\ DOMAIN pc = Procs /\ DOMAIN call = Procs
  BY DEF IsolatedBegin, Begin, CallsInv, FrameTypeOK
<1>2. \A d : Apart(c, d) => Apart(d, c)
  BY DEF Apart
<1>. QED BY <1>1, <1>2 DEF AllApart

LEMMA StepApart ==
    ASSUME CallsInv, AllApart, NEW q \in Procs, Step(q)
    PROVE  AllApart'
<1>1. Fine(q) /\ pc[q] # "idle"
  BY StepFine, StepActive
<1>2. \A p \in Procs : pc'[p] # "idle" => pc[p] # "idle"
  BY <1>1 DEF Fine
<1>. QED BY <1>1, <1>2 DEF AllApart, Fine

LEMMA BeginRInv ==
    ASSUME RInv, NEW q \in Procs, NEW c \in Calls, IsolatedBegin(q, c)
    PROVE  RInv'
<1>1. CallsInv' /\ AllApart'
  BY BeginKeeps, BeginApart DEF IsolatedBegin, RInv
<1>. QED BY <1>1, BeginRename DEF RInv, IsolatedBegin

LEMMA StepRInv ==
    ASSUME RInv, SeparateRenames, NoEscapes, NEW q \in Procs, Step(q)
    PROVE  RInv'
<1>1. CallsInv' /\ AllApart' /\ Fine(q) /\ pc[q] # "idle"
  BY StepFine, StepActive, FineKeeps, StepApart DEF RInv
<1>2. ASSUME NEW p \in Procs PROVE RenameInv(p)'
  <2>1. CASE ~Moving(p)
    BY <1>1, <2>1 DEF RenameInv, Moving, Fine
  <2>2. CASE Moving(p)
    BY <2>2, RenameKept
  <2>. QED BY <2>1, <2>2
<1>. QED BY <1>1, <1>2 DEF RInv

LEMMA CrashRInv == RInv /\ Crash => RInv'
<1>. SUFFICES ASSUME RInv, Crash PROVE RInv'
  OBVIOUS
<1>1. CallsInv' /\ \A p \in Procs : pc'[p] = "idle"
  BY CrashKeeps DEF RInv, Crash
<1>. QED BY <1>1 DEF RInv, AllApart, RenameInv, Moving

LEMMA StutterRInv == RInv /\ UNCHANGED vars => RInv'
BY StutterKeeps DEF vars, RInv, AllApart, RenameInv, Moving, Copied, Foremost, name, dst

LEMMA NextRInv ==
    SeparateRenames /\ NoEscapes /\ RInv /\ [IsolatedNext]_storageVars => RInv'
BY BeginRInv, StepRInv, CrashRInv, StutterRInv DEF IsolatedNext, storageVars

\* With calls in different subtrees, and names without percent escapes (CopySource of
\* s3.go), the invariant of Rename holds in every reachable state: an object of the old tree is as it was, or gone and at its new key, and what
\* is going to be deleted has been copied (Rename).
THEOREM RenameInvariance ==
    ASSUME SeparateRenames, NoEscapes
    PROVE  IsolatedSpec => []RInv
<1>1. Init => RInv
  BY InitCalls DEF Init, BackendInit, FrameInit, RInv, AllApart, RenameInv, Moving
<1>. QED BY <1>1, NextRInv, PTL DEF IsolatedSpec

\* With names without percent escapes Rename loses nothing, whether it deletes in one batch at the end (s3.go) or each
\* object right after its copy (gcs.go, azure.go): after every step, also after failed
\* requests and a crash in the middle, each object is at its old key or at its new one.
THEOREM RenamesKeepData ==
    ASSUME SeparateRenames, NoEscapes
    PROVE  IsolatedSpec => RenameKeepsData
<1>1. RInv /\ [IsolatedNext]_storageVars =>
        [\A p \in Procs :
            pc[p] # "idle" /\ call[p].op = "Rename" =>
                Kept(before[p], bucket', name(p), dst(p))]_vars
  <2>. SUFFICES ASSUME RInv, IsolatedNext, NEW p \in Procs, Moving(p)
                PROVE  Kept(before[p], bucket', name(p), dst(p))
    BY DEF Moving, storageVars
  <2>1. MovedNow(p)
    <3>1. CASE bucket' = bucket
      BY <3>1, RenamesOK, NothingSafe DEF Safe
    <3>. QED BY <3>1, RenameKept DEF IsolatedNext, IsolatedBegin, Begin, Crash
  <2>. QED BY <2>1 DEF MovedNow, CopiedNow, Kept, SameAt
<1>. QED BY <1>1, RenameInvariance, PTL DEF IsolatedSpec, RenameKeepsData

\* An object that a Rename deletes is at its new key, with its content, if no name holds
\* a percent escape (Rename).
THEOREM RenamesDeleteCopied ==
    ASSUME SeparateRenames, NoEscapes
    PROVE  IsolatedSpec => RenameDeletesCopied
<1>1. RInv /\ [IsolatedNext]_storageVars =>
        [\A p \in Procs, k \in DOMAIN bucket \ DOMAIN bucket' :
            call[p].op = "Rename" /\ Moves(p) =>
                LET new == Rebase(k, name(p), dst(p))
                IN  new \in DOMAIN bucket' /\ bucket'[new] = bucket[k]]_vars
  <2>. SUFFICES ASSUME RInv, IsolatedNext, NEW p \in Procs, Moving(p), Moves(p)
                PROVE  DeletesCopied(p)
    BY DEF Moving, Moves, DeletesCopied, storageVars
  <2>1. CASE bucket' = bucket
    BY <2>1 DEF DeletesCopied
  <2>2. ASSUME NEW q \in Procs, Step(q) PROVE DeletesCopied(p)
    <3>1. q = p
      BY <2>2, StepFine DEF RInv, Fine, Moves
    <3>. QED BY <2>2, <3>1, RenamesOK, RenameStep DEF StepKeeps, Safe
  <2>. QED BY <2>1, <2>2 DEF IsolatedNext, IsolatedBegin, Begin, Crash
<1>. QED BY <1>1, RenameInvariance, PTL DEF IsolatedSpec, RenameDeletesCopied

-----------------------------------------------------------------------------
(* Reading a directory while no other call works in it *)

\* Without a prefix Readdir returns nothing for the root.
ListedRoots == Prefixed \/ \A c \in Calls : c.op = "Read" => c.name # <<>>

LInv == CallsInv /\ AllApart /\ \A p \in Procs : ReadInv(p)

\* A call that is apart from a Read leaves what it lists alone.
LEMMA ApartRead ==
    ASSUME LInv, NEW p \in Procs, NEW q \in Procs, p # q, pc[q] # "idle", Fine(q)
    PROVE  ReadInv(p)'
<1>1. pc'[p] = pc[p] /\ loc'[p] = loc[p] /\ call' = call /\ before'[p] = before[p]
  BY DEF Fine
<1>. SUFFICES ASSUME pc[p] # "idle", call[p].op = "Read"
              PROVE  KeysUnder(bucket', name(p)) = KeysUnder(bucket, name(p))
  BY <1>1 DEF LInv, ReadInv, name
<1>2. /\ call[p] \in Calls /\ call[q] \in Calls /\ Apart(call[p], call[q])
      /\ name(p) \in PathsOf(call[p])
  BY DEF LInv, CallsInv, Scope, ScopeOf, AllApart, PathsOf, name
<1>3. ASSUME NEW k, IsUnder(k, name(p)) PROVE k \in DOMAIN bucket' <=> k \in DOMAIN bucket
  <2>. SUFFICES ASSUME ~SameAt(bucket, bucket', k) PROVE FALSE
    BY DEF SameAt
  <2>1. Footprint(call[q], k) /\ k \in Keys
    BY DEF Fine, StoreTypeOK, IsBucket, SameAt, LInv, CallsInv
  <2>. QED BY <1>2, <1>3, <2>1, ApartFootprint DEF InTree
<1>. QED BY <1>3 DEF KeysUnder

\* A step of any call keeps the invariant of every Read; the last request of a Read
\* returns each child once.
LEMMA StepRead ==
    ASSUME LInv, ListedRoots, NEW q \in Procs, Step(q), NEW p \in Procs
    PROVE  /\ ReadInv(p)'
           /\ call[p].op = "Read" /\ Ends(p, "dir") =>
                 Exact(ret'[p].entries, before[p], name(p))
<1>1. Fine(q) /\ pc[q] # "idle"
  BY StepFine, StepActive DEF LInv
<1>2. CASE p # q
  BY <1>1, <1>2, ApartRead DEF Fine, Ends
<1>3. CASE p = q /\ call[p].op # "Read"
  BY <1>1, <1>3 DEF Fine, ReadInv
<1>4. CASE p = q /\ call[p].op = "Read"
  <2>1. Prefixed \/ name(p) # <<>>
    BY <1>1, <1>4 DEF LInv, CallsInv, Scope, ScopeOf, ListedRoots, name
  <2>. QED BY <1>4, <2>1, ReadStep DEF LInv
<1>. QED BY <1>2, <1>3, <1>4

LEMMA BeginRead ==
    ASSUME LInv, NEW q \in Procs, NEW c \in Calls, Begin(q, c), NEW p \in Procs
    PROVE  ReadInv(p)'
<1>1. /\ pc[q] = "idle" /\ bucket' = bucket /\ loc' = loc
      /\ pc'[q] = FirstStep[c.op] /\ before'[q] = bucket
      /\ p # q => pc'[p] = pc[p] /\ call'[p] = call[p] /\ before'[p] = before[p]
      /\ call'[q] = c
  BY DEF Begin, LInv, CallsInv, FrameTypeOK
<1>2. CASE p # q
  BY <1>1, <1>2 DEF LInv, ReadInv, name
<1>3. CASE p = q
  <2>1. loc[p] = Cleared
    BY <1>1, <1>3 DEF LInv, CallsInv, Scope, ScopeOf
  <2>. QED BY <1>1, <1>3, <2>1 DEF ReadInv, FirstStep, name
<1>. QED BY <1>2, <1>3

LEMMA NextLInv == ListedRoots /\ LInv /\ [IsolatedNext]_storageVars => LInv'
<1>. SUFFICES ASSUME ListedRoots, LInv, [IsolatedNext]_storageVars PROVE LInv'
  OBVIOUS
<1>1. ASSUME NEW q \in Procs, NEW c \in Calls, IsolatedBegin(q, c) PROVE LInv'
  BY <1>1, BeginKeeps, BeginApart, BeginRead DEF LInv, IsolatedBegin
<1>2. ASSUME NEW q \in Procs, Step(q) PROVE LInv'
  BY <1>2, StepFine, FineKeeps, StepApart, StepRead DEF LInv
<1>3. CASE Crash
  <2>1. CallsInv' /\ \A p \in Procs : pc'[p] = "idle"
    BY <1>3, CrashKeeps DEF LInv, Crash
  <2>. QED BY <2>1 DEF LInv, AllApart, ReadInv
<1>4. CASE UNCHANGED vars
  BY <1>4, StutterKeeps DEF vars, LInv, AllApart, ReadInv, name
<1>. QED BY <1>1, <1>2, <1>3, <1>4 DEF IsolatedNext, storageVars

\* A Read has passed over nothing: the name of every entry is among those it has found,
\* or the entry comes after the continuation token (Readdir).
THEOREM ReadInvariance ==
    ASSUME ListedRoots
    PROVE  IsolatedSpec => []LInv
<1>1. Init => LInv
  BY InitCalls DEF Init, BackendInit, FrameInit, LInv, AllApart, ReadInv
<1>. QED BY <1>1, NextLInv, PTL DEF IsolatedSpec

\* Readdir returns each child once, whatever the size of the pages, and whether a page's
\* common prefixes (s3.go, azure.go) or its objects (gcs.go) come first.
THEOREM ListingsAreExact ==
    ASSUME ListedRoots
    PROVE  IsolatedSpec => ReaddirExact
<1>1. LInv /\ [IsolatedNext]_storageVars =>
        [\A p \in Procs :
            call[p].op = "Read" /\ Ends(p, "dir") =>
                Exact(ret'[p].entries, before[p], name(p))]_vars
  <2>. SUFFICES ASSUME LInv, IsolatedNext, NEW p \in Procs,
                       call[p].op = "Read", Ends(p, "dir")
                PROVE  Exact(ret'[p].entries, before[p], name(p))
    BY DEF storageVars
  <2>1. ASSUME NEW q \in Procs, NEW c \in Calls, Begin(q, c) PROVE FALSE
    BY <2>1 DEF Begin, Ends, LInv, CallsInv, FrameTypeOK
  <2>2. CASE Crash
    BY <2>2 DEF Crash, Ends
  <2>. QED BY <2>1, <2>2, StepRead DEF IsolatedNext, IsolatedBegin
<1>. QED BY <1>1, ReadInvariance, PTL DEF IsolatedSpec, ReaddirExact, Exact, Child
=============================================================================
