-------------------------- MODULE FileSystemProofs --------------------------
(***************************************************************************)
(* Facts about keys, buckets, API requests and the frame of a call, the    *)
(* invariant the cloud file systems have in common, and that the           *)
(* operations they implement alike keep it: a call passes through the      *)
(* steps of its own operation, and the keys it has listed lie below the    *)
(* name it was called with.                                                *)
(***************************************************************************)
EXTENDS FileSystemOps, SequenceTheorems, FiniteSetTheorems, TLAPS

-----------------------------------------------------------------------------
(* Keys *)

\* The keys of a path are keys (keyFor, dirKeyFor).
LEMMA KeyTypes ==
    ASSUME NEW path \in Paths
    PROVE  keyFor(path) \in Keys /\ dirKeyFor(path) \in Keys
<1>1. path \in Seq(Nat) /\ Slash \in Nat
  BY DEF Paths, Slash
<1>2. QED
  BY <1>1 DEF keyFor, dirKeyFor, Keys

\* The new key of a renamed object is a key.
LEMMA RebaseType ==
    ASSUME NEW k \in Keys, NEW old \in Paths, NEW new \in Paths, IsUnder(k, old)
    PROVE  Rebase(k, old, new) \in Keys
<1>1. k \in Seq(Nat) /\ old \in Seq(Nat) /\ new \in Seq(Nat) /\ Len(k) > Len(old)
  BY DEF Keys, Paths, IsUnder
<1>2. SubSeq(k, Len(old) + 1, Len(k)) \in Seq(Nat)
  BY <1>1, SubSeqProperties
<1>3. QED
  BY <1>1, <1>2 DEF Rebase, Keys

\* The new key of a renamed object lies below the new name.
LEMMA RebaseUnder ==
    ASSUME NEW k \in Keys, NEW old \in Paths, NEW new \in Paths, IsUnder(k, old)
    PROVE  IsUnder(Rebase(k, old, new), new)
<1> DEFINE s == SubSeq(k, Len(old) + 1, Len(k))
<1>1. k \in Seq(Nat) /\ old \in Seq(Nat) /\ new \in Seq(Nat) /\ Len(k) > Len(old)
  BY DEF Keys, Paths, IsUnder
<1>2. s \in Seq(Nat) /\ Len(s) = Len(k) - Len(old)
  BY <1>1, SubSeqProperties
<1>3. Rebase(k, old, new) = new \o s
  BY DEF Rebase
<1>4. Len(new \o s) > Len(new)
  BY <1>1, <1>2
<1>5. SubSeq(new \o s, 1, Len(new)) = new
  BY <1>1, <1>2
<1>6. QED
  BY <1>3, <1>4, <1>5 DEF IsUnder

\* The keys and the common prefixes of a listing are keys.
LEMMA EntryType ==
    ASSUME NEW k \in Keys, NEW path \in Paths, IsUnder(k, path)
    PROVE  Entry(k, path) \in Keys
<1>1. k \in Seq(Nat) /\ path \in Seq(Nat) /\ Len(k) > Len(path)
  BY DEF Keys, Paths, IsUnder
<1>2. SubSeq(k, 1, Len(path) + 1) \in Seq(Nat)
  BY <1>1, SubSeqProperties
<1>3. Slash \in Nat
  BY DEF Slash
<1>4. QED
  BY <1>1, <1>2, <1>3 DEF Entry, dirKeyFor, Keys

-----------------------------------------------------------------------------
(* Buckets *)

\* Storing one object changes that key only and leaves a bucket.
LEMMA StoreFacts ==
    ASSUME NEW b, IsBucket(b), NEW key \in Keys, NEW object \in Objects
    PROVE  /\ IsBucket(Store(b, key, object))
           /\ \A k : ~SameAt(b, Store(b, key, object), k) => k = key
BY FS_AddElement DEF IsBucket, Store, SameAt

\* Deleting keys changes those keys only and leaves a bucket.
LEMMA WithoutFacts ==
    ASSUME NEW b, IsBucket(b), NEW K
    PROVE  /\ IsBucket(Without(b, K))
           /\ \A k : ~SameAt(b, Without(b, K), k) => k \in K
<1>1. IsFiniteSet(DOMAIN b \ K)
  BY FS_Subset DEF IsBucket
<1>. QED BY <1>1 DEF IsBucket, Without, SameAt

\* A bucket that is not written is the same at every key.
LEMMA SameFacts ==
    ASSUME NEW b
    PROVE  \A k : SameAt(b, b, k)
BY DEF SameAt

-----------------------------------------------------------------------------
(* API requests: what each may change, whatever its answer. *)

LEMMA FaultType ==
    ASSUME faults \in 0..MaxFaults, Works \/ Fails
    PROVE  faults' \in 0..MaxFaults
BY FrameAssumption DEF Works, Fails

LEMMA PutFacts ==
    ASSUME StoreTypeOK, NEW key \in Keys, NEW object \in Objects, NEW ok,
           PutObject(key, object, ok)
    PROVE  /\ StoreTypeOK'
           /\ \A k : ~SameAt(bucket, bucket', k) => k = key
<1>1. faults' \in 0..MaxFaults
  BY FaultType DEF StoreTypeOK, PutObject
<1>2. bucket' \in {bucket, Store(bucket, key, object)}
  BY DEF PutObject
<1>3. QED
  BY <1>1, <1>2, StoreFacts, SameFacts DEF StoreTypeOK

LEMMA HeadFacts ==
    ASSUME StoreTypeOK, NEW key, NEW ok, HeadObject(key, ok)
    PROVE  /\ StoreTypeOK'
           /\ \A k : SameAt(bucket, bucket', k)
BY FaultType, SameFacts DEF StoreTypeOK, HeadObject

LEMMA ListFacts ==
    ASSUME StoreTypeOK, NEW ok, ListObjects(ok)
    PROVE  /\ StoreTypeOK'
           /\ \A k : SameAt(bucket, bucket', k)
BY FaultType, SameFacts DEF StoreTypeOK, ListObjects

LEMMA CopyFacts ==
    ASSUME StoreTypeOK, NEW src, NEW key \in Keys, NEW err, CopyObject(src, key, err)
    PROVE  /\ StoreTypeOK'
           /\ \A k : ~SameAt(bucket, bucket', k) => k = key
<1>1. faults' \in 0..MaxFaults
  BY FaultType DEF StoreTypeOK, CopyObject
<1>2. CASE bucket' = bucket
  BY <1>1, <1>2, SameFacts DEF StoreTypeOK
<1>3. CASE src \in DOMAIN bucket /\ bucket' = Store(bucket, key, bucket[src])
  BY <1>1, <1>3, StoreFacts DEF StoreTypeOK, IsBucket
<1>4. QED
  BY <1>2, <1>3 DEF CopyObject

LEMMA DeleteFacts ==
    ASSUME StoreTypeOK, NEW K, NEW ok, DeleteObjects(K, ok)
    PROVE  /\ StoreTypeOK'
           /\ \A k : ~SameAt(bucket, bucket', k) => k \in K
<1>1. faults' \in 0..MaxFaults
  BY FaultType DEF StoreTypeOK, DeleteObjects
<1>2. CASE bucket' = bucket
  BY <1>1, <1>2, SameFacts DEF StoreTypeOK
<1>3. CASE \E D \in SUBSET K : bucket' = Without(bucket, D)
  <2>1. PICK D \in SUBSET K : bucket' = Without(bucket, D)
    BY <1>3
  <2>2. QED
    BY <1>1, <2>1, WithoutFacts DEF StoreTypeOK
<1>4. QED
  <2>1. K \in SUBSET K
    OBVIOUS
  <2>2. QED
    BY <1>2, <1>3, <2>1 DEF DeleteObjects

-----------------------------------------------------------------------------
(* The frame of a call *)

LEMMA ClearedType == Cleared \in Locals
BY StoreAssumption DEF Cleared, Locals, Keys

LEMMA NoBucketType == IsBucket(NoBucket)
BY FS_EmptySet DEF NoBucket, IsBucket

LEMMA NameType ==
    ASSUME NEW Labels, FrameTypeOK(Labels), NEW p \in Procs
    PROVE  name(p) \in Paths /\ dst(p) \in Paths
<1>1. call[p] \in Calls \cup {NoCall}
  BY DEF FrameTypeOK
<1>2. <<>> \in Paths
  BY DEF Paths
<1>3. QED
  BY <1>1, <1>2, CallsAssumption DEF NoCall, name, dst

LEMMA BeginFacts ==
    ASSUME NEW Labels, StoreTypeOK, FrameTypeOK(Labels), NEW p \in Procs, NEW c \in Calls,
           FirstStep[c.op] \in Labels, Begin(p, c)
    PROVE  StoreTypeOK' /\ FrameTypeOK(Labels)'
<1>1. begun' \in 0..MaxCalls
  BY FrameAssumption DEF FrameTypeOK, Begin
<1>2. Nothing \in [kind : Kinds, entries : SUBSET Keys]
  BY DEF Nothing, Kinds
<1>3. StoreTypeOK'
  BY DEF StoreTypeOK, Begin
<1>4. \A q \in Procs : IsBucket(before'[q])
  BY DEF FrameTypeOK, StoreTypeOK, Begin
<1>5. QED
  BY <1>1, <1>2, <1>3, <1>4 DEF FrameTypeOK, Begin

LEMMA GotoFacts ==
    ASSUME NEW Labels, FrameTypeOK(Labels), NEW p \in Procs, NEW label \in Labels,
           NEW locals \in Locals, Goto(p, label, locals)
    PROVE  FrameTypeOK(Labels)'
BY DEF FrameTypeOK, Goto

LEMMA ReturnFacts ==
    ASSUME NEW Labels, FrameTypeOK(Labels), NEW p \in Procs, NEW kind \in Kinds,
           NEW entries \in SUBSET Keys, "idle" \in Labels, ReturnWith(p, kind, entries)
    PROVE  FrameTypeOK(Labels)'
<1>1. [kind |-> kind, entries |-> entries] \in [kind : Kinds, entries : SUBSET Keys]
  OBVIOUS
<1>2. \A q \in Procs : IsBucket(before'[q])
  BY NoBucketType DEF FrameTypeOK, ReturnWith
<1>3. QED
  BY <1>1, <1>2, ClearedType DEF FrameTypeOK, ReturnWith

LEMMA CrashFacts ==
    ASSUME NEW Labels, StoreTypeOK, FrameTypeOK(Labels), "idle" \in Labels, Crash
    PROVE  StoreTypeOK' /\ FrameTypeOK(Labels)'
<1>1. StoreTypeOK'
  BY FaultType DEF StoreTypeOK, Crash
<1>2. \A p \in Procs : ret'[p] \in [kind : Kinds, entries : SUBSET Keys]
  BY DEF FrameTypeOK, Crash, Kinds
<1>3. QED
  BY <1>1, <1>2, ClearedType, NoBucketType DEF FrameTypeOK, Crash

\* The first page of a set of keys is a part of it and the token is a key.
LEMMA NextPageFacts ==
    ASSUME NEW locals \in Locals, NEW S \in SUBSET Keys
    PROVE  /\ NextPage(locals, S) \in Locals
           /\ NextPage(locals, S).page \subseteq S
           /\ NextPage(locals, S).toDelete = locals.toDelete
           /\ NextPage(locals, S).err = locals.err
           /\ NextPage(locals, S).entries = locals.entries
           /\ NextPage(locals, S).chunks = locals.chunks
<1> DEFINE rest == After(S, locals.token)
           page == FirstPage(rest)
           token == Last(page, locals.token)
<1>1. page \subseteq S
  BY DEF FirstPage, After
<1>2. token \in Keys
  BY <1>1 DEF Last, Locals
<1>3. (page # rest) \in BOOLEAN
  OBVIOUS
<1>4. NextPage(locals, S) =
        [locals EXCEPT !.page = page, !.more = (page # rest), !.token = token]
  BY DEF NextPage
<1> HIDE DEF page, token, rest
<1>5. QED
  BY <1>1, <1>2, <1>3, <1>4 DEF Locals
-----------------------------------------------------------------------------
(* The order of keys, and the pages of a listing *)

\* A non-empty set of numbers has a least element: among the intervals up to its
\* elements one is minimal.
LEMMA LeastNumber ==
    ASSUME NEW T \in SUBSET Nat, T # {}
    PROVE  \E x \in T : \A y \in T : x <= y
<1>. DEFINE F == {1..x : x \in T}
           R == StrictSubsetOrdering(Nat)
<1>1. F \subseteq FiniteSubsetsOf(Nat) /\ F # {}
  <2>1. \A x \in T : 1..x \subseteq Nat /\ IsFiniteSet(1..x)
    BY FS_Interval
  <2>. QED BY <2>1 DEF FiniteSubsetsOf
<1>2. IsWellFoundedOn(R, FiniteSubsetsOf(Nat))
  BY FS_StrictSubsetOrderingWellFounded
<1>3. PICK m \in F : \A y \in F : <<y, m>> \notin R
  <2>. HIDE DEF F, R
  <2>. QED BY <1>1, <1>2, WFMin
<1>4. PICK x \in T : m = 1..x
  OBVIOUS
<1>5. ASSUME NEW y \in T, y < x  PROVE FALSE
  <2>1. 1..y \subseteq 1..x /\ x \in 1..x /\ x \notin 1..y
    BY <1>5
  <2>2. <<1..y, m>> \in R
    BY <1>4, <2>1 DEF StrictSubsetOrdering
  <2>. QED BY <1>3, <2>2
<1>. QED
  <2>1. \A y \in T : ~(y < x)
    BY <1>5
  <2>. QED BY <2>1

\* No key precedes itself.
LEMMA PrecedesIrreflexive == \A k \in Keys : ~Precedes(k, k)
BY DEF Precedes, Keys

LEMMA PrecedesTransitive ==
    ASSUME NEW j \in Keys, NEW k \in Keys, NEW l \in Keys, Precedes(j, k), Precedes(k, l)
    PROVE  Precedes(j, l)
<1>1. /\ Len(j) \in Nat /\ Len(k) \in Nat /\ Len(l) \in Nat
      /\ \A i \in 1..Len(j) : j[i] \in Nat
      /\ \A i \in 1..Len(k) : k[i] \in Nat
      /\ \A i \in 1..Len(l) : l[i] \in Nat
  BY DEF Keys
<1>2. PICK a \in 1..Len(k) : /\ a <= Len(j) => j[a] < k[a]
                            /\ a <= Len(j) + 1
                            /\ \A h \in 1..(a - 1) : j[h] = k[h]
  BY DEF Precedes
<1>3. PICK b \in 1..Len(l) : /\ b <= Len(k) => k[b] < l[b]
                            /\ b <= Len(k) + 1
                            /\ \A h \in 1..(b - 1) : k[h] = l[h]
  BY DEF Precedes
<1>4. CASE a < b
  <2>1. a \in 1..Len(l) /\ k[a] = l[a] /\ \A h \in 1..(a - 1) : j[h] = l[h]
    BY <1>1, <1>2, <1>3, <1>4
  <2>. QED BY <1>2, <2>1 DEF Precedes
<1>5. CASE a = b
  <2>1. \A h \in 1..(b - 1) : j[h] = l[h]
    BY <1>2, <1>3, <1>5
  <2>2. b <= Len(j) => j[b] < l[b]
    BY <1>1, <1>2, <1>3, <1>5
  <2>. QED BY <1>2, <1>3, <1>5, <2>1, <2>2 DEF Precedes
<1>6. CASE b < a
  <2>1. b <= Len(j) /\ b <= Len(k) /\ j[b] = k[b] /\ \A h \in 1..(b - 1) : j[h] = l[h]
    BY <1>1, <1>2, <1>3, <1>6
  <2>2. j[b] < l[b]
    BY <1>3, <2>1
  <2>3. b \in 1..Len(l) /\ (b <= Len(j) => j[b] < l[b]) /\ b <= Len(j) + 1
    BY <1>1, <1>3, <2>1, <2>2
  <2>. QED BY <2>1, <2>3 DEF Precedes
<1>. QED BY <1>1, <1>2, <1>3, <1>4, <1>5, <1>6

\* Of two keys one precedes the other, by the first place where they differ.
LEMMA PrecedesTotal ==
    ASSUME NEW j \in Keys, NEW k \in Keys, j # k
    PROVE  Precedes(j, k) \/ Precedes(k, j)
<1>1. /\ Len(j) \in Nat /\ Len(k) \in Nat
      /\ \A i \in 1..Len(j) : j[i] \in Nat
      /\ \A i \in 1..Len(k) : k[i] \in Nat
  BY DEF Keys
<1> DEFINE Differ == {i \in Nat \ {0} : \/ i > Len(j) \/ i > Len(k)
                                        \/ (i <= Len(j) /\ i <= Len(k) /\ j[i] # k[i])}
<1>2. Differ # {} /\ Differ \subseteq Nat
  <2>1. Len(j) + 1 \in Differ
    BY <1>1
  <2>. QED BY <2>1
<1>3. PICK a \in Differ : \A i \in Differ : a <= i
  <2> HIDE DEF Differ
  <2>. QED BY <1>2, LeastNumber
<1>4. \A h \in 1..(a - 1) : h <= Len(j) /\ h <= Len(k) /\ j[h] = k[h]
  BY <1>1, <1>3
<1>5. a <= Len(j) + 1 /\ a <= Len(k) + 1
  BY <1>1, <1>3
<1>6. CASE a <= Len(j) /\ a <= Len(k)
  <2>1. j[a] < k[a] \/ k[a] < j[a]
    BY <1>1, <1>3, <1>6
  <2>. QED BY <1>1, <1>3, <1>4, <1>5, <1>6, <2>1 DEF Precedes
<1>7. CASE a > Len(j) /\ a <= Len(k)
  BY <1>1, <1>3, <1>4, <1>5, <1>7 DEF Precedes
<1>8. CASE a <= Len(j) /\ a > Len(k)
  BY <1>1, <1>3, <1>4, <1>5, <1>8 DEF Precedes
<1>9. CASE a > Len(j) /\ a > Len(k)
  <2>1. Len(j) = Len(k) /\ \A i \in 1..Len(j) : j[i] = k[i]
    BY <1>1, <1>4, <1>5, <1>9
  <2>. QED BY <2>1, SeqEqual DEF Keys
<1>. QED BY <1>1, <1>3, <1>6, <1>7, <1>8, <1>9

\* A finite set of keys has a last one.
LEMMA LastIsLast ==
    ASSUME NEW S \in SUBSET Keys, IsFiniteSet(S), S # {}, NEW none
    PROVE  /\ Last(S, none) \in S
           /\ \A j \in S : j = Last(S, none) \/ Precedes(j, Last(S, none))
<1> DEFINE Above(k) == {j \in S : Precedes(k, j)}
           F == {Above(k) : k \in S}
           R == StrictSubsetOrdering(S)
<1>1. F \subseteq FiniteSubsetsOf(S) /\ F # {}
  <2>1. \A k \in S : Above(k) \subseteq S /\ IsFiniteSet(Above(k))
    BY FS_Subset
  <2>. QED BY <2>1 DEF FiniteSubsetsOf
<1>2. PICK m \in F : \A y \in F : <<y, m>> \notin R
  <2> HIDE DEF F, R
  <2>. QED BY <1>1, FS_StrictSubsetOrderingWellFounded, WFMin DEF R
<1>3. PICK k \in S : m = Above(k)
  OBVIOUS
<1>4. ASSUME NEW j \in Above(k) PROVE FALSE
  <2>1. j \in S /\ j \in Keys /\ k \in Keys /\ Precedes(k, j)
    BY <1>4
  <2>2. Above(j) \subseteq Above(k) /\ j \notin Above(j)
    BY <2>1, PrecedesTransitive, PrecedesIrreflexive
  <2>3. <<Above(j), Above(k)>> \in R
    BY <1>4, <2>2 DEF StrictSubsetOrdering
  <2>. QED BY <1>2, <1>3, <2>1, <2>3
<1>5. \A j \in S \ {k} : Precedes(j, k)
  BY <1>4, PrecedesTotal
<1>6. ASSUME NEW l \in S, \A j \in S \ {l} : Precedes(j, l) PROVE l = k
  <2>1. l # k => Precedes(l, k) /\ Precedes(k, l)
    BY <1>5, <1>6
  <2>2. l \in Keys /\ k \in Keys
    OBVIOUS
  <2>. QED BY <2>1, <2>2, PrecedesTransitive, PrecedesIrreflexive
<1>7. Last(S, none) = k
  <2> DEFINE top == {l \in S : \A j \in S \ {l} : Precedes(j, l)}
  <2>1. top = {k}
    BY <1>5, <1>6
  <2> HIDE DEF top
  <2>2. (CHOOSE l \in top : TRUE) = k
    BY <2>1
  <2>. QED BY <2>1, <2>2 DEF Last, top
<1>. QED BY <1>5, <1>7

\* A page holds what precedes the keys it holds.
LEMMA PageIsClosed ==
    ASSUME NEW S \in SUBSET Keys, IsFiniteSet(S),
           NEW k \in FirstPage(S), NEW j \in S, Precedes(j, k)
    PROVE  j \in FirstPage(S)
<1> DEFINE Below(l) == {i \in S : Precedes(i, l)}
<1>1. k \in S /\ Cardinality(Below(k)) < PageSize
  BY DEF FirstPage
<1>2. Below(j) \subseteq Below(k)
  BY <1>1, PrecedesTransitive
<1>3. IsFiniteSet(Below(k))
  BY FS_Subset
<1>4. /\ Cardinality(Below(j)) \in Nat /\ Cardinality(Below(k)) \in Nat
      /\ Cardinality(Below(j)) <= Cardinality(Below(k))
  <2>1. IsFiniteSet(Below(j))
    BY FS_Subset
  <2> HIDE DEF Below
  <2>. QED BY <1>2, <1>3, <2>1, FS_Subset, FS_CardinalityType
<1>5. Cardinality(Below(j)) < PageSize
  <2> HIDE DEF Below
  <2>. QED BY <1>1, <1>4, StoreAssumption
<1>. QED BY <1>5 DEF FirstPage

\* No key is passed over: what comes after the token is on the page or comes after the
\* new token, and without another page it is on the page.
LEMMA PageAdvances ==
    ASSUME NEW locals \in Locals, NEW S \in SUBSET Keys, IsFiniteSet(S),
           NEW k \in S, Precedes(locals.token, k)
    PROVE  LET next == NextPage(locals, S)
           IN  k \in next.page \/ (next.more /\ Precedes(next.token, k))
<1> DEFINE rest == After(S, locals.token)
           page == FirstPage(rest)
           next == NextPage(locals, S)
<1>1. /\ next.page = page /\ next.more = (page # rest)
      /\ next.token = Last(page, locals.token)
  BY DEF NextPage, Locals
<1>2. k \in rest /\ rest \subseteq S
  BY DEF After
<1>3. IsFiniteSet(rest) /\ page \subseteq rest /\ IsFiniteSet(page)
  BY <1>2, FS_Subset DEF FirstPage
<1> SUFFICES ASSUME k \notin page PROVE page # rest /\ Precedes(Last(page, locals.token), k)
  BY <1>1
<1>4. CASE page = {}
  BY <1>2, <1>4 DEF Last
<1>5. CASE page # {}
  <2> DEFINE last == Last(page, locals.token)
  <2>1. last \in page /\ last \in Keys
    BY <1>2, <1>3, <1>5, LastIsLast
  <2>2. ~Precedes(k, last)
    BY <1>2, <1>3, <2>1, PageIsClosed
  <2>3. Precedes(last, k)
    BY <2>1, <2>2, PrecedesTotal
  <2>. QED BY <1>2, <2>3
<1>. QED BY <1>4, <1>5

-----------------------------------------------------------------------------
(* The invariant of the calls *)

\* The steps a call of an operation may pass through on some backend.
LabelsOf(op) ==
    CASE op = "Mkdir"     -> {"mkdir"}
      [] op = "Put"       -> {"open", "openList", "write"}
      [] op = "Read"      -> {"open", "openList", "get", "readdir"}
      [] op = "Open"      -> {"open", "openList", "get"}
      [] op = "RemoveAll" -> {"removeFile", "removeList", "removeBatch", "removeObject"}
      [] op = "Rename"    -> {"renameFile", "renameDelete", "renameList", "renameCopy",
                              "renameBatch", "renameObject"}
      [] op = "Stat"      -> {"statFile", "statMarker", "statList"}

AllLabels == {"idle"} \cup UNION {LabelsOf(op) : op \in Ops}

\* What a goroutine has collected lies below the name it was called with.
ScopeOf(p) ==
    /\ pc[p] # "idle" => call[p] \in Calls /\ pc[p] \in LabelsOf(call[p].op)
    /\ pc[p] = "idle" => loc[p] = Cleared
    /\ \A k \in loc[p].page \cup loc[p].toDelete : IsUnder(k, name(p))

Scope == \A p \in Procs : ScopeOf(p)

\* The inductive invariant.
CallsInv == StoreTypeOK /\ FrameTypeOK(AllLabels) /\ Scope

\* What a step of goroutine p may do: types and scope are kept, the other goroutines
\* stay where they are and what changes in the bucket is in the footprint of its call.
Fine(p) ==
    /\ StoreTypeOK' /\ FrameTypeOK(AllLabels)'
    /\ ScopeOf(p)'
    /\ call' = call
    /\ pc'[p] # "idle" => before' = before
    /\ \A q \in Procs \ {p} :
          pc'[q] = pc[q] /\ loc'[q] = loc[q] /\ before'[q] = before[q] /\ ret'[q] = ret[q]
    /\ \A k : ~SameAt(bucket, bucket', k) => Footprint(call[p], k)

-----------------------------------------------------------------------------

LEMMA LabelFacts ==
    /\ "idle" \in AllLabels
    /\ \A op \in Ops : LabelsOf(op) \subseteq AllLabels /\ "idle" \notin LabelsOf(op)
    /\ \A op \in Ops : FirstStep[op] \in LabelsOf(op)
BY DEF AllLabels, LabelsOf, Ops, FirstStep

\* A step that goes on within the labels of its operation.
LEMMA GotoFine ==
    ASSUME CallsInv, NEW p \in Procs, StoreTypeOK', pc[p] # "idle",
           NEW label \in LabelsOf(call[p].op), NEW locals \in Locals,
           Goto(p, label, locals),
           \A k \in locals.page \cup locals.toDelete : IsUnder(k, name(p)),
           \A k : ~SameAt(bucket, bucket', k) => Footprint(call[p], k)
    PROVE  Fine(p)
<1>1. ScopeOf(p) /\ call[p] \in Calls /\ call[p].op \in Ops
  BY CallsAssumption DEF CallsInv, Scope, ScopeOf
<1>2. label \in AllLabels /\ label # "idle"
  BY <1>1, LabelFacts
<1>3. FrameTypeOK(AllLabels)'
  BY <1>2, GotoFacts DEF CallsInv
<1>4. pc'[p] = label /\ loc'[p] = locals /\ call' = call /\ before' = before
  BY DEF CallsInv, FrameTypeOK, Goto
<1>5. ScopeOf(p)'
  BY <1>1, <1>2, <1>4 DEF ScopeOf, name
<1>6. \A q \in Procs \ {p} :
         pc'[q] = pc[q] /\ loc'[q] = loc[q] /\ before'[q] = before[q] /\ ret'[q] = ret[q]
  BY DEF CallsInv, FrameTypeOK, Goto
<1>7. QED
  BY <1>3, <1>4, <1>5, <1>6 DEF Fine

\* A step that returns.
LEMMA ReturnFine ==
    ASSUME CallsInv, NEW p \in Procs, StoreTypeOK',
           NEW kind \in Kinds, NEW entries \in SUBSET Keys,
           ReturnWith(p, kind, entries),
           \A k : ~SameAt(bucket, bucket', k) => Footprint(call[p], k)
    PROVE  Fine(p)
<1>1. FrameTypeOK(AllLabels)'
  BY LabelFacts, ReturnFacts DEF CallsInv
<1>2. pc'[p] = "idle" /\ loc'[p] = Cleared /\ call' = call
  BY DEF CallsInv, FrameTypeOK, ReturnWith
<1>3. ScopeOf(p)'
  BY <1>2 DEF ScopeOf, Cleared
<1>4. \A q \in Procs \ {p} :
         pc'[q] = pc[q] /\ loc'[q] = loc[q] /\ before'[q] = before[q] /\ ret'[q] = ret[q]
  BY DEF CallsInv, FrameTypeOK, ReturnWith
<1>5. QED
  BY <1>1, <1>2, <1>3, <1>4 DEF Fine

\* The label tells the operation.
LEMMA OperationOf ==
    ASSUME CallsInv, NEW p \in Procs, pc[p] # "idle"
    PROVE  /\ name(p) \in Paths /\ dst(p) \in Paths
           /\ call[p].body \in Nat
           /\ loc[p] \in Locals
           /\ pc[p] = "mkdir" => call[p].op = "Mkdir"
           /\ pc[p] \in {"open", "openList"} => call[p].op \in {"Put", "Read", "Open"}
           /\ pc[p] = "get" => call[p].op \in {"Read", "Open"}
           /\ pc[p] = "readdir" => call[p].op = "Read"
           /\ pc[p] = "write" => call[p].op = "Put"
           /\ pc[p] \in {"removeFile", "removeList", "removeBatch", "removeObject"}
                 => call[p].op = "RemoveAll"
           /\ pc[p] \in {"renameFile", "renameDelete", "renameList", "renameCopy", "renameBatch",
                        "renameObject"}
                 => call[p].op = "Rename"
           /\ pc[p] \in {"statFile", "statMarker", "statList"} => call[p].op = "Stat"
<1>1. name(p) \in Paths /\ dst(p) \in Paths
  BY NameType DEF CallsInv
<1>2. call[p] \in Calls /\ pc[p] \in LabelsOf(call[p].op) /\ loc[p] \in Locals
  BY DEF CallsInv, FrameTypeOK, Scope, ScopeOf
<1>3. call[p].op \in Ops /\ call[p].body \in Nat
  BY <1>2, CallsAssumption
<1>4. CASE call[p].op = "Mkdir"
  BY <1>1, <1>2, <1>3, <1>4 DEF LabelsOf
<1>5. CASE call[p].op = "Put"
  BY <1>1, <1>2, <1>3, <1>5 DEF LabelsOf
<1>6. CASE call[p].op = "Read"
  BY <1>1, <1>2, <1>3, <1>6 DEF LabelsOf
<1>7. CASE call[p].op = "RemoveAll"
  BY <1>1, <1>2, <1>3, <1>7 DEF LabelsOf
<1>8. CASE call[p].op = "Rename"
  BY <1>1, <1>2, <1>3, <1>8 DEF LabelsOf
<1>9. CASE call[p].op = "Stat"
  BY <1>1, <1>2, <1>3, <1>9 DEF LabelsOf
<1>10. CASE call[p].op = "Open"
  BY <1>1, <1>2, <1>3, <1>10 DEF LabelsOf
<1>11. QED
  BY <1>3, <1>4, <1>5, <1>6, <1>7, <1>8, <1>9, <1>10 DEF Ops

\* Deleting one key, or trying to.
LEMMA DeleteFileFacts ==
    ASSUME StoreTypeOK, NEW key, Works \/ Fails, bucket' \in {bucket, Without(bucket, {key})}
    PROVE  /\ StoreTypeOK'
           /\ \A k : ~SameAt(bucket, bucket', k) => k = key
<1>1. faults' \in 0..MaxFaults
  BY FaultType DEF StoreTypeOK
<1>2. CASE bucket' = bucket
  BY <1>1, <1>2, SameFacts DEF StoreTypeOK
<1>3. CASE bucket' = Without(bucket, {key})
  BY <1>1, <1>3, WithoutFacts DEF StoreTypeOK
<1>4. QED
  BY <1>2, <1>3

\* The keys below a path are keys.
LEMMA UnderType ==
    ASSUME StoreTypeOK, NEW path
    PROVE  KeysUnder(bucket, path) \in SUBSET Keys
BY DEF StoreTypeOK, IsBucket, KeysUnder

-----------------------------------------------------------------------------
(* One lemma per operation *)

LEMMA MkdirFine == ASSUME CallsInv, NEW p \in Procs, Mkdir(p) PROVE Fine(p)
<1>1. PICK ok \in BOOLEAN : /\ PutObject(dirKeyFor(name(p)), Folder, ok)
                            /\ Return(p, IF ok THEN "ok" ELSE "error")
  BY DEF Mkdir
<1>2. pc[p] # "idle" /\ call[p].op = "Mkdir" /\ name(p) \in Paths
  BY OperationOf DEF Mkdir
<1>3. Folder \in Objects
  BY StoreAssumption DEF Folder, Objects
<1>4. /\ StoreTypeOK'
      /\ \A k : ~SameAt(bucket, bucket', k) => k = dirKeyFor(name(p))
  BY <1>1, <1>2, <1>3, KeyTypes, PutFacts DEF CallsInv
<1>5. \A k : ~SameAt(bucket, bucket', k) => Footprint(call[p], k)
  BY <1>2, <1>4 DEF Footprint, name
<1>6. QED
  BY <1>1, <1>4, <1>5, ReturnFine DEF Return, Kinds

LEMMA OpenRootFine == ASSUME CallsInv, NEW p \in Procs, OpenRoot(p) PROVE Fine(p)
<1>1. /\ pc[p] = "open" /\ UNCHANGED <<bucket, faults>>
      /\ \/ call[p].op = "Read" /\ Goto(p, "readdir", loc[p])
         \/ Return(p, "dir")
  BY DEF OpenRoot
<1>2. CASE Return(p, "dir")
  <2>1. StoreTypeOK' /\ \A k : SameAt(bucket, bucket', k)
    BY <1>1, SameFacts DEF CallsInv, StoreTypeOK
  <2>2. QED
    BY <1>2, <2>1, ReturnFine DEF Return, Kinds
<1>3. CASE call[p].op = "Read" /\ Goto(p, "readdir", loc[p])
  <2>1. StoreTypeOK' /\ \A k : SameAt(bucket, bucket', k)
    BY <1>1, SameFacts DEF CallsInv, StoreTypeOK
  <2>2. \A k \in loc[p].page \cup loc[p].toDelete : IsUnder(k, name(p))
    BY DEF CallsInv, Scope, ScopeOf
  <2>3. "readdir" \in LabelsOf(call[p].op)
    BY <1>3 DEF LabelsOf
  <2>4. QED
    BY <1>1, <1>3, <2>1, <2>2, <2>3, OperationOf, GotoFine
<1>4. QED
  BY <1>1, <1>2, <1>3

LEMMA OpenGetFine == ASSUME CallsInv, NEW p \in Procs, OpenGet(p) PROVE Fine(p)
<1>1. PICK kind \in Kinds : Return(p, kind)
  BY DEF OpenGet, Kinds
<1>2. StoreTypeOK' /\ \A k : SameAt(bucket, bucket', k)
  BY FaultType, SameFacts DEF OpenGet, CallsInv, StoreTypeOK
<1>3. QED
  BY <1>1, <1>2, ReturnFine DEF Return

\* The entries a page of Readdir adds are keys of the page.
LEMMA NewEntriesType ==
    ASSUME NEW path, NEW page \in SUBSET Keys, NEW seen
    PROVE  NewEntries(path, page, seen) \in SUBSET Keys
BY DEF NewEntries

\* The page of a listing was fetched: Readdir goes on, or returns the entries.
LEMMA ReaddirFine ==
    ASSUME CallsInv, NEW p \in Procs, pc[p] = "readdir", NEW ok, ListObjects(ok),
           NEW next \in Locals, next.toDelete = loc[p].toDelete, NEW entries \in SUBSET Keys,
           \/ Return(p, "error")
           \/ Goto(p, "readdir", [next EXCEPT !.entries = entries, !.page = {}])
           \/ ReturnWith(p, "dir", entries)
    PROVE  Fine(p)
<1> DEFINE more == [next EXCEPT !.entries = entries, !.page = {}]
<1>1. pc[p] # "idle" /\ call[p].op = "Read"
  BY OperationOf
<1>2. StoreTypeOK' /\ \A k : SameAt(bucket, bucket', k)
  BY ListFacts DEF CallsInv
<1>3. more \in Locals /\ more.page = {} /\ more.toDelete = loc[p].toDelete
  BY DEF Locals
<1>4. Return(p, "error") \/ Goto(p, "readdir", more) \/ ReturnWith(p, "dir", entries)
  OBVIOUS
<1> HIDE DEF more
<1>5. \A k \in more.page \cup more.toDelete : IsUnder(k, name(p))
  BY <1>3 DEF CallsInv, Scope, ScopeOf
<1>6. CASE Return(p, "error")
  BY <1>2, <1>6, ReturnFine DEF Return, Kinds
<1>7. CASE Goto(p, "readdir", more)
  <2>1. "readdir" \in LabelsOf(call[p].op)
    BY <1>1 DEF LabelsOf
  <2>. QED
    BY <1>1, <1>2, <1>3, <1>5, <1>7, <2>1, GotoFine
<1>8. CASE ReturnWith(p, "dir", entries)
  BY <1>2, <1>8, ReturnFine DEF Kinds
<1>. QED
  BY <1>4, <1>6, <1>7, <1>8

\* What Readdir lists are keys.
LEMMA ListedType ==
    ASSUME CallsInv, NEW path \in Paths
    PROVE  {Entry(k, path) : k \in Listed(path)} \in SUBSET Keys
<1>1. \A k \in Listed(path) : k \in Keys /\ IsUnder(k, path)
  BY DEF Listed, KeysUnder, CallsInv, StoreTypeOK, IsBucket
<1>. QED
  BY <1>1, EntryType

LEMMA ReaddirPageFine == ASSUME CallsInv, NEW p \in Procs, ReaddirPage(p) PROVE Fine(p)
<1> DEFINE S == {Entry(k, name(p)) : k \in Listed(name(p))}
           next == NextPage(loc[p], S)
           entries == next.entries \cup NewEntries(name(p), next.page, next.entries)
<1>1. PICK ok \in BOOLEAN :
        /\ ListObjects(ok)
        /\ \/ Return(p, "error")
           \/ Goto(p, "readdir", [next EXCEPT !.entries = entries, !.page = {}])
           \/ ReturnWith(p, "dir", entries)
  BY DEF ReaddirPage
<1>2. loc[p] \in Locals /\ name(p) \in Paths /\ pc[p] = "readdir"
  BY OperationOf DEF ReaddirPage
<1>3. S \in SUBSET Keys
  BY <1>2, ListedType
<1> HIDE DEF S
<1>4. next \in Locals /\ next.page \in SUBSET Keys /\ next.toDelete = loc[p].toDelete
  BY <1>2, <1>3, NextPageFacts
<1> HIDE DEF next
<1>5. entries \in SUBSET Keys
  BY <1>4, NewEntriesType DEF Locals
<1> HIDE DEF entries
<1>. QED
  BY <1>1, <1>2, <1>4, <1>5, ReaddirFine

LEMMA WriteFine == ASSUME CallsInv, NEW p \in Procs, Write(p) PROVE Fine(p)
<1> DEFINE locals == [loc[p] EXCEPT !.chunks = @ + 1]
<1>1. Goto(p, "write", locals) /\ UNCHANGED <<bucket, faults>>
  BY DEF Write
<1>2. pc[p] # "idle" /\ loc[p] \in Locals /\ call[p].op = "Put"
  BY OperationOf DEF Write
<1>3. locals \in Locals /\ locals.page = loc[p].page /\ locals.toDelete = loc[p].toDelete
  BY <1>2, StoreAssumption DEF Write, Locals
<1> HIDE DEF locals
<1>4. StoreTypeOK' /\ \A k : SameAt(bucket, bucket', k)
  BY <1>1, SameFacts DEF CallsInv, StoreTypeOK
<1>5. \A k \in locals.page \cup locals.toDelete : IsUnder(k, name(p))
  BY <1>3 DEF CallsInv, Scope, ScopeOf
<1>6. "write" \in LabelsOf(call[p].op)
  BY <1>2 DEF LabelsOf
<1>7. QED
  BY <1>1, <1>2, <1>3, <1>4, <1>5, <1>6, GotoFine

LEMMA CloseFine == ASSUME CallsInv, NEW p \in Procs, Close(p) PROVE Fine(p)
<1> DEFINE object == [body |-> call[p].body, chunks |-> loc[p].chunks]
<1>1. PICK ok \in BOOLEAN, kind \in Kinds :
        PutObject(keyFor(name(p)), object, ok) /\ Return(p, kind)
  BY DEF Close, Kinds
<1>2. /\ pc[p] # "idle" /\ loc[p] \in Locals /\ call[p].body \in Nat
      /\ name(p) \in Paths /\ call[p].op = "Put"
  BY OperationOf DEF Close
<1>3. object \in Objects /\ keyFor(name(p)) \in Keys
  BY <1>2, KeyTypes DEF Objects, Locals
<1> HIDE DEF object
<1>4. /\ StoreTypeOK'
      /\ \A k : ~SameAt(bucket, bucket', k) => k = keyFor(name(p))
  BY <1>1, <1>3, PutFacts DEF CallsInv
<1>5. \A k : ~SameAt(bucket, bucket', k) => Footprint(call[p], k)
  BY <1>2, <1>4 DEF Footprint, name
<1>6. QED
  BY <1>1, <1>4, <1>5, ReturnFine DEF Return

\* The requests of Stat change nothing.
LEMMA StatFine ==
    ASSUME CallsInv, NEW p \in Procs,
           StatRoot(p) \/ StatFile(p) \/ StatMarker(p) \/ StatList(p)
    PROVE  Fine(p)
<1>1. pc[p] # "idle" /\ loc[p] \in Locals /\ call[p].op = "Stat"
  BY OperationOf DEF StatRoot, StatFile, StatMarker, StatList
<1>2. StoreTypeOK' /\ \A k : SameAt(bucket, bucket', k)
  BY HeadFacts, ListFacts, SameFacts
     DEF StatRoot, StatFile, StatMarker, StatList, CallsInv, StoreTypeOK
<1>3. \/ \E kind \in Kinds : Return(p, kind)
      \/ \E label \in {"statMarker", "statList"} : Goto(p, label, loc[p])
  BY DEF StatRoot, StatFile, StatMarker, StatList, Kinds
<1>4. CASE \E kind \in Kinds : Return(p, kind)
  BY <1>2, <1>4, ReturnFine DEF Return
<1>5. CASE \E label \in {"statMarker", "statList"} : Goto(p, label, loc[p])
  <2>1. {"statMarker", "statList"} \subseteq LabelsOf(call[p].op)
    BY <1>1 DEF LabelsOf
  <2>2. \A k \in loc[p].page \cup loc[p].toDelete : IsUnder(k, name(p))
    BY DEF CallsInv, Scope, ScopeOf
  <2>3. QED
    BY <1>1, <1>2, <1>5, <2>1, <2>2, GotoFine
<1>6. QED
  BY <1>3, <1>4, <1>5

-----------------------------------------------------------------------------
(* The beginning, the steps and the end of the calls *)

LEMMA InitCalls == FrameInit => CallsInv
<1>. SUFFICES ASSUME FrameInit PROVE CallsInv
  OBVIOUS
<1>1. StoreTypeOK
  BY FrameAssumption DEF FrameInit, StoreTypeOK
<1>2. FrameTypeOK(AllLabels)
  BY FrameAssumption, ClearedType, NoBucketType, LabelFacts DEF FrameInit, FrameTypeOK, Nothing, Kinds
<1>3. Scope
  BY DEF FrameInit, Scope, ScopeOf, Cleared
<1>. QED
  BY <1>1, <1>2, <1>3 DEF CallsInv

LEMMA BeginKeeps == ASSUME CallsInv, NEW p \in Procs, NEW c \in Calls, Begin(p, c) PROVE CallsInv'
<1>1. c.op \in Ops
  BY CallsAssumption
<1>2. FirstStep[c.op] \in AllLabels
  BY <1>1, LabelFacts
<1>3. StoreTypeOK' /\ FrameTypeOK(AllLabels)'
  BY <1>2, BeginFacts DEF CallsInv
<1>4. pc'[p] = FirstStep[c.op] /\ call'[p] = c /\ loc' = loc /\ pc[p] = "idle"
  BY DEF Begin, CallsInv, FrameTypeOK
<1>5. ScopeOf(p)'
  BY <1>1, <1>4, LabelFacts DEF CallsInv, Scope, ScopeOf, Cleared
<1>6. \A q \in Procs \ {p} : ScopeOf(q)'
  BY DEF Begin, CallsInv, FrameTypeOK, Scope, ScopeOf, name
<1>. QED
  BY <1>3, <1>5, <1>6 DEF CallsInv, Scope

LEMMA FineKeeps == ASSUME CallsInv, NEW p \in Procs, Fine(p) PROVE CallsInv'
<1>1. \A q \in Procs \ {p} : ScopeOf(q)'
  BY DEF Fine, CallsInv, Scope, ScopeOf, name
<1>. QED
  BY <1>1 DEF Fine, CallsInv, Scope

LEMMA CrashKeeps == ASSUME CallsInv, Crash PROVE CallsInv'
<1>1. StoreTypeOK' /\ FrameTypeOK(AllLabels)'
  BY CrashFacts, LabelFacts DEF CallsInv
<1>2. Scope'
  BY DEF Crash, Scope, ScopeOf, Cleared
<1>. QED
  BY <1>1, <1>2 DEF CallsInv

LEMMA StutterKeeps == CallsInv /\ UNCHANGED vars => CallsInv'
BY DEF vars, CallsInv, StoreTypeOK, FrameTypeOK, IsBucket, Scope, ScopeOf, name
=============================================================================
