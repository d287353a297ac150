---------------------------- MODULE RenameProofs ----------------------------
(***************************************************************************)
(* Why Rename loses nothing on any of the cloud file systems: for all      *)
(* goroutines, trees, page sizes, failed requests and crashes, as long as  *)
(* nobody else changes its two trees, no directory is moved into itself or *)
(* onto a parent, and no name holds a percent escape.                      *)
(***************************************************************************)
EXTENDS BackendProofs

Moving(p) == pc[p] # "idle" /\ call[p].op = "Rename"

\* The object that was at k when the call began is at its new key.
Copied(p, k) ==
    /\ k \in DOMAIN before[p]
    /\ Rebase(k, name(p), dst(p)) \in DOMAIN bucket
    /\ bucket[Rebase(k, name(p), dst(p))] = before[p][k]

\* The key a loop over a page comes to next.
Foremost(k, page) == \A j \in page \ {k} : Precedes(k, j)

\* Every key of the old tree is as it was or has been moved, and what the call is
\* going to delete it has copied.
RenameInv(p) ==
    Moving(p) =>
        /\ \A k : InTree(k, name(p)) =>
               SameAt(before[p], bucket, k) \/ (k \notin DOMAIN bucket /\ Copied(p, k))
        /\ \A k \in loc[p].toDelete : Copied(p, k)
        /\ pc[p] = "renameDelete" => Copied(p, keyFor(name(p)))
        /\ pc[p] = "renameObject" =>
               \A k \in loc[p].page : Foremost(k, loc[p].page) => Copied(p, k)

\* No name holds a percent escape, which S3 would decode in the source of a copy.
NoEscapes == DOMAIN Escapes = {}

\* What a Rename needs to keep its invariant: the two trees are not nested, and S3
\* copies from the keys it is given.
RenameOK(p) ==
    /\ NoEscapes
    /\ CallsInv
    /\ RenameInv(p)
    /\ ~Within(name(p), dst(p)) /\ ~Within(dst(p), name(p))

-----------------------------------------------------------------------------
(* Trees *)

\* A key in the tree of a path starts with the path.
LEMMA TreePrefix ==
    ASSUME NEW k \in Keys, NEW x \in Paths, InTree(k, x)
    PROVE  Len(x) <= Len(k) /\ \A i \in 1..Len(x) : k[i] = x[i]
<1>1. k \in Seq(Nat) /\ x \in Seq(Nat)
  BY DEF Keys, Paths
<1>2. CASE k = x
  BY <1>1, <1>2
<1>3. CASE IsUnder(k, x)
  <2>1. Len(k) > Len(x) /\ SubSeq(k, 1, Len(x)) = x
    BY <1>3 DEF IsUnder
  <2>2. \A i \in 1..Len(x) : SubSeq(k, 1, Len(x))[i] = k[i]
    BY <1>1, <2>1
  <2>. QED BY <1>1, <2>1, <2>2
<1>. QED BY <1>2, <1>3 DEF InTree, keyFor

\* Trees that are not nested have no key in common.
LEMMA TreesApart ==
    ASSUME NEW x \in Paths, NEW y \in Paths, ~Within(x, y), ~Within(y, x),
           NEW k \in Keys, InTree(k, x)
    PROVE  ~InTree(k, y)
<1>. SUFFICES ASSUME InTree(k, y) PROVE FALSE
  OBVIOUS
<1>1. x \in Seq(Nat) /\ y \in Seq(Nat) /\ k \in Seq(Nat)
  BY DEF Paths, Keys
<1>2. /\ \A i \in 1..Len(x) : k[i] = x[i]
      /\ \A i \in 1..Len(y) : k[i] = y[i]
  BY TreePrefix
<1>3. ASSUME NEW u \in Seq(Nat), NEW v \in Seq(Nat), Len(u) <= Len(v),
             \A i \in 1..Len(u) : k[i] = u[i], \A i \in 1..Len(v) : k[i] = v[i]
      PROVE  Within(v, u)
  <2>1. SubSeq(v, 1, Len(u)) \in Seq(Nat) /\ Len(SubSeq(v, 1, Len(u))) = Len(u)
    BY <1>3
  <2>2. \A i \in 1..Len(u) : SubSeq(v, 1, Len(u))[i] = u[i]
    BY <1>3
  <2>3. SubSeq(v, 1, Len(u)) = u
    BY <1>3, <2>1, <2>2, SeqEqual
  <2>. QED BY <1>3, <2>3 DEF Within
<1>4. Len(x) <= Len(y) \/ Len(y) <= Len(x)
  BY <1>1
<1>. QED BY <1>1, <1>2, <1>3, <1>4

\* The new keys of a renamed tree lie in the new tree, and no two are the same.
LEMMA RebaseTree ==
    ASSUME NEW k \in Keys, NEW old \in Paths, NEW new \in Paths, InTree(k, old)
    PROVE  Rebase(k, old, new) \in Keys /\ InTree(Rebase(k, old, new), new)
<1>1. CASE IsUnder(k, old)
  BY <1>1, RebaseType, RebaseUnder DEF InTree
<1>2. CASE k = old
  <2>1. old \in Seq(Nat) /\ new \in Seq(Nat)
    BY DEF Paths
  <2>2. SubSeq(old, Len(old) + 1, Len(old)) = << >>
    BY <2>1
  <2>3. Rebase(k, old, new) = new
    BY <1>2, <2>1, <2>2 DEF Rebase
  <2>. QED BY <2>1, <2>3 DEF InTree, keyFor, Keys
<1>. QED BY <1>1, <1>2 DEF InTree, keyFor

LEMMA RebaseInjective ==
    ASSUME NEW k \in Keys, NEW j \in Keys, NEW old \in Paths, NEW new \in Paths,
           InTree(k, old), InTree(j, old), Rebase(k, old, new) = Rebase(j, old, new)
    PROVE  k = j
<1> DEFINE s(h) == SubSeq(h, Len(old) + 1, Len(h))
<1>1. k \in Seq(Nat) /\ j \in Seq(Nat) /\ old \in Seq(Nat) /\ new \in Seq(Nat)
  BY DEF Keys, Paths
<1>2. /\ Len(old) <= Len(k) /\ Len(old) <= Len(j)
      /\ \A i \in 1..Len(old) : k[i] = old[i] /\ j[i] = old[i]
  BY TreePrefix
<1>3. /\ s(k) \in Seq(Nat) /\ Len(s(k)) = Len(k) - Len(old)
      /\ s(j) \in Seq(Nat) /\ Len(s(j)) = Len(j) - Len(old)
  BY <1>1, <1>2, SubSeqProperties
<1>4. /\ \A i \in 1..(Len(k) - Len(old)) : s(k)[i] = k[i + Len(old)]
      /\ \A i \in 1..(Len(j) - Len(old)) : s(j)[i] = j[i + Len(old)]
  BY <1>1, <1>2
<1>5. new \o s(k) = new \o s(j)
  BY DEF Rebase
<1> HIDE DEF s
<1>6. s(k) = s(j)
  BY <1>1, <1>3, <1>5, ConcatSimplifications
<1>7. Len(k) = Len(j)
  BY <1>1, <1>3, <1>6
<1>8. ASSUME NEW i \in 1..Len(k) PROVE k[i] = j[i]
  <2>1. CASE i <= Len(old)
    BY <1>2, <2>1
  <2>2. CASE i > Len(old)
    <3>1. i - Len(old) \in 1..(Len(k) - Len(old)) /\ (i - Len(old)) + Len(old) = i
      BY <1>1, <2>2
    <3>. QED BY <1>3, <1>4, <1>6, <1>7, <3>1
  <2>. QED BY <1>1, <2>1, <2>2
<1>. QED BY <1>1, <1>7, <1>8, SeqEqual

\* The file itself is renamed to the new name.
LEMMA RebaseSelf ==
    ASSUME NEW old \in Paths, NEW new \in Paths
    PROVE  Rebase(keyFor(old), old, new) = keyFor(new)
<1>1. old \in Seq(Nat) /\ new \in Seq(Nat)
  BY DEF Paths
<1>2. SubSeq(old, Len(old) + 1, Len(old)) = << >>
  BY <1>1
<1>. QED BY <1>1, <1>2 DEF Rebase, keyFor

\* What a call touches lies in the tree of one of its paths.
LEMMA FootprintTree ==
    ASSUME NEW c \in Calls, NEW k, Footprint(c, k)
    PROVE  \E x \in PathsOf(c) : InTree(k, x)
<1>1. c.name \in Paths
  BY CallsAssumption
<1>2. InTree(dirKeyFor(c.name), c.name)
  <2>1. c.name \in Seq(Nat) /\ Slash \in Nat
    BY <1>1 DEF Paths, Slash
  <2>2. /\ Len(Append(c.name, Slash)) > Len(c.name)
        /\ SubSeq(Append(c.name, Slash), 1, Len(c.name)) = c.name
    BY <2>1
  <2>. QED BY <2>2 DEF dirKeyFor, InTree, IsUnder
<1>. QED BY <1>2 DEF Footprint, PathsOf, InTree

\* A call touches nothing in the trees of a call that is apart from it.
LEMMA ApartFootprint ==
    ASSUME NEW c \in Calls, NEW d \in Calls, Apart(c, d), NEW k \in Keys, Footprint(d, k),
           NEW x \in PathsOf(c)
    PROVE  ~InTree(k, x)
<1>1. PICK y \in PathsOf(d) : InTree(k, y)
  BY FootprintTree
<1>2. x \in Paths /\ y \in Paths
  BY <1>1, CallsAssumption DEF PathsOf
<1>3. ~Within(x, y) /\ ~Within(y, x)
  BY <1>1 DEF Apart
<1>. QED BY <1>1, <1>2, <1>3, TreesApart

-----------------------------------------------------------------------------
(* The requests of a Rename *)

\* A Rename in flight, its names, and the objects it began with.
LEMMA MovingFacts ==
    ASSUME NEW p \in Procs, RenameOK(p), Moving(p)
    PROVE  /\ name(p) \in Paths /\ dst(p) \in Paths /\ call[p] \in Calls
           /\ \A k \in Keys : InTree(k, name(p)) => ~InTree(k, dst(p))
           /\ loc[p] \in Locals
           /\ \A k \in loc[p].page \cup loc[p].toDelete : k \in Keys /\ InTree(k, name(p))
           /\ IsBucket(bucket) /\ IsBucket(before[p])
           /\ \A k : InTree(k, name(p)) =>
                  SameAt(before[p], bucket, k) \/ (k \notin DOMAIN bucket /\ Copied(p, k))
           /\ \A k \in loc[p].toDelete : Copied(p, k)
           /\ pc[p] = "renameDelete" => Copied(p, keyFor(name(p)))
           /\ pc[p] = "renameObject" =>
                  \A k \in loc[p].page : Foremost(k, loc[p].page) => Copied(p, k)
<1>1. name(p) \in Paths /\ dst(p) \in Paths /\ loc[p] \in Locals
  BY OperationOf DEF RenameOK, Moving
<1>2. call[p] \in Calls
  BY DEF RenameOK, CallsInv, Scope, ScopeOf, Moving
<1>3. \A k \in Keys : InTree(k, name(p)) => ~InTree(k, dst(p))
  BY <1>1, TreesApart DEF RenameOK
<1>4. \A k \in loc[p].page \cup loc[p].toDelete : k \in Keys /\ InTree(k, name(p))
  BY <1>1 DEF RenameOK, CallsInv, Scope, ScopeOf, Locals, InTree
<1>5. IsBucket(bucket) /\ IsBucket(before[p])
  BY DEF RenameOK, CallsInv, StoreTypeOK, FrameTypeOK
<1>. QED BY <1>1, <1>2, <1>3, <1>4, <1>5 DEF RenameOK, RenameInv

\* The same of the state a step leads to.
CopiedNow(p, k) ==
    /\ k \in DOMAIN before[p]
    /\ Rebase(k, name(p), dst(p)) \in DOMAIN bucket'
    /\ bucket'[Rebase(k, name(p), dst(p))] = before[p][k]

MovedNow(p) ==
    \A k : InTree(k, name(p)) =>
        SameAt(before[p], bucket', k) \/ (k \notin DOMAIN bucket' /\ CopiedNow(p, k))

DeletesCopied(p) ==
    \A k \in DOMAIN bucket \ DOMAIN bucket' :
        /\ Rebase(k, name(p), dst(p)) \in DOMAIN bucket'
        /\ bucket'[Rebase(k, name(p), dst(p))] = bucket[k]

\* Nothing is written or deleted in the new tree but the objects that are moved.
WritesCopies(p) ==
    \A j : InTree(j, dst(p)) =>
        \/ SameAt(bucket, bucket', j)
        \/ /\ j \in DOMAIN bucket'
           /\ \E k \in DOMAIN before[p] :
                 /\ InTree(k, name(p)) /\ j = Rebase(k, name(p), dst(p))
                 /\ bucket'[j] = before[p][k]

\* What a request of a Rename does to the bucket, and what a step of it comes to.
Safe(p) ==
    /\ MovedNow(p)
    /\ DeletesCopied(p)
    /\ WritesCopies(p)
    /\ \A k : InTree(k, name(p)) /\ Copied(p, k) => CopiedNow(p, k)

StepKeeps(p) == Safe(p) /\ RenameInv(p)'

\* A request that changes nothing.
LEMMA NothingSafe ==
    ASSUME NEW p \in Procs, RenameOK(p), Moving(p), bucket' = bucket
    PROVE  Safe(p)
BY MovingFacts, SameFacts DEF Safe, MovedNow, DeletesCopied, WritesCopies, Copied, CopiedNow

\* A copy changes nothing in the old tree and no earlier copy.
LEMMA CopySafe ==
    ASSUME NEW p \in Procs, RenameOK(p), Moving(p),
           NEW src \in Keys, InTree(src, name(p)),
           NEW err, CopyObject(src, Rebase(src, name(p), dst(p)), err)
    PROVE  Safe(p) /\ (err = "none" => CopiedNow(p, src))
<1> DEFINE new(k) == Rebase(k, name(p), dst(p))
<1>1. \/ bucket' = bucket /\ err # "none"
      \/ src \in DOMAIN bucket /\ bucket' = Store(bucket, new(src), bucket[src])
  BY DEF CopyObject
<1>2. new(src) \in Keys /\ InTree(new(src), dst(p))
  BY MovingFacts, RebaseTree
<1>3. ~InTree(new(src), name(p))
  BY <1>2, MovingFacts
<1>4. \A k : InTree(k, name(p)) /\ k \in DOMAIN before[p] /\ new(k) = new(src) => k = src
  BY MovingFacts, RebaseInjective DEF IsBucket
<1>5. src \in DOMAIN bucket => SameAt(before[p], bucket, src)
  BY MovingFacts
<1> HIDE DEF new
<1>6. CASE bucket' = bucket /\ err # "none"
  BY <1>6, NothingSafe
<1>7. CASE src \in DOMAIN bucket /\ bucket' = Store(bucket, new(src), bucket[src])
  <2>1. /\ DOMAIN bucket' = DOMAIN bucket \cup {new(src)}
        /\ bucket'[new(src)] = bucket[src]
        /\ \A k \in DOMAIN bucket : k # new(src) => bucket'[k] = bucket[k]
    BY <1>7 DEF Store
  <2>2. src \in DOMAIN before[p] /\ before[p][src] = bucket[src]
    BY <1>5, <1>7 DEF SameAt
  <2>3. CopiedNow(p, src)
    BY <2>1, <2>2 DEF CopiedNow, new
  <2>4. ASSUME NEW k, InTree(k, name(p)), Copied(p, k) PROVE CopiedNow(p, k)
    <3>1. CASE new(k) = new(src)
      BY <1>4, <2>3, <2>4, <3>1 DEF Copied
    <3>2. CASE new(k) # new(src)
      BY <2>1, <2>4, <3>2 DEF Copied, CopiedNow, new
    <3>. QED BY <3>1, <3>2
  <2>5. \A k : InTree(k, name(p)) => SameAt(bucket, bucket', k)
    BY <1>3, <2>1 DEF SameAt
  <2>6. MovedNow(p)
    BY <2>4, <2>5, MovingFacts DEF MovedNow, SameAt
  <2>7. \A j : j # new(src) => SameAt(bucket, bucket', j)
    BY <2>1 DEF SameAt
  <2>8. WritesCopies(p)
    BY <2>1, <2>2, <2>7 DEF WritesCopies, new
  <2>. QED BY <2>1, <2>3, <2>4, <2>6, <2>8 DEF Safe, DeletesCopied
<1>. QED BY <1>1, <1>6, <1>7 DEF new

\* Deleting objects of the old tree that have been copied.
LEMMA DeleteSafe ==
    ASSUME NEW p \in Procs, RenameOK(p), Moving(p),
           NEW D, \A k \in D : InTree(k, name(p)) /\ Copied(p, k),
           bucket' \in {bucket, Without(bucket, D)}
    PROVE  Safe(p)
<1> DEFINE new(k) == Rebase(k, name(p), dst(p))
<1>1. CASE bucket' = bucket
  BY <1>1, NothingSafe
<1>2. CASE bucket' = Without(bucket, D)
  <2>1. /\ DOMAIN bucket' = DOMAIN bucket \ D
        /\ \A k \in DOMAIN bucket \ D : bucket'[k] = bucket[k]
    BY <1>2 DEF Without
  <2>2. ASSUME NEW k, InTree(k, name(p)), Copied(p, k) PROVE CopiedNow(p, k)
    <3>1. k \in Keys
      BY <2>2, MovingFacts DEF Copied, IsBucket
    <3>2. new(k) \in Keys /\ InTree(new(k), dst(p))
      BY <2>2, <3>1, MovingFacts, RebaseTree
    <3>3. new(k) \notin D
      BY <3>2, MovingFacts
    <3>. QED BY <2>1, <2>2, <3>3 DEF Copied, CopiedNow
  <2>3. MovedNow(p)
    BY <2>1, <2>2, MovingFacts DEF MovedNow, SameAt
  <2>4. ASSUME NEW k \in DOMAIN bucket \ DOMAIN bucket'
        PROVE  CopiedNow(p, k) /\ before[p][k] = bucket[k]
    BY <2>1, <2>2, <2>4, MovingFacts DEF SameAt
  <2>5. DeletesCopied(p)
    BY <2>4 DEF DeletesCopied, CopiedNow
  <2>6. ASSUME NEW j, InTree(j, dst(p)) PROVE SameAt(bucket, bucket', j)
    <3>1. j \notin D
      BY <2>6, MovingFacts DEF Copied, IsBucket
    <3>. QED BY <2>1, <3>1 DEF SameAt
  <2>. QED BY <2>2, <2>3, <2>5, <2>6 DEF Safe, WritesCopies
<1>. QED BY <1>1, <1>2

\* The step goes on, with what it is going to delete copied.
LEMMA GoOn ==
    ASSUME NEW p \in Procs, RenameOK(p), Safe(p), NEW label, NEW l, Goto(p, label, l),
           \A k \in l.toDelete : CopiedNow(p, k),
           label = "renameDelete" => CopiedNow(p, keyFor(name(p))),
           label = "renameObject" => \A k \in l.page : Foremost(k, l.page) => CopiedNow(p, k)
    PROVE  StepKeeps(p)
<1>1. pc'[p] = label /\ loc'[p] = l /\ call' = call /\ before' = before
  BY DEF RenameOK, CallsInv, FrameTypeOK, Goto
<1>. QED BY <1>1 DEF StepKeeps, RenameInv, Safe, MovedNow, CopiedNow, Copied, name, dst

LEMMA Stop ==
    ASSUME NEW p \in Procs, RenameOK(p), Safe(p), NEW kind, Return(p, kind)
    PROVE  StepKeeps(p)
<1>1. pc'[p] = "idle"
  BY DEF RenameOK, CallsInv, FrameTypeOK, Return, ReturnWith
<1>. QED BY <1>1 DEF StepKeeps, RenameInv, Moving

\* A step that keeps what is on the list to be deleted.
LEMMA ListStays ==
    ASSUME NEW p \in Procs, RenameOK(p), Moving(p), Safe(p)
    PROVE  \A k \in loc[p].toDelete : CopiedNow(p, k)
BY MovingFacts DEF Safe

-----------------------------------------------------------------------------
(* The steps of a Rename on Amazon S3 *)

LEMMA SourceIsKey == ASSUME NoEscapes, NEW k \in Keys PROVE CopySource(k) = k
BY DEF NoEscapes, CopySource, Keys

\* The first request copies the object at the old name itself.
LEMMA S3RenameFileKeeps ==
    ASSUME NEW p \in Procs, RenameOK(p), Moving(p), S3RenameFile(p)
    PROVE  StepKeeps(p)
<1>1. PICK err \in {"none", "missing", "error"}, label \in {"renameDelete", "renameList"} :
        /\ CopyObject(CopySource(keyFor(name(p))), keyFor(dst(p)), err)
        /\ Goto(p, label, [loc[p] EXCEPT !.err = err])
        /\ label = "renameDelete" => err = "none"
  BY DEF S3RenameFile
<1> DEFINE src == keyFor(name(p))
           l == [loc[p] EXCEPT !.err = err]
<1>2. /\ src \in Keys /\ InTree(src, name(p)) /\ Rebase(src, name(p), dst(p)) = keyFor(dst(p))
      /\ CopySource(src) = src
  BY MovingFacts, KeyTypes, RebaseSelf, SourceIsKey DEF InTree, RenameOK
<1>3. l.toDelete = loc[p].toDelete
  BY MovingFacts DEF Locals
<1>4. Goto(p, label, l)
  BY <1>1
<1> HIDE DEF l
<1>5. Safe(p) /\ (err = "none" => CopiedNow(p, src))
  BY <1>1, <1>2, CopySafe
<1>. QED BY <1>1, <1>3, <1>4, <1>5, ListStays, GoOn

\* The file that was copied is deleted.
LEMMA S3RenameDeleteKeeps ==
    ASSUME NEW p \in Procs, RenameOK(p), Moving(p), S3RenameDelete(p)
    PROVE  StepKeeps(p)
<1>1. Copied(p, keyFor(name(p))) /\ InTree(keyFor(name(p)), name(p))
  BY MovingFacts DEF S3RenameDelete, InTree
<1>2. Safe(p)
  BY <1>1, DeleteSafe DEF S3RenameDelete
<1>. QED BY <1>2, Stop DEF S3RenameDelete

\* The loop goes on with deletions that were copied.
LEMMA S3LoopKeeps ==
    ASSUME NEW p \in Procs, RenameOK(p), Safe(p), NEW l,
           \/ S3RenameLoop(p, l) /\ \A k \in l.toDelete : CopiedNow(p, k)
           \/ Return(p, "error")
    PROVE  StepKeeps(p)
<1>1. ASSUME NEW kind, Return(p, kind) PROVE StepKeeps(p)
  BY <1>1, Stop
<1>2. ASSUME NEW label \in {"renameCopy", "renameList", "renameBatch"}, Goto(p, label, l),
             \A k \in l.toDelete : CopiedNow(p, k)
      PROVE  StepKeeps(p)
  BY <1>2, GoOn
<1>. QED BY <1>1, <1>2 DEF S3RenameLoop

\* A page was listed: nothing changes.
LEMMA S3RenameListKeeps ==
    ASSUME NEW p \in Procs, RenameOK(p), Moving(p), S3RenameList(p)
    PROVE  StepKeeps(p)
<1> DEFINE next == NextPage(loc[p], KeysUnder(bucket, name(p)))
<1>1. S3RenameLoop(p, next) \/ Return(p, "error")
  BY DEF S3RenameList
<1>2. Safe(p)
  BY NothingSafe DEF S3RenameList, ListObjects
<1>3. KeysUnder(bucket, name(p)) \in SUBSET Keys /\ loc[p] \in Locals
  BY MovingFacts, UnderType DEF RenameOK, CallsInv
<1>4. next.toDelete = loc[p].toDelete
  BY <1>3, NextPageFacts
<1> HIDE DEF next
<1>. QED BY <1>1, <1>2, <1>4, ListStays, S3LoopKeeps

\* An object of the page was copied, or the copy failed.
LEMMA S3RenameCopyKeeps ==
    ASSUME NEW p \in Procs, RenameOK(p), Moving(p), S3RenameCopy(p)
    PROVE  StepKeeps(p)
<1>1. PICK src \in loc[p].page, err \in {"none", "missing", "error"} :
        /\ CopyObject(CopySource(src), Rebase(src, name(p), dst(p)), err)
        /\ \/ /\ err = "none"
              /\ S3RenameLoop(p, [loc[p] EXCEPT !.page = @ \ {src}, !.toDelete = @ \cup {src}])
           \/ Return(p, "error")
  BY DEF S3RenameCopy
<1> DEFINE l == [loc[p] EXCEPT !.page = @ \ {src}, !.toDelete = @ \cup {src}]
<1>2. src \in Keys /\ InTree(src, name(p)) /\ CopySource(src) = src
  BY MovingFacts, SourceIsKey DEF RenameOK
<1>3. l.toDelete = loc[p].toDelete \cup {src}
  BY MovingFacts DEF Locals
<1>4. (err = "none" /\ S3RenameLoop(p, l)) \/ Return(p, "error")
  BY <1>1
<1> HIDE DEF l
<1>5. Safe(p) /\ (err = "none" => CopiedNow(p, src))
  BY <1>1, <1>2, CopySafe
<1>. QED BY <1>3, <1>4, <1>5, ListStays, S3LoopKeeps

\* The batch delete deletes what was copied, all of it or a part.
LEMMA S3RenameBatchKeeps ==
    ASSUME NEW p \in Procs, RenameOK(p), Moving(p), S3RenameBatch(p)
    PROVE  StepKeeps(p)
<1>1. PICK ok \in BOOLEAN, kind \in {"ok", "error"} :
        DeleteObjects(loc[p].toDelete, ok) /\ Return(p, kind)
  BY DEF S3RenameBatch
<1>2. PICK D \in SUBSET loc[p].toDelete : bucket' \in {bucket, Without(bucket, D)}
  BY <1>1 DEF DeleteObjects
<1>3. \A k \in D : InTree(k, name(p)) /\ Copied(p, k)
  BY MovingFacts
<1>4. Safe(p)
  BY <1>2, <1>3, DeleteSafe
<1>. QED BY <1>1, <1>4, Stop

-----------------------------------------------------------------------------
(* The steps of a Rename on Google Cloud Storage and Azure *)

\* No two keys of a page come next.
LEMMA OneForemost ==
    ASSUME NEW page \in SUBSET Keys, NEW j \in page, NEW k \in page,
           Foremost(j, page), Foremost(k, page)
    PROVE  j = k
<1>. SUFFICES ASSUME j # k PROVE FALSE
  OBVIOUS
<1>1. Precedes(j, k) /\ Precedes(k, j)
  BY DEF Foremost
<1>2. j \in Seq(Nat) /\ k \in Seq(Nat)
  BY DEF Keys
<1>3. PICK i \in 1..Len(k) :
        (i <= Len(j) => j[i] < k[i]) /\ i <= Len(j) + 1 /\ \A h \in 1..(i - 1) : j[h] = k[h]
  BY <1>1 DEF Precedes
<1>4. PICK n \in 1..Len(j) :
        (n <= Len(k) => k[n] < j[n]) /\ n <= Len(k) + 1 /\ \A h \in 1..(n - 1) : k[h] = j[h]
  BY <1>1 DEF Precedes
<1>5. CASE i = n
  BY <1>2, <1>3, <1>4, <1>5
<1>6. CASE i < n
  BY <1>2, <1>3, <1>4, <1>6
<1>7. CASE n < i
  BY <1>2, <1>3, <1>4, <1>7
<1>. QED BY <1>2, <1>5, <1>6, <1>7

\* The first request copies the object at the old name itself.
LEMMA RenameFileKeeps ==
    ASSUME NEW p \in Procs, RenameOK(p), Moving(p),
           GCSRenameFile(p) \/ AzureRenameFile(p)
    PROVE  StepKeeps(p)
<1> DEFINE src == keyFor(name(p))
<1>1. PICK err \in Errors :
        /\ CopyObject(src, keyFor(dst(p)), err)
        /\ \/ err = "none" /\ Goto(p, "renameDelete", loc[p])
           \/ Goto(p, "renameList", loc[p])
           \/ Return(p, "error")
  <2>1. CASE GCSRenameFile(p)
    BY <2>1 DEF GCSRenameFile, Errors
  <2>2. CASE AzureRenameFile(p)
    BY <2>2 DEF AzureRenameFile, Errors
  <2>. QED BY <2>1, <2>2
<1>2. src \in Keys /\ InTree(src, name(p)) /\ Rebase(src, name(p), dst(p)) = keyFor(dst(p))
  BY MovingFacts, KeyTypes, RebaseSelf DEF InTree
<1>3. Safe(p) /\ (err = "none" => CopiedNow(p, src))
  BY <1>1, <1>2, CopySafe
<1>4. CASE Return(p, "error")
  BY <1>3, <1>4, Stop
<1>5. CASE Goto(p, "renameList", loc[p])
  BY <1>3, <1>5, ListStays, GoOn
<1>6. CASE err = "none" /\ Goto(p, "renameDelete", loc[p])
  BY <1>3, <1>6, ListStays, GoOn
<1>. QED BY <1>1, <1>4, <1>5, <1>6

\* Deleting an object that was copied.
LEMMA DeleteObjectSafe ==
    ASSUME NEW p \in Procs, RenameOK(p), Moving(p),
           NEW key, InTree(key, name(p)), Copied(p, key), NEW err, DeleteObject(key, err)
    PROVE  Safe(p)
<1>1. bucket' \in {bucket, Without(bucket, {key})}
  BY DEF DeleteObject
<1>. QED BY <1>1, DeleteSafe

\* The file that was copied is deleted.
LEMMA RenameDeleteKeeps ==
    ASSUME NEW p \in Procs, RenameOK(p), Moving(p), RenameDelete(p)
    PROVE  StepKeeps(p)
<1>1. Copied(p, keyFor(name(p))) /\ InTree(keyFor(name(p)), name(p))
  BY MovingFacts DEF RenameDelete, InTree
<1>2. Safe(p)
  BY <1>1, DeleteObjectSafe DEF RenameDelete
<1>. QED BY <1>2, Stop DEF RenameDelete

\* The loop goes on.
LEMMA LoopKeeps ==
    ASSUME NEW p \in Procs, RenameOK(p), Moving(p), Safe(p), NEW l,
           \/ /\ Continue(p, "renameCopy", "renameList", l)
              /\ l.toDelete = loc[p].toDelete
           \/ Return(p, "error")
    PROVE  StepKeeps(p)
<1>1. ASSUME NEW kind, Return(p, kind) PROVE StepKeeps(p)
  BY <1>1, Stop
<1>2. ASSUME NEW label \in {"renameCopy", "renameList"}, Goto(p, label, l),
             l.toDelete = loc[p].toDelete
      PROVE  StepKeeps(p)
  BY <1>2, ListStays, GoOn
<1>. QED BY <1>1, <1>2 DEF Continue

\* A page was listed: nothing changes.
LEMMA RenameListKeeps ==
    ASSUME NEW p \in Procs, RenameOK(p), Moving(p), RenameList(p)
    PROVE  StepKeeps(p)
<1> DEFINE next == NextPage(loc[p], KeysUnder(bucket, name(p)))
<1>1. Continue(p, "renameCopy", "renameList", next) \/ Return(p, "error")
  BY DEF RenameList
<1>2. Safe(p)
  BY NothingSafe DEF RenameList, ListObjects
<1>3. KeysUnder(bucket, name(p)) \in SUBSET Keys /\ loc[p] \in Locals
  BY MovingFacts, UnderType DEF RenameOK, CallsInv
<1>4. next.toDelete = loc[p].toDelete
  BY <1>3, NextPageFacts
<1> HIDE DEF next
<1>. QED BY <1>1, <1>2, <1>4, LoopKeeps

\* The page's next object was copied, and it is the one to be deleted.
LEMMA RenameCopyKeeps ==
    ASSUME NEW p \in Procs, RenameOK(p), Moving(p), RenameCopy(p)
    PROVE  StepKeeps(p)
<1>1. PICK src \in loc[p].page, err \in Errors :
        /\ IsNext(src, loc[p].page)
        /\ CopyObject(src, Rebase(src, name(p), dst(p)), err)
        /\ \/ err = "none" /\ Goto(p, "renameObject", loc[p])
           \/ Return(p, "error")
  BY DEF RenameCopy
<1>2. src \in Keys /\ InTree(src, name(p)) /\ loc[p].page \in SUBSET Keys
  BY MovingFacts
<1>3. Safe(p) /\ (err = "none" => CopiedNow(p, src))
  BY <1>1, <1>2, CopySafe
<1>4. CASE Return(p, "error")
  BY <1>3, <1>4, Stop
<1>5. CASE err = "none" /\ Goto(p, "renameObject", loc[p])
  <2>1. Foremost(src, loc[p].page)
    BY <1>1 DEF IsNext, Foremost
  <2>2. \A k \in loc[p].page : Foremost(k, loc[p].page) => CopiedNow(p, k)
    BY <1>2, <1>3, <1>5, <2>1, OneForemost
  <2>. QED BY <1>3, <1>5, <2>2, ListStays, GoOn
<1>. QED BY <1>1, <1>4, <1>5

\* The object that was copied is deleted.
LEMMA RenameObjectKeeps ==
    ASSUME NEW p \in Procs, RenameOK(p), Moving(p), RenameObject(p)
    PROVE  StepKeeps(p)
<1>1. PICK key \in loc[p].page, err \in Errors :
        /\ IsNext(key, loc[p].page)
        /\ DeleteObject(key, err)
        /\ \/ Continue(p, "renameCopy", "renameList", [loc[p] EXCEPT !.page = @ \ {key}])
           \/ Return(p, "error")
  BY DEF RenameObject
<1> DEFINE l == [loc[p] EXCEPT !.page = @ \ {key}]
<1>2. Foremost(key, loc[p].page)
  BY <1>1 DEF IsNext, Foremost
<1>3. Copied(p, key) /\ InTree(key, name(p))
  BY <1>2, MovingFacts DEF RenameObject
<1>4. Safe(p)
  BY <1>1, <1>3, DeleteObjectSafe
<1>5. l.toDelete = loc[p].toDelete
  BY MovingFacts DEF Locals
<1>6. Continue(p, "renameCopy", "renameList", l) \/ Return(p, "error")
  BY <1>1
<1> HIDE DEF l
<1>. QED BY <1>4, <1>5, <1>6, LoopKeeps

-----------------------------------------------------------------------------
(* Every backend *)

\* A Rename in flight takes no step of another operation.
LEMMA RenameStep ==
    ASSUME NEW p \in Procs, RenameOK(p), Moving(p), Step(p)
    PROVE  StepKeeps(p)
<1>1. CASE S3Step(p)
  <2>1. \/ S3RenameFile(p) \/ S3RenameDelete(p) \/ S3RenameList(p) \/ S3RenameCopy(p)
        \/ S3RenameBatch(p)
    BY <1>1, OperationOf
       DEF RenameOK, Moving, S3Step, Mkdir, OpenRoot, S3OpenHead, OpenGet, ReaddirPage, Write,
           Close, S3RemoveFile, S3RemoveList, S3RemoveBatch, StatRoot, StatFile, StatMarker,
           StatList
  <2>. QED BY <2>1, S3RenameFileKeeps, S3RenameDeleteKeeps, S3RenameListKeeps,
              S3RenameCopyKeeps, S3RenameBatchKeeps
<1>2. CASE GCSStep(p) \/ AzureStep(p)
  <2>1. \/ GCSRenameFile(p) \/ AzureRenameFile(p) \/ RenameDelete(p) \/ RenameList(p)
        \/ RenameCopy(p) \/ RenameObject(p)
    BY <1>2, OperationOf
       DEF RenameOK, Moving, GCSStep, GCSOpenFile, GCSReaddir, GCSRemoveAll, GCSRemoveFile,
           GCSRename, GCSStat, AzureStep, AzureOpenFile, AzureRemoveAll, AzureRemoveFile,
           AzureRename, AzureStat, ReaddirPage, Mkdir, OpenRoot, OpenHead, OpenList, OpenGet, GCSOpenGet,
           Write, Close, RemoveList, RemoveObject, StatRoot, StatFile, StatMarker, StatList
  <2>. QED BY <2>1, RenameFileKeeps, RenameDeleteKeeps, RenameListKeeps, RenameCopyKeeps,
              RenameObjectKeeps
<1>. QED BY <1>1, <1>2 DEF Step

-----------------------------------------------------------------------------
(* What a Rename leaves of its old tree *)

\* Of what is no file and a directory at once, a Rename that succeeds without a fault
\* leaves nothing at the old name.
Clears(p) ==
    Ends(p, "ok") /\ faults' = 0 /\ Plain(before[p], name(p)) =>
        \A k \in DOMAIN bucket' : ~InTree(k, name(p))

SweepKeeps(p) == SweepInv(p)' /\ Clears(p)

\* What the steps of a Rename rest on.
RenameSweep(p) ==
    /\ RenameOK(p) /\ Moving(p) /\ SweepInv(p)
    /\ backend' = backend /\ (faults' = 0 => faults = 0 /\ ~Fails)

\* A copy puts nothing into the old tree.
LEMMA CopyBelow ==
    ASSUME NEW p \in Procs, RenameOK(p), Moving(p), NEW src \in Keys, InTree(src, name(p)),
           NEW err, CopyObject(src, Rebase(src, name(p), dst(p)), err)
    PROVE  /\ KeysUnder(bucket', name(p)) = KeysUnder(bucket, name(p))
           /\ keyFor(name(p)) \in DOMAIN bucket' <=> keyFor(name(p)) \in DOMAIN bucket
<1> DEFINE new == Rebase(src, name(p), dst(p))
<1>1. new \in Keys /\ InTree(new, dst(p))
  BY MovingFacts, RebaseTree
<1>2. ~InTree(new, name(p))
  BY <1>1, MovingFacts
<1>3. bucket' = bucket \/ bucket' = Store(bucket, new, bucket[src])
  BY DEF CopyObject
<1> HIDE DEF new
<1>4. DOMAIN bucket' \in {DOMAIN bucket, DOMAIN bucket \cup {new}}
  BY <1>3 DEF Store
<1>. QED BY <1>2, <1>4 DEF KeysUnder, InTree

\* The file itself was not there when the copy missed it.
LEMMA CopyMisses ==
    ASSUME NEW p \in Procs, RenameSweep(p), NEW err,
           CopyObject(keyFor(name(p)), keyFor(dst(p)), err), err # "none", faults' = 0
    PROVE  keyFor(name(p)) \notin DOMAIN bucket' \/ err = "error"
BY DEF CopyObject, RenameSweep

\* The first request, when it finds no file.
LEMMA DirectorySwept ==
    ASSUME NEW p \in Procs, RenameSweep(p), pc[p] = "renameFile", NEW err,
           CopyObject(keyFor(name(p)), keyFor(dst(p)), err), err # "none",
           NEW l, l \in {loc[p], [loc[p] EXCEPT !.err = err]}, Goto(p, "renameList", l),
           err = "error" => l.err = "error"
    PROVE  SweepKeeps(p)
<1>1. CallsInv /\ name(p) \in Paths /\ IsBucket(bucket) /\ loc[p] = Cleared
      /\ call[p].op = "Rename" /\ backend' = backend
  BY MovingFacts DEF RenameSweep, RenameOK, SweepInv, Moving
<1>2. \E e : l = [Cleared EXCEPT !.err = e]
  BY <1>1 DEF Cleared
<1>3. Swept(l, KeysUnder(bucket, name(p))) /\ l.page = {} /\ l.toDelete = {}
  BY <1>1, <1>2, BeginSwept DEF Cleared
<1>4. keyFor(name(p)) \in Keys /\ InTree(keyFor(name(p)), name(p))
      /\ Rebase(keyFor(name(p)), name(p), dst(p)) = keyFor(dst(p))
  BY MovingFacts, KeyTypes, RebaseSelf DEF InTree, RenameSweep
<1>5. KeysUnder(bucket', name(p)) = KeysUnder(bucket, name(p))
  BY <1>4, CopyBelow DEF RenameSweep
<1>6. faults' = 0 => keyFor(name(p)) \notin DOMAIN bucket' \/ l.err = "error"
  BY CopyMisses
<1>. QED BY <1>1, <1>3, <1>5, <1>6, SweepGoesOn DEF SweepKeeps, Clears, Sweeping

\* The call returns an error, or goes on to delete the file it has copied.
LEMMA RenameStops ==
    ASSUME NEW p \in Procs, RenameSweep(p),
           \/ \E kind : Return(p, kind) /\ kind # "ok"
           \/ \E l : Goto(p, "renameDelete", l)
    PROVE  SweepKeeps(p)
<1>1. CallsInv
  BY DEF RenameSweep, RenameOK
<1>2. ASSUME NEW kind, Return(p, kind), kind # "ok" PROVE SweepKeeps(p)
  BY <1>1, <1>2, SweepEnds DEF SweepKeeps, Clears
<1>3. ASSUME NEW l, Goto(p, "renameDelete", l) PROVE SweepKeeps(p)
  <2>1. pc'[p] = "renameDelete"
    BY <1>1, <1>3 DEF Goto, CallsInv, FrameTypeOK
  <2>. QED BY <2>1 DEF SweepKeeps, SweepInv, Clears, Ends, Sweeping
<1>. QED BY <1>2, <1>3

LEMMA RenameFileSweeps ==
    ASSUME NEW p \in Procs, RenameSweep(p),
           S3RenameFile(p) \/ GCSRenameFile(p) \/ AzureRenameFile(p)
    PROVE  SweepKeeps(p)
<1>1. CASE S3RenameFile(p)
  <2>1. PICK err \in {"none", "missing", "error"} :
          /\ CopyObject(keyFor(name(p)), keyFor(dst(p)), err)
          /\ Goto(p, IF err = "none" THEN "renameDelete" ELSE "renameList",
                     [loc[p] EXCEPT !.err = err])
    <3>1. CopySource(keyFor(name(p))) = keyFor(name(p))
      BY MovingFacts, KeyTypes, SourceIsKey DEF RenameSweep, RenameOK
    <3>. QED BY <1>1, <3>1 DEF S3RenameFile
  <2> DEFINE l == [loc[p] EXCEPT !.err = err]
  <2>2. l.err = err
    BY MovingFacts DEF RenameSweep, Locals
  <2>3. Goto(p, IF err = "none" THEN "renameDelete" ELSE "renameList", l)
    BY <2>1
  <2>4. l \in {loc[p], [loc[p] EXCEPT !.err = err]}
    OBVIOUS
  <2> HIDE DEF l
  <2>5. CASE err = "none"
    BY <2>3, <2>5, RenameStops
  <2>6. CASE err # "none"
    <3>1. Goto(p, "renameList", l) /\ pc[p] = "renameFile"
      BY <1>1, <2>3, <2>6 DEF S3RenameFile
    <3>. QED BY <2>1, <2>2, <2>4, <2>6, <3>1, DirectorySwept
  <2>. QED BY <2>5, <2>6
<1>2. CASE GCSRenameFile(p) \/ AzureRenameFile(p)
  <2>1. PICK err \in Errors :
          /\ CopyObject(keyFor(name(p)), keyFor(dst(p)), err)
          /\ \/ Goto(p, "renameDelete", loc[p])
             \/ err = "missing" /\ Goto(p, "renameList", loc[p])
             \/ Return(p, "error")
    <3>1. CASE GCSRenameFile(p)
      BY <3>1 DEF GCSRenameFile
    <3>2. CASE AzureRenameFile(p)
      BY <3>2 DEF AzureRenameFile
    <3>. QED BY <1>2, <3>1, <3>2
  <2>2. pc[p] = "renameFile"
    BY <1>2 DEF GCSRenameFile, AzureRenameFile
  <2>3. CASE Goto(p, "renameDelete", loc[p]) \/ Return(p, "error")
    BY <2>3, RenameStops
  <2>4. CASE err = "missing" /\ Goto(p, "renameList", loc[p])
    BY <2>1, <2>2, <2>4, DirectorySwept
  <2>. QED BY <2>1, <2>3, <2>4
<1>. QED BY <1>1, <1>2

\* The file was copied: what is no directory as well had nothing below it.
LEMMA RenameDeleteSweeps ==
    ASSUME NEW p \in Procs, RenameSweep(p), S3RenameDelete(p) \/ RenameDelete(p), Safe(p)
    PROVE  SweepKeeps(p)
<1>1. CallsInv /\ Return(p, "ok") /\ pc[p] = "renameDelete"
  BY DEF RenameSweep, RenameOK, S3RenameDelete, RenameDelete
<1>2. SweepInv(p)'
  BY <1>1, SweepEnds
<1>3. ASSUME faults' = 0, Plain(before[p], name(p)), NEW k \in DOMAIN bucket', InTree(k, name(p))
      PROVE  FALSE
  <2>1. keyFor(name(p)) \in DOMAIN before[p]
    BY <1>1, MovingFacts DEF RenameSweep, Copied
  <2>2. KeysUnder(before[p], name(p)) = {}
    BY <1>3, <2>1 DEF Plain
  <2>3. k \in DOMAIN before[p]
    BY <1>3 DEF Safe, MovedNow, SameAt
  <2>4. k = keyFor(name(p))
    BY <1>3, <2>2, <2>3 DEF InTree, KeysUnder
  <2>5. keyFor(name(p)) \notin DOMAIN bucket'
    <3>1. \/ bucket' = Without(bucket, {keyFor(name(p))})
          \/ bucket' = bucket /\ keyFor(name(p)) \notin DOMAIN bucket
      BY <1>3 DEF RenameSweep, S3RenameDelete, RenameDelete, DeleteObject
    <3>. QED BY <3>1 DEF Without
  <2>. QED BY <1>3, <2>4, <2>5
<1>. QED BY <1>2, <1>3 DEF SweepKeeps, Clears

\* What the loops over the listing rest on.
LEMMA SweepFacts ==
    ASSUME NEW p \in Procs, RenameSweep(p), pc[p] \in Sweeping
    PROVE  /\ CallsInv /\ backend' = backend /\ call[p].op = "Rename"
           /\ loc[p] \in Locals
           /\ Swept(loc[p], KeysUnder(bucket, name(p)))
           /\ backend # "s3" => loc[p].toDelete = {}
           /\ pc[p] = "renameList" => loc[p].page = {}
           /\ pc[p] = "renameBatch" => loc[p].page = {} /\ ~loc[p].more /\ loc[p].toDelete # {}
           /\ faults' = 0 => keyFor(name(p)) \notin DOMAIN bucket \/ loc[p].err = "error"
BY MovingFacts DEF RenameSweep, RenameOK, Moving, SweepInv

\* The loop on Amazon S3.
LEMMA S3LoopSweeps ==
    ASSUME NEW p \in Procs, RenameSweep(p), backend = "s3", NEW l \in Locals,
           S3RenameLoop(p, l), Swept(l, KeysUnder(bucket', name(p))),
           faults' = 0 => keyFor(name(p)) \notin DOMAIN bucket' \/ l.err = "error"
    PROVE  SweepKeeps(p)
<1>1. CallsInv /\ backend' = backend /\ call[p].op = "Rename" /\ l.err # "ok"
  BY DEF RenameSweep, RenameOK, Moving, Locals
<1>2. ASSUME NEW label \in {"renameCopy", "renameList", "renameBatch"}, Goto(p, label, l),
             label = "renameList" => l.page = {},
             label = "renameBatch" => l.page = {} /\ ~l.more /\ l.toDelete # {}
      PROVE  SweepKeeps(p)
  <2>1. label \in Sweeping
    BY DEF Sweeping
  <2>. QED BY <1>1, <1>2, <2>1, SweepGoesOn DEF SweepKeeps, Clears
<1>3. CASE Return(p, l.err)
  BY <1>1, <1>3, RenameStops
<1>. QED BY <1>2, <1>3 DEF S3RenameLoop

\* The loop on Google Cloud Storage and Azure.
LEMMA LoopSweeps ==
    ASSUME NEW p \in Procs, RenameSweep(p), NEW l,
           Continue(p, "renameCopy", "renameList", l), l.toDelete = {},
           Swept(l, KeysUnder(bucket', name(p))),
           faults' = 0 => keyFor(name(p)) \notin DOMAIN bucket' \/ l.err = "error"
    PROVE  SweepKeeps(p)
<1>1. CallsInv /\ backend' = backend /\ call[p].op = "Rename"
  BY DEF RenameSweep, RenameOK, Moving
<1>2. /\ SweepInv(p)'
      /\ Ends(p, "ok") => l.err # "error" /\ KeysUnder(bucket', name(p)) = {}
  BY <1>1, SweepContinues
<1>. QED BY <1>2 DEF SweepKeeps, Clears, InTree, KeysUnder

\* A page was listed.
LEMMA RenameListSweeps ==
    ASSUME NEW p \in Procs, RenameSweep(p),
           (backend = "s3" /\ S3RenameList(p)) \/ (backend # "s3" /\ RenameList(p))
    PROVE  SweepKeeps(p)
<1> DEFINE K == KeysUnder(bucket, name(p))
           next == NextPage(loc[p], K)
<1>1. /\ pc[p] = "renameList" /\ bucket' = bucket
      /\ \/ Return(p, "error")
         \/ backend = "s3" /\ S3RenameLoop(p, next)
         \/ backend # "s3" /\ Continue(p, "renameCopy", "renameList", next)
  BY DEF S3RenameList, RenameList, ListObjects
<1>2. pc[p] \in Sweeping /\ IsBucket(bucket)
  BY <1>1, MovingFacts DEF Sweeping, RenameSweep
<1>3. /\ next \in Locals /\ Swept(next, K)
      /\ next.toDelete = loc[p].toDelete /\ next.err = loc[p].err
  BY <1>1, <1>2, SweepFacts, PageSwept
<1> HIDE DEF next
<1>4. /\ Swept(next, KeysUnder(bucket', name(p)))
      /\ backend # "s3" => next.toDelete = {}
      /\ faults' = 0 => keyFor(name(p)) \notin DOMAIN bucket' \/ next.err = "error"
  BY <1>1, <1>2, <1>3, SweepFacts
<1>5. CASE Return(p, "error")
  BY <1>5, RenameStops
<1>6. CASE backend = "s3" /\ S3RenameLoop(p, next)
  BY <1>3, <1>4, <1>6, S3LoopSweeps
<1>7. CASE backend # "s3" /\ Continue(p, "renameCopy", "renameList", next)
  BY <1>4, <1>7, LoopSweeps
<1>. QED BY <1>1, <1>5, <1>6, <1>7

\* An object was copied and put on the list of those to be deleted.
LEMMA S3RenameCopySweeps ==
    ASSUME NEW p \in Procs, RenameSweep(p), backend = "s3", S3RenameCopy(p)
    PROVE  SweepKeeps(p)
<1>1. PICK src \in loc[p].page, err \in {"none", "missing", "error"} :
        /\ CopyObject(src, Rebase(src, name(p), dst(p)), err)
        /\ \/ S3RenameLoop(p, [loc[p] EXCEPT !.page = @ \ {src}, !.toDelete = @ \cup {src}])
           \/ Return(p, "error")
  <2>1. \A src \in loc[p].page : CopySource(src) = src
    BY MovingFacts, SourceIsKey DEF RenameSweep, RenameOK
  <2>. QED BY <2>1 DEF S3RenameCopy
<1> DEFINE l == [loc[p] EXCEPT !.page = @ \ {src}, !.toDelete = @ \cup {src}]
<1>2. pc[p] \in Sweeping
  BY DEF S3RenameCopy, Sweeping
<1>3. src \in Keys /\ InTree(src, name(p)) /\ loc[p] \in Locals
  BY MovingFacts DEF RenameSweep
<1>4. /\ l \in Locals /\ l.page = loc[p].page \ {src} /\ l.toDelete = loc[p].toDelete \cup {src}
      /\ l.more = loc[p].more /\ l.token = loc[p].token /\ l.err = loc[p].err
  BY <1>3 DEF Locals
<1>5. S3RenameLoop(p, l) \/ Return(p, "error")
  BY <1>1
<1> HIDE DEF l
<1>6. /\ KeysUnder(bucket', name(p)) = KeysUnder(bucket, name(p))
      /\ keyFor(name(p)) \in DOMAIN bucket' <=> keyFor(name(p)) \in DOMAIN bucket
  BY <1>1, <1>3, CopyBelow DEF RenameSweep
<1>7. Swept(l, KeysUnder(bucket', name(p)))
  BY <1>2, <1>4, <1>6, SweepFacts DEF Swept
<1>8. faults' = 0 => keyFor(name(p)) \notin DOMAIN bucket' \/ l.err = "error"
  BY <1>2, <1>4, <1>6, SweepFacts
<1>9. CASE Return(p, "error")
  BY <1>9, RenameStops
<1>10. CASE S3RenameLoop(p, l)
  BY <1>4, <1>7, <1>8, <1>10, S3LoopSweeps
<1>. QED BY <1>5, <1>9, <1>10

\* The batch delete deletes all that is left: a file with the name would have made the
\* name a file and a directory at once.
LEMMA S3RenameBatchSweeps ==
    ASSUME NEW p \in Procs, RenameSweep(p), S3RenameBatch(p)
    PROVE  SweepKeeps(p)
<1>1. PICK ok \in BOOLEAN :
        DeleteObjects(loc[p].toDelete, ok) /\ Return(p, IF ok THEN "ok" ELSE "error")
  BY DEF S3RenameBatch
<1>2. CallsInv /\ pc[p] = "renameBatch" /\ pc[p] \in Sweeping
  BY DEF RenameSweep, RenameOK, S3RenameBatch, Sweeping
<1>3. SweepInv(p)' /\ (Ends(p, "ok") => ok)
  BY <1>1, <1>2, SweepEnds
<1>4. ASSUME ok, faults' = 0, Plain(before[p], name(p)),
             NEW k \in DOMAIN bucket', InTree(k, name(p))
      PROVE  FALSE
  <2>1. bucket' = Without(bucket, loc[p].toDelete)
    BY <1>1, <1>4 DEF DeleteObjects, RenameSweep
  <2>2. k \in DOMAIN bucket /\ k \notin loc[p].toDelete
    BY <1>4, <2>1 DEF Without
  <2>3. k \notin KeysUnder(bucket, name(p))
    BY <1>2, <2>2, SweepFacts DEF Swept
  <2>4. k = keyFor(name(p))
    BY <1>4, <2>2, <2>3 DEF InTree, KeysUnder
  <2>5. k \in DOMAIN before[p]
    BY <1>4, <2>2, MovingFacts DEF RenameSweep, SameAt
  <2>6. PICK j \in loc[p].toDelete : TRUE
    BY <1>2, SweepFacts
  <2>7. j \in DOMAIN before[p] /\ IsUnder(j, name(p))
    BY <1>2, <2>6, MovingFacts DEF RenameSweep, Copied, CallsInv, Scope, ScopeOf
  <2>. QED BY <1>4, <2>4, <2>5, <2>7 DEF Plain, KeysUnder
<1>. QED BY <1>3, <1>4 DEF SweepKeeps, Clears

\* An object was copied and is deleted next.
LEMMA RenameCopySweeps ==
    ASSUME NEW p \in Procs, RenameSweep(p), backend # "s3", RenameCopy(p)
    PROVE  SweepKeeps(p)
<1>1. PICK src \in loc[p].page, err \in Errors :
        /\ CopyObject(src, Rebase(src, name(p), dst(p)), err)
        /\ Goto(p, "renameObject", loc[p]) \/ Return(p, "error")
  BY DEF RenameCopy
<1>2. pc[p] \in Sweeping /\ "renameObject" \in Sweeping
  BY DEF RenameCopy, Sweeping
<1>3. src \in Keys /\ InTree(src, name(p))
  BY MovingFacts DEF RenameSweep
<1>4. /\ KeysUnder(bucket', name(p)) = KeysUnder(bucket, name(p))
      /\ keyFor(name(p)) \in DOMAIN bucket' <=> keyFor(name(p)) \in DOMAIN bucket
  BY <1>1, <1>3, CopyBelow DEF RenameSweep
<1>5. CASE Return(p, "error")
  BY <1>5, RenameStops
<1>6. CASE Goto(p, "renameObject", loc[p])
  BY <1>2, <1>4, <1>6, SweepFacts, SweepGoesOn DEF SweepKeeps, Clears
<1>. QED BY <1>1, <1>5, <1>6

\* An object that was copied is deleted.
LEMMA RenameObjectSweeps ==
    ASSUME NEW p \in Procs, RenameSweep(p), backend # "s3", RenameObject(p)
    PROVE  SweepKeeps(p)
<1>1. PICK key \in loc[p].page, err \in Errors :
        /\ DeleteObject(key, err)
        /\ IF err = "none"
           THEN Continue(p, "renameCopy", "renameList", [loc[p] EXCEPT !.page = @ \ {key}])
           ELSE Return(p, "error")
  BY DEF RenameObject
<1> DEFINE l == [loc[p] EXCEPT !.page = @ \ {key}]
<1>2. CASE err # "none"
  BY <1>1, <1>2, RenameStops
<1>3. CASE err = "none"
  <2>1. bucket' = Without(bucket, {key})
    BY <1>1, <1>3 DEF DeleteObject
  <2>2. Continue(p, "renameCopy", "renameList", l)
    BY <1>1, <1>3
  <2>3. pc[p] \in Sweeping /\ loc[p] \in Locals
    BY MovingFacts DEF RenameSweep, RenameObject, Sweeping
  <2>4. /\ l.page = loc[p].page \ {key} /\ l.toDelete = loc[p].toDelete
        /\ l.more = loc[p].more /\ l.token = loc[p].token /\ l.err = loc[p].err
    BY <2>3 DEF Locals
  <2> HIDE DEF l
  <2>5. /\ KeysUnder(bucket', name(p)) = KeysUnder(bucket, name(p)) \ {key}
        /\ DOMAIN bucket' \subseteq DOMAIN bucket
    BY <2>1 DEF Without, KeysUnder
  <2>6. Swept(l, KeysUnder(bucket', name(p)))
    BY <2>3, <2>4, <2>5, SweepFacts DEF Swept
  <2>7. /\ l.toDelete = {}
        /\ faults' = 0 => keyFor(name(p)) \notin DOMAIN bucket' \/ l.err = "error"
    BY <2>3, <2>4, <2>5, SweepFacts
  <2>. QED BY <2>2, <2>6, <2>7, LoopSweeps
<1>. QED BY <1>2, <1>3

\* Every step of a Rename.
LEMMA RenameStepSweeps ==
    ASSUME NEW p \in Procs, RenameOK(p), Moving(p), SweepInv(p), Step(p)
    PROVE  SweepKeeps(p)
<1>1. RenameSweep(p)
  BY NoFault DEF RenameSweep, RenameOK, CallsInv, Step, Stay
<1>2. Safe(p)
  BY RenameStep DEF StepKeeps
<1>3. CASE backend = "s3" /\ S3Step(p)
  <2>1. \/ S3RenameFile(p) \/ S3RenameDelete(p) \/ S3RenameList(p) \/ S3RenameCopy(p)
        \/ S3RenameBatch(p)
    BY <1>3, OperationOf
       DEF RenameOK, Moving, S3Step, Mkdir, OpenRoot, S3OpenHead, OpenGet, ReaddirPage, Write,
           Close, S3RemoveFile, S3RemoveList, S3RemoveBatch, StatRoot, StatFile, StatMarker,
           StatList
  <2>2. CASE S3RenameFile(p) \/ S3RenameDelete(p)
    BY <1>1, <1>2, <2>2, RenameFileSweeps, RenameDeleteSweeps
  <2>3. CASE S3RenameList(p)
    BY <1>1, <1>3, <2>3, RenameListSweeps
  <2>4. CASE S3RenameCopy(p) \/ S3RenameBatch(p)
    BY <1>1, <1>3, <2>4, S3RenameCopySweeps, S3RenameBatchSweeps
  <2>. QED BY <2>1, <2>2, <2>3, <2>4
<1>4. CASE backend # "s3" /\ (GCSStep(p) \/ AzureStep(p))
  <2>1. \/ GCSRenameFile(p) \/ AzureRenameFile(p) \/ RenameDelete(p) \/ RenameList(p)
        \/ RenameCopy(p) \/ RenameObject(p)
    BY <1>4, OperationOf
       DEF RenameOK, Moving, GCSStep, GCSOpenFile, GCSReaddir, GCSRemoveAll, GCSRemoveFile,
           GCSRename, GCSStat, AzureStep, AzureOpenFile, AzureRemoveAll, AzureRemoveFile,
           AzureRename, AzureStat, ReaddirPage, Mkdir, OpenRoot, OpenHead, OpenList, OpenGet, GCSOpenGet,
           Write, Close, RemoveList, RemoveObject, StatRoot, StatFile, StatMarker, StatList
  <2>. QED BY <1>1, <1>2, <1>4, <2>1, RenameFileSweeps, RenameDeleteSweeps, RenameListSweeps,
              RenameCopySweeps, RenameObjectSweeps
<1>. QED BY <1>3, <1>4 DEF Step

-----------------------------------------------------------------------------
(* The steps of the others *)

\* Nobody has changed the two trees.
LeftAlone(p) ==
    \A k : InTree(k, name(p)) \/ InTree(k, dst(p)) => SameAt(bucket, bucket', k)

\* A step of another call, or of none, that leaves the trees alone.
LEMMA OthersKeep ==
    ASSUME NEW p \in Procs, RenameOK(p), Moving(p), LeftAlone(p),
           pc'[p] = pc[p], loc'[p] = loc[p], call'[p] = call[p], before'[p] = before[p]
    PROVE  MovedNow(p) /\ RenameInv(p)'
<1>1. ASSUME NEW k, InTree(k, name(p)), Copied(p, k) PROVE CopiedNow(p, k)
  <2>1. k \in Keys
    BY <1>1, MovingFacts DEF Copied, IsBucket
  <2>2. InTree(Rebase(k, name(p), dst(p)), dst(p))
    BY <1>1, <2>1, MovingFacts, RebaseTree
  <2>. QED BY <1>1, <2>2 DEF LeftAlone, Copied, CopiedNow, SameAt
<1>2. MovedNow(p)
  BY <1>1, MovingFacts DEF LeftAlone, MovedNow, SameAt
<1>3. \A k \in loc[p].toDelete : CopiedNow(p, k)
  BY <1>1, MovingFacts
<1>4. pc[p] = "renameDelete" => CopiedNow(p, keyFor(name(p)))
  BY <1>1, MovingFacts DEF InTree
<1>5. pc[p] = "renameObject" =>
          \A k \in loc[p].page : Foremost(k, loc[p].page) => CopiedNow(p, k)
  BY <1>1, MovingFacts
<1>6. RenameInv(p)'
  BY <1>2, <1>3, <1>4, <1>5 DEF RenameInv, MovedNow, CopiedNow, Copied, name, dst
<1>. QED BY <1>2, <1>6

\* A Rename that begins has copied and deleted nothing.
LEMMA BeginRename ==
    ASSUME CallsInv, NEW q \in Procs, NEW c \in Calls, Begin(q, c),
           \A p \in Procs : RenameInv(p)
    PROVE  \A p \in Procs : RenameInv(p)'
<1>1. /\ pc' = [pc EXCEPT ![q] = FirstStep[c.op]] /\ call' = [call EXCEPT ![q] = c]
      /\ before' = [before EXCEPT ![q] = bucket] /\ UNCHANGED <<bucket, loc>>
      /\ pc[q] = "idle"
  BY DEF Begin
<1>2. /\ DOMAIN pc = Procs /\ DOMAIN call = Procs /\ DOMAIN before = Procs
      /\ loc[q].page = {} /\ loc[q].toDelete = {}
  BY <1>1 DEF CallsInv, FrameTypeOK, Scope, ScopeOf, Cleared
<1>3. RenameInv(q)'
  <2>1. pc'[q] = FirstStep[c.op] /\ call'[q] = c /\ before'[q] = bucket
    BY <1>1, <1>2
  <2>2. c.op = "Rename" => pc'[q] \notin {"renameDelete", "renameObject"}
    BY <2>1 DEF FirstStep
  <2>. QED BY <1>1, <1>2, <2>1, <2>2, SameFacts DEF RenameInv, Moving
<1>4. ASSUME NEW p \in Procs \ {q} PROVE RenameInv(p)'
  BY <1>1, <1>2 DEF RenameInv, Moving, Copied, name, dst
<1>. QED BY <1>3, <1>4
=============================================================================
