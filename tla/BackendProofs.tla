---------------------------- MODULE BackendProofs ----------------------------
(***************************************************************************)
(* Every step of every backend keeps the invariant of the calls and        *)
(* touches no object outside the paths its call was made with.             *)
(***************************************************************************)
EXTENDS Backends, FileSystemProofs, FileSystemProperties

-----------------------------------------------------------------------------
(* Amazon S3: one lemma per action *)

LEMMA S3OpenHeadFine == ASSUME CallsInv, NEW p \in Procs, S3OpenHead(p) PROVE Fine(p)
<1>1. PICK dir \in BOOLEAN :
        /\ HeadObject(dirKeyFor(name(p)), dir)
        /\ \/ Return(p, "isDir") \/ Return(p, "dir")
           \/ call[p].op = "Read" /\ Goto(p, "readdir", loc[p])
           \/ call[p].op = "Put" /\ Goto(p, "write", loc[p])
           \/ call[p].op \in {"Read", "Open"} /\ Goto(p, "get", loc[p])
  BY DEF S3OpenHead
<1>2. pc[p] # "idle" /\ loc[p] \in Locals
  BY OperationOf DEF S3OpenHead
<1>3. StoreTypeOK' /\ \A k : SameAt(bucket, bucket', k)
  BY <1>1, HeadFacts DEF CallsInv
<1>4. \A k \in loc[p].page \cup loc[p].toDelete : IsUnder(k, name(p))
  BY DEF CallsInv, Scope, ScopeOf
<1>5. CASE Return(p, "isDir") \/ Return(p, "dir")
  BY <1>3, <1>5, ReturnFine DEF Return, Kinds
<1>6. CASE call[p].op = "Read" /\ Goto(p, "readdir", loc[p])
  <2>1. "readdir" \in LabelsOf(call[p].op)
    BY <1>6 DEF LabelsOf
  <2>2. QED
    BY <1>2, <1>3, <1>4, <1>6, <2>1, GotoFine
<1>7. CASE call[p].op = "Put" /\ Goto(p, "write", loc[p])
  <2>1. "write" \in LabelsOf(call[p].op)
    BY <1>7 DEF LabelsOf
  <2>2. QED
    BY <1>2, <1>3, <1>4, <1>7, <2>1, GotoFine
<1>8. CASE call[p].op \in {"Read", "Open"} /\ Goto(p, "get", loc[p])
  <2>1. "get" \in LabelsOf(call[p].op)
    BY <1>8 DEF LabelsOf
  <2>2. QED
    BY <1>2, <1>3, <1>4, <1>8, <2>1, GotoFine
<1>9. QED
  BY <1>1, <1>5, <1>6, <1>7, <1>8

LEMMA S3RemoveFileFine == ASSUME CallsInv, NEW p \in Procs, S3RemoveFile(p) PROVE Fine(p)
<1>1. PICK err \in {"none", "error"} : Goto(p, "removeList", [loc[p] EXCEPT !.err = err])
  BY DEF S3RemoveFile
<1> DEFINE locals == [loc[p] EXCEPT !.err = err]
<1>2. pc[p] # "idle" /\ loc[p] \in Locals /\ call[p].op = "RemoveAll"
  BY OperationOf DEF S3RemoveFile
<1>3. /\ StoreTypeOK'
      /\ \A k : ~SameAt(bucket, bucket', k) => k = keyFor(name(p))
  BY DeleteFileFacts DEF S3RemoveFile, CallsInv
<1>4. locals \in Locals /\ locals.page = loc[p].page /\ locals.toDelete = loc[p].toDelete
  BY <1>2 DEF Locals
<1>5. Goto(p, "removeList", locals)
  BY <1>1
<1> HIDE DEF locals
<1>6. \A k \in locals.page \cup locals.toDelete : IsUnder(k, name(p))
  BY <1>4 DEF CallsInv, Scope, ScopeOf
<1>7. \A k : ~SameAt(bucket, bucket', k) => Footprint(call[p], k)
  BY <1>2, <1>3 DEF Footprint, InTree, name
<1>8. "removeList" \in LabelsOf(call[p].op)
  BY <1>2 DEF LabelsOf
<1>9. QED
  BY <1>2, <1>3, <1>4, <1>5, <1>6, <1>7, <1>8, GotoFine

LEMMA S3RemoveListFine == ASSUME CallsInv, NEW p \in Procs, S3RemoveList(p) PROVE Fine(p)
<1> DEFINE next == NextPage(loc[p], KeysUnder(bucket, name(p)))
           locals == [next EXCEPT !.toDelete = next.toDelete \cup next.page, !.page = {}]
<1>1. PICK ok \in BOOLEAN :
        /\ ListObjects(ok)
        /\ \/ \E kind \in Kinds : Return(p, kind)
           \/ \E label \in {"removeList", "removeBatch"} : Goto(p, label, locals)
  BY DEF S3RemoveList, Kinds
<1>2. pc[p] # "idle" /\ loc[p] \in Locals /\ call[p].op = "RemoveAll"
  BY OperationOf DEF S3RemoveList
<1>3. StoreTypeOK' /\ \A k : SameAt(bucket, bucket', k)
  BY <1>1, ListFacts DEF CallsInv
<1>4. KeysUnder(bucket, name(p)) \in SUBSET Keys
  BY UnderType DEF CallsInv
<1>5. /\ next \in Locals /\ next.page \subseteq KeysUnder(bucket, name(p))
      /\ next.toDelete = loc[p].toDelete
  BY <1>2, <1>4, NextPageFacts
<1> HIDE DEF next
<1>6. /\ locals \in Locals /\ locals.page = {}
      /\ locals.toDelete = next.toDelete \cup next.page
  BY <1>5 DEF Locals
<1> HIDE DEF locals
<1>7. \A k \in locals.page \cup locals.toDelete : IsUnder(k, name(p))
  BY <1>5, <1>6 DEF CallsInv, Scope, ScopeOf, KeysUnder
<1>8. CASE \E kind \in Kinds : Return(p, kind)
  BY <1>3, <1>8, ReturnFine DEF Return
<1>9. CASE \E label \in {"removeList", "removeBatch"} : Goto(p, label, locals)
  <2>1. {"removeList", "removeBatch"} \subseteq LabelsOf(call[p].op)
    BY <1>2 DEF LabelsOf
  <2>2. QED
    BY <1>2, <1>3, <1>6, <1>7, <1>9, <2>1, GotoFine
<1>10. QED
  BY <1>1, <1>8, <1>9

LEMMA S3RemoveBatchFine == ASSUME CallsInv, NEW p \in Procs, S3RemoveBatch(p) PROVE Fine(p)
<1>1. PICK ok \in BOOLEAN, kind \in Kinds :
        DeleteObjects(loc[p].toDelete, ok) /\ Return(p, kind)
  BY DEF S3RemoveBatch, Kinds
<1>2. pc[p] # "idle" /\ call[p].op = "RemoveAll"
  BY OperationOf DEF S3RemoveBatch
<1>3. /\ StoreTypeOK'
      /\ \A k : ~SameAt(bucket, bucket', k) => k \in loc[p].toDelete
  BY <1>1, DeleteFacts DEF CallsInv
<1>4. \A k : ~SameAt(bucket, bucket', k) => Footprint(call[p], k)
  BY <1>2, <1>3 DEF CallsInv, Scope, ScopeOf, Footprint, InTree, name
<1>5. QED
  BY <1>1, <1>3, <1>4, ReturnFine DEF Return

LEMMA S3RenameFileFine == ASSUME CallsInv, NEW p \in Procs, S3RenameFile(p) PROVE Fine(p)
<1>1. PICK err \in {"none", "missing", "error"}, label \in {"renameDelete", "renameList"} :
        /\ CopyObject(CopySource(keyFor(name(p))), keyFor(dst(p)), err)
        /\ Goto(p, label, [loc[p] EXCEPT !.err = err])
  BY DEF S3RenameFile
<1> DEFINE locals == [loc[p] EXCEPT !.err = err]
<1>2. /\ pc[p] # "idle" /\ loc[p] \in Locals /\ call[p].op = "Rename"
      /\ dst(p) \in Paths
  BY OperationOf DEF S3RenameFile
<1>3. /\ StoreTypeOK'
      /\ \A k : ~SameAt(bucket, bucket', k) => k = keyFor(dst(p))
  BY <1>1, <1>2, KeyTypes, CopyFacts DEF CallsInv
<1>4. locals \in Locals /\ locals.page = loc[p].page /\ locals.toDelete = loc[p].toDelete
  BY <1>2 DEF Locals
<1>5. Goto(p, label, locals)
  BY <1>1
<1> HIDE DEF locals
<1>6. \A k \in locals.page \cup locals.toDelete : IsUnder(k, name(p))
  BY <1>4 DEF CallsInv, Scope, ScopeOf
<1>7. \A k : ~SameAt(bucket, bucket', k) => Footprint(call[p], k)
  BY <1>2, <1>3 DEF Footprint, InTree, dst
<1>8. label \in LabelsOf(call[p].op)
  BY <1>2 DEF LabelsOf
<1>9. QED
  BY <1>2, <1>3, <1>4, <1>5, <1>6, <1>7, <1>8, GotoFine

LEMMA S3RenameDeleteFine == ASSUME CallsInv, NEW p \in Procs, S3RenameDelete(p) PROVE Fine(p)
<1>1. pc[p] # "idle" /\ call[p].op = "Rename"
  BY OperationOf DEF S3RenameDelete
<1>2. /\ StoreTypeOK'
      /\ \A k : ~SameAt(bucket, bucket', k) => k = keyFor(name(p))
  BY DeleteFileFacts DEF S3RenameDelete, CallsInv
<1>3. \A k : ~SameAt(bucket, bucket', k) => Footprint(call[p], k)
  BY <1>1, <1>2 DEF Footprint, InTree, name
<1>4. QED
  BY <1>2, <1>3, ReturnFine DEF S3RenameDelete, Return, Kinds

\* The loop of Rename keeps what it is given below the name.
LEMMA S3RenameLoopFine ==
    ASSUME CallsInv, NEW p \in Procs, StoreTypeOK', pc[p] # "idle", call[p].op = "Rename",
           NEW l \in Locals, S3RenameLoop(p, l),
           \A k \in l.page \cup l.toDelete : IsUnder(k, name(p)),
           \A k : ~SameAt(bucket, bucket', k) => Footprint(call[p], k)
    PROVE  Fine(p)
<1>1. CASE \E label \in {"renameCopy", "renameList", "renameBatch"} : Goto(p, label, l)
  <2>1. {"renameCopy", "renameList", "renameBatch"} \subseteq LabelsOf(call[p].op)
    BY DEF LabelsOf
  <2>2. QED
    BY <1>1, <2>1, GotoFine
<1>2. CASE Return(p, l.err)
  <2>1. l.err \in Kinds
    BY DEF Locals, Kinds
  <2>2. QED
    BY <1>2, <2>1, ReturnFine DEF Return
<1>3. QED
  BY <1>1, <1>2 DEF S3RenameLoop

LEMMA S3RenameListFine == ASSUME CallsInv, NEW p \in Procs, S3RenameList(p) PROVE Fine(p)
<1> DEFINE next == NextPage(loc[p], KeysUnder(bucket, name(p)))
<1>1. PICK ok \in BOOLEAN :
        ListObjects(ok) /\ (S3RenameLoop(p, next) \/ Return(p, "error"))
  BY DEF S3RenameList
<1>2. pc[p] # "idle" /\ loc[p] \in Locals /\ call[p].op = "Rename"
  BY OperationOf DEF S3RenameList
<1>3. StoreTypeOK' /\ \A k : SameAt(bucket, bucket', k)
  BY <1>1, ListFacts DEF CallsInv
<1>4. KeysUnder(bucket, name(p)) \in SUBSET Keys
  BY UnderType DEF CallsInv
<1>5. /\ next \in Locals /\ next.page \subseteq KeysUnder(bucket, name(p))
      /\ next.toDelete = loc[p].toDelete
  BY <1>2, <1>4, NextPageFacts
<1> HIDE DEF next
<1>6. \A k \in next.page \cup next.toDelete : IsUnder(k, name(p))
  BY <1>5 DEF CallsInv, Scope, ScopeOf, KeysUnder
<1>7. CASE S3RenameLoop(p, next)
  BY <1>2, <1>3, <1>5, <1>6, <1>7, S3RenameLoopFine
<1>8. CASE Return(p, "error")
  BY <1>3, <1>8, ReturnFine DEF Return, Kinds
<1>9. QED
  BY <1>1, <1>7, <1>8

LEMMA S3RenameCopyFine == ASSUME CallsInv, NEW p \in Procs, S3RenameCopy(p) PROVE Fine(p)
<1>1. PICK src \in loc[p].page, err \in {"none", "missing", "error"} :
        /\ CopyObject(CopySource(src), Rebase(src, name(p), dst(p)), err)
        /\ \/ S3RenameLoop(p, [loc[p] EXCEPT !.page = @ \ {src}, !.toDelete = @ \cup {src}])
           \/ Return(p, "error")
  BY DEF S3RenameCopy
<1> DEFINE locals == [loc[p] EXCEPT !.page = @ \ {src}, !.toDelete = @ \cup {src}]
           new == Rebase(src, name(p), dst(p))
<1>2. /\ pc[p] # "idle" /\ loc[p] \in Locals /\ call[p].op = "Rename"
      /\ name(p) \in Paths /\ dst(p) \in Paths
  BY OperationOf DEF S3RenameCopy
<1>3. src \in Keys /\ IsUnder(src, name(p))
  BY <1>2 DEF CallsInv, Scope, ScopeOf, Locals
<1>4. new \in Keys /\ IsUnder(new, dst(p))
  BY <1>2, <1>3, RebaseType, RebaseUnder
<1>5. StoreTypeOK' /\ \A k : ~SameAt(bucket, bucket', k) => k = new
  BY <1>1, <1>4, CopyFacts DEF CallsInv
<1>6. \A k : ~SameAt(bucket, bucket', k) => Footprint(call[p], k)
  BY <1>2, <1>4, <1>5 DEF Footprint, InTree, dst
<1>7. /\ locals \in Locals
      /\ locals.page = loc[p].page \ {src} /\ locals.toDelete = loc[p].toDelete \cup {src}
  BY <1>2, <1>3 DEF Locals
<1>8. S3RenameLoop(p, locals) \/ Return(p, "error")
  BY <1>1
<1> HIDE DEF locals
<1>9. \A k \in locals.page \cup locals.toDelete : IsUnder(k, name(p))
  BY <1>3, <1>7 DEF CallsInv, Scope, ScopeOf
<1>10. CASE S3RenameLoop(p, locals)
  BY <1>2, <1>5, <1>6, <1>7, <1>9, <1>10, S3RenameLoopFine
<1>11. CASE Return(p, "error")
  BY <1>5, <1>6, <1>11, ReturnFine DEF Return, Kinds
<1>12. QED
  BY <1>8, <1>10, <1>11

LEMMA S3RenameBatchFine == ASSUME CallsInv, NEW p \in Procs, S3RenameBatch(p) PROVE Fine(p)
<1>1. PICK ok \in BOOLEAN, kind \in Kinds :
        DeleteObjects(loc[p].toDelete, ok) /\ Return(p, kind)
  BY DEF S3RenameBatch, Kinds
<1>2. pc[p] # "idle" /\ call[p].op = "Rename"
  BY OperationOf DEF S3RenameBatch
<1>3. /\ StoreTypeOK'
      /\ \A k : ~SameAt(bucket, bucket', k) => k \in loc[p].toDelete
  BY <1>1, DeleteFacts DEF CallsInv
<1>4. \A k : ~SameAt(bucket, bucket', k) => Footprint(call[p], k)
  BY <1>2, <1>3 DEF CallsInv, Scope, ScopeOf, Footprint, InTree, name
<1>5. QED
  BY <1>1, <1>3, <1>4, ReturnFine DEF Return

-----------------------------------------------------------------------------
(* Google Cloud Storage and Azure *)

LEMMA GCSReaddirFine == ASSUME CallsInv, NEW p \in Procs, GCSReaddir(p) PROVE Fine(p)
<1> DEFINE S == {Entry(k, name(p)) : k \in Listed(name(p))}
           next == NextPage(loc[p], S)
           entries == next.entries \cup GCSEntries(name(p), next.page, next.entries)
<1>1. PICK ok \in BOOLEAN :
        /\ ListObjects(ok)
        /\ \/ Return(p, "error")
           \/ Goto(p, "readdir", [next EXCEPT !.entries = entries, !.page = {}])
           \/ ReturnWith(p, "dir", entries)
  BY DEF GCSReaddir
<1>2. loc[p] \in Locals /\ name(p) \in Paths /\ pc[p] = "readdir"
  BY OperationOf DEF GCSReaddir
<1>3. S \in SUBSET Keys
  BY <1>2, ListedType
<1> HIDE DEF S
<1>4. next \in Locals /\ next.page \in SUBSET Keys /\ next.toDelete = loc[p].toDelete
  BY <1>2, <1>3, NextPageFacts
<1> HIDE DEF next
<1>5. entries \in SUBSET Keys
  BY <1>4 DEF Locals, GCSEntries
<1> HIDE DEF entries
<1>. QED
  BY <1>1, <1>2, <1>4, <1>5, ReaddirFine

\* Deleting an object, or failing to.
LEMMA DeleteObjectFacts ==
    ASSUME StoreTypeOK, NEW key, NEW err, DeleteObject(key, err)
    PROVE  /\ StoreTypeOK'
           /\ \A k : ~SameAt(bucket, bucket', k) => k = key
BY DeleteFileFacts DEF DeleteObject

LEMMA RemoveFileFine ==
    ASSUME CallsInv, NEW p \in Procs, GCSRemoveFile(p) \/ AzureRemoveFile(p)
    PROVE  Fine(p)
<1>1. PICK err \in Errors, kept \in Errors :
        /\ pc[p] = "removeFile"
        /\ DeleteObject(keyFor(name(p)), err)
        /\ Goto(p, "removeList", [loc[p] EXCEPT !.err = kept])
  <2>1. CASE GCSRemoveFile(p)
    <3>1. PICK err \in Errors :
            DeleteObject(keyFor(name(p)), err) /\ Goto(p, "removeList", loc[p])
      BY <2>1 DEF GCSRemoveFile, Errors
    <3>2. pc[p] = "removeFile"
      BY <2>1 DEF GCSRemoveFile
    <3>3. loc[p].err \in Errors /\ loc[p] = [loc[p] EXCEPT !.err = loc[p].err]
      BY <3>2, OperationOf DEF Locals, Errors
    <3>. QED BY <3>1, <3>2, <3>3
  <2>2. CASE AzureRemoveFile(p)
    BY <2>2 DEF AzureRemoveFile, Errors
  <2>. QED BY <2>1, <2>2
<1> DEFINE locals == [loc[p] EXCEPT !.err = kept]
<1>2. pc[p] # "idle" /\ loc[p] \in Locals /\ call[p].op = "RemoveAll"
  BY <1>1, OperationOf
<1>3. /\ StoreTypeOK'
      /\ \A k : ~SameAt(bucket, bucket', k) => k = keyFor(name(p))
  BY <1>1, DeleteObjectFacts DEF CallsInv
<1>4. locals \in Locals /\ locals.page = loc[p].page /\ locals.toDelete = loc[p].toDelete
  BY <1>1, <1>2 DEF Locals, Errors
<1>5. Goto(p, "removeList", locals)
  BY <1>1
<1> HIDE DEF locals
<1>6. \A k \in locals.page \cup locals.toDelete : IsUnder(k, name(p))
  BY <1>4 DEF CallsInv, Scope, ScopeOf
<1>7. \A k : ~SameAt(bucket, bucket', k) => Footprint(call[p], k)
  BY <1>2, <1>3 DEF Footprint, InTree, name
<1>8. "removeList" \in LabelsOf(call[p].op)
  BY <1>2 DEF LabelsOf
<1>. QED
  BY <1>2, <1>3, <1>4, <1>5, <1>6, <1>7, <1>8, GotoFine

LEMMA RenameFileFine ==
    ASSUME CallsInv, NEW p \in Procs, GCSRenameFile(p) \/ AzureRenameFile(p)
    PROVE  Fine(p)
<1>1. /\ pc[p] = "renameFile"
      /\ \E err \in Errors : CopyObject(keyFor(name(p)), keyFor(dst(p)), err)
      /\ \/ Goto(p, "renameDelete", loc[p]) \/ Goto(p, "renameList", loc[p])
         \/ Return(p, "error")
  <2>1. CASE GCSRenameFile(p)
    BY <2>1 DEF GCSRenameFile, Errors
  <2>2. CASE AzureRenameFile(p)
    BY <2>2 DEF AzureRenameFile, Errors
  <2>. QED BY <2>1, <2>2
<1>2. pc[p] # "idle" /\ loc[p] \in Locals /\ call[p].op = "Rename" /\ dst(p) \in Paths
  BY <1>1, OperationOf
<1>3. /\ StoreTypeOK'
      /\ \A k : ~SameAt(bucket, bucket', k) => k = keyFor(dst(p))
  BY <1>1, <1>2, KeyTypes, CopyFacts DEF CallsInv
<1>4. \A k : ~SameAt(bucket, bucket', k) => Footprint(call[p], k)
  BY <1>2, <1>3 DEF Footprint, InTree, dst
<1>5. \A k \in loc[p].page \cup loc[p].toDelete : IsUnder(k, name(p))
  BY DEF CallsInv, Scope, ScopeOf
<1>6. CASE Return(p, "error")
  BY <1>3, <1>4, <1>6, ReturnFine DEF Return, Kinds
<1>7. CASE \E label \in {"renameDelete", "renameList"} : Goto(p, label, loc[p])
  <2>1. {"renameDelete", "renameList"} \subseteq LabelsOf(call[p].op)
    BY <1>2 DEF LabelsOf
  <2>. QED
    BY <1>2, <1>3, <1>4, <1>5, <1>7, <2>1, GotoFine
<1>. QED
  BY <1>1, <1>6, <1>7

\* The requests of OpenFile change nothing.
LEMMA OpenFine == ASSUME CallsInv, NEW p \in Procs, OpenHead(p) \/ OpenList(p) PROVE Fine(p)
<1>1. /\ \E key, ok : HeadObject(key, ok) \/ ListObjects(ok)
      /\ \/ Return(p, "isDir") \/ Return(p, "dir")
         \/ call[p].op = "Read" /\ Goto(p, "readdir", loc[p])
         \/ Goto(p, "openList", loc[p])
         \/ call[p].op = "Put" /\ Goto(p, "write", loc[p])
         \/ call[p].op # "Put" /\ Goto(p, "get", loc[p])
  BY DEF OpenHead, OpenList, Opened
<1>2. pc[p] # "idle" /\ loc[p] \in Locals /\ call[p].op \in {"Put", "Read", "Open"}
  <2>1. CASE OpenHead(p)
    BY <2>1, OperationOf DEF OpenHead
  <2>2. CASE OpenList(p)
    BY <2>2, OperationOf DEF OpenList
  <2>. QED BY <2>1, <2>2
<1>3. StoreTypeOK' /\ \A k : SameAt(bucket, bucket', k)
  BY <1>1, HeadFacts, ListFacts DEF CallsInv
<1>4. \A k \in loc[p].page \cup loc[p].toDelete : IsUnder(k, name(p))
  BY DEF CallsInv, Scope, ScopeOf
<1>5. CASE Return(p, "isDir") \/ Return(p, "dir")
  BY <1>3, <1>5, ReturnFine DEF Return, Kinds
<1>6. ASSUME NEW label \in LabelsOf(call[p].op), Goto(p, label, loc[p])  PROVE Fine(p)
  BY <1>2, <1>3, <1>4, <1>6, GotoFine
<1>7. "openList" \in LabelsOf(call[p].op)
  BY <1>2 DEF LabelsOf
<1>8. /\ call[p].op = "Read" => "readdir" \in LabelsOf(call[p].op)
      /\ call[p].op = "Put" => "write" \in LabelsOf(call[p].op)
      /\ call[p].op # "Put" => "get" \in LabelsOf(call[p].op)
  BY <1>2 DEF LabelsOf
<1>. QED
  BY <1>1, <1>5, <1>6, <1>7, <1>8

\* The loop over a listing keeps what it is given below the name.
LEMMA ContinueFine ==
    ASSUME CallsInv, NEW p \in Procs, StoreTypeOK', pc[p] # "idle",
           NEW work \in LabelsOf(call[p].op), NEW list \in LabelsOf(call[p].op),
           NEW l \in Locals, Continue(p, work, list, l),
           \A k \in l.page \cup l.toDelete : IsUnder(k, name(p)),
           \A k : ~SameAt(bucket, bucket', k) => Footprint(call[p], k)
    PROVE  Fine(p)
<1>1. CASE \E label \in {work, list} : Goto(p, label, l)
  BY <1>1, GotoFine
<1>2. CASE \E kind \in Kinds : Return(p, kind)
  BY <1>2, ReturnFine DEF Return
<1>3. l.err \in Kinds /\ "ok" \in Kinds
  BY DEF Locals, Kinds
<1>. QED
  BY <1>1, <1>2, <1>3 DEF Continue

\* The loop with a page that has just been fetched.
LEMMA ListFine ==
    ASSUME CallsInv, NEW p \in Procs, pc[p] # "idle",
           NEW work \in LabelsOf(call[p].op), NEW list \in LabelsOf(call[p].op),
           NEW ok, ListObjects(ok),
           \/ Continue(p, work, list, NextPage(loc[p], KeysUnder(bucket, name(p))))
           \/ Return(p, "error")
    PROVE  Fine(p)
<1> DEFINE next == NextPage(loc[p], KeysUnder(bucket, name(p)))
<1>1. Continue(p, work, list, next) \/ Return(p, "error")
  OBVIOUS
<1>2. StoreTypeOK' /\ \A k : SameAt(bucket, bucket', k)
  BY ListFacts DEF CallsInv
<1>3. KeysUnder(bucket, name(p)) \in SUBSET Keys /\ loc[p] \in Locals
  BY UnderType, OperationOf DEF CallsInv
<1>4. /\ next \in Locals /\ next.page \subseteq KeysUnder(bucket, name(p))
      /\ next.toDelete = loc[p].toDelete
  BY <1>3, NextPageFacts
<1> HIDE DEF next
<1>5. \A k \in next.page \cup next.toDelete : IsUnder(k, name(p))
  BY <1>4 DEF CallsInv, Scope, ScopeOf, KeysUnder
<1>6. CASE Continue(p, work, list, next)
  BY <1>2, <1>4, <1>5, <1>6, ContinueFine
<1>7. CASE Return(p, "error")
  BY <1>2, <1>7, ReturnFine DEF Return, Kinds
<1>. QED
  BY <1>1, <1>6, <1>7

LEMMA RemoveListFine == ASSUME CallsInv, NEW p \in Procs, RemoveList(p) PROVE Fine(p)
<1>1. pc[p] # "idle" /\ call[p].op = "RemoveAll"
  BY OperationOf DEF RemoveList
<1>2. "removeObject" \in LabelsOf(call[p].op) /\ "removeList" \in LabelsOf(call[p].op)
  BY <1>1 DEF LabelsOf
<1>. QED
  BY <1>1, <1>2, ListFine DEF RemoveList

LEMMA RenameListFine == ASSUME CallsInv, NEW p \in Procs, RenameList(p) PROVE Fine(p)
<1>1. pc[p] # "idle" /\ call[p].op = "Rename"
  BY OperationOf DEF RenameList
<1>2. "renameCopy" \in LabelsOf(call[p].op) /\ "renameList" \in LabelsOf(call[p].op)
  BY <1>1 DEF LabelsOf
<1>. QED
  BY <1>1, <1>2, ListFine DEF RenameList

\* The page's next object is deleted and the loop goes on.
LEMMA ObjectFine ==
    ASSUME CallsInv, NEW p \in Procs, pc[p] # "idle", call[p].op \in {"RemoveAll", "Rename"},
           NEW work \in LabelsOf(call[p].op), NEW list \in LabelsOf(call[p].op),
           NEW key \in loc[p].page, NEW err, DeleteObject(key, err), NEW e \in Errors,
           \/ Continue(p, work, list, [loc[p] EXCEPT !.page = @ \ {key}, !.err = e])
           \/ Return(p, "error")
    PROVE  Fine(p)
<1> DEFINE locals == [loc[p] EXCEPT !.page = @ \ {key}, !.err = e]
<1>1. Continue(p, work, list, locals) \/ Return(p, "error")
  OBVIOUS
<1>2. loc[p] \in Locals /\ IsUnder(key, name(p))
  BY OperationOf DEF CallsInv, Scope, ScopeOf
<1>3. StoreTypeOK' /\ \A k : ~SameAt(bucket, bucket', k) => k = key
  BY DeleteObjectFacts DEF CallsInv
<1>4. \A k : ~SameAt(bucket, bucket', k) => Footprint(call[p], k)
  BY <1>2, <1>3 DEF Footprint, InTree, name
<1>5. /\ locals \in Locals
      /\ locals.page \subseteq loc[p].page /\ locals.toDelete = loc[p].toDelete
  BY <1>2 DEF Locals, Errors
<1> HIDE DEF locals
<1>6. \A k \in locals.page \cup locals.toDelete : IsUnder(k, name(p))
  BY <1>5 DEF CallsInv, Scope, ScopeOf
<1>7. CASE Continue(p, work, list, locals)
  BY <1>3, <1>4, <1>5, <1>6, <1>7, ContinueFine
<1>8. CASE Return(p, "error")
  BY <1>3, <1>4, <1>8, ReturnFine DEF Return, Kinds
<1>. QED
  BY <1>1, <1>7, <1>8

LEMMA RemoveObjectFine == ASSUME CallsInv, NEW p \in Procs, RemoveObject(p) PROVE Fine(p)
<1>1. pc[p] # "idle" /\ call[p].op = "RemoveAll"
  BY OperationOf DEF RemoveObject
<1>2. "removeObject" \in LabelsOf(call[p].op) /\ "removeList" \in LabelsOf(call[p].op)
  BY <1>1 DEF LabelsOf
<1>3. "none" \in Errors
  BY DEF Errors
<1>. QED
  BY <1>1, <1>2, <1>3, ObjectFine DEF RemoveObject

LEMMA RenameObjectFine == ASSUME CallsInv, NEW p \in Procs, RenameObject(p) PROVE Fine(p)
<1>1. pc[p] # "idle" /\ call[p].op = "Rename" /\ loc[p] \in Locals
  BY OperationOf DEF RenameObject
<1>2. "renameCopy" \in LabelsOf(call[p].op) /\ "renameList" \in LabelsOf(call[p].op)
  BY <1>1 DEF LabelsOf
<1>3. PICK key \in loc[p].page, err \in Errors :
        /\ DeleteObject(key, err)
        /\ \/ Continue(p, "renameCopy", "renameList", [loc[p] EXCEPT !.page = @ \ {key}])
           \/ Return(p, "error")
  BY DEF RenameObject
<1>4. /\ loc[p].err \in Errors
      /\ [loc[p] EXCEPT !.page = @ \ {key}] =
            [loc[p] EXCEPT !.page = @ \ {key}, !.err = loc[p].err]
  BY <1>1 DEF Locals, Errors
<1>. QED
  BY <1>1, <1>2, <1>3, <1>4, ObjectFine

LEMMA RenameDeleteFine == ASSUME CallsInv, NEW p \in Procs, RenameDelete(p) PROVE Fine(p)
<1>1. pc[p] # "idle" /\ call[p].op = "Rename"
  BY OperationOf DEF RenameDelete
<1>2. /\ StoreTypeOK'
      /\ \A k : ~SameAt(bucket, bucket', k) => k = keyFor(name(p))
  BY DeleteObjectFacts DEF RenameDelete, CallsInv
<1>3. \A k : ~SameAt(bucket, bucket', k) => Footprint(call[p], k)
  BY <1>1, <1>2 DEF Footprint, InTree, name
<1>. QED
  BY <1>2, <1>3, ReturnFine DEF RenameDelete, Return, Kinds

LEMMA RenameCopyFine == ASSUME CallsInv, NEW p \in Procs, RenameCopy(p) PROVE Fine(p)
<1>1. PICK src \in loc[p].page, err \in Errors :
        /\ CopyObject(src, Rebase(src, name(p), dst(p)), err)
        /\ Goto(p, "renameObject", loc[p]) \/ Return(p, "error")
  BY DEF RenameCopy
<1> DEFINE new == Rebase(src, name(p), dst(p))
<1>2. /\ pc[p] # "idle" /\ loc[p] \in Locals /\ call[p].op = "Rename"
      /\ name(p) \in Paths /\ dst(p) \in Paths
  BY OperationOf DEF RenameCopy
<1>3. src \in Keys /\ IsUnder(src, name(p))
  BY <1>2 DEF CallsInv, Scope, ScopeOf, Locals
<1>4. new \in Keys /\ IsUnder(new, dst(p))
  BY <1>2, <1>3, RebaseType, RebaseUnder
<1>5. StoreTypeOK' /\ \A k : ~SameAt(bucket, bucket', k) => k = new
  BY <1>1, <1>4, CopyFacts DEF CallsInv
<1>6. \A k : ~SameAt(bucket, bucket', k) => Footprint(call[p], k)
  BY <1>2, <1>4, <1>5 DEF Footprint, InTree, dst
<1>7. \A k \in loc[p].page \cup loc[p].toDelete : IsUnder(k, name(p))
  BY DEF CallsInv, Scope, ScopeOf
<1>8. "renameObject" \in LabelsOf(call[p].op)
  BY <1>2 DEF LabelsOf
<1>9. CASE Goto(p, "renameObject", loc[p])
  BY <1>2, <1>5, <1>6, <1>7, <1>8, <1>9, GotoFine
<1>10. CASE Return(p, "error")
  BY <1>5, <1>6, <1>10, ReturnFine DEF Return, Kinds
<1>. QED
  BY <1>1, <1>9, <1>10

LEMMA GCSOpenGetFine == ASSUME CallsInv, NEW p \in Procs, GCSOpenGet(p) PROVE Fine(p)
<1>1. PICK kind \in Kinds : Return(p, kind)
  BY DEF GCSOpenGet, Kinds
<1>2. StoreTypeOK' /\ \A k : SameAt(bucket, bucket', k)
  BY FaultType, SameFacts DEF GCSOpenGet, CallsInv, StoreTypeOK
<1>3. QED
  BY <1>1, <1>2, ReturnFine DEF Return

-----------------------------------------------------------------------------
(* Every backend *)

LEMMA StepFine == ASSUME CallsInv, NEW p \in Procs, Step(p) PROVE Fine(p)
<1>1. CASE S3Step(p)
  BY <1>1, MkdirFine, OpenRootFine, S3OpenHeadFine, OpenGetFine, ReaddirPageFine, WriteFine,
     CloseFine, S3RemoveFileFine, S3RemoveListFine, S3RemoveBatchFine, S3RenameFileFine,
     S3RenameDeleteFine, S3RenameListFine, S3RenameCopyFine, S3RenameBatchFine, StatFine
     DEF S3Step
<1>2. CASE GCSStep(p)
  BY <1>2, MkdirFine, OpenRootFine, OpenFine, GCSOpenGetFine, GCSReaddirFine, WriteFine,
     CloseFine, RemoveFileFine, RemoveListFine, RemoveObjectFine, RenameFileFine,
     RenameDeleteFine, RenameListFine, RenameCopyFine, RenameObjectFine, StatFine
     DEF GCSStep, GCSOpenFile, GCSRemoveAll, GCSRename, GCSStat
<1>3. CASE AzureStep(p)
  BY <1>3, MkdirFine, OpenRootFine, OpenFine, OpenGetFine, ReaddirPageFine, WriteFine,
     CloseFine, RemoveFileFine, RemoveListFine, RemoveObjectFine, RenameFileFine,
     RenameDeleteFine, RenameListFine, RenameCopyFine, RenameObjectFine, StatFine
     DEF AzureStep, AzureOpenFile, AzureRemoveAll, AzureRename, AzureStat
<1>. QED BY <1>1, <1>2, <1>3 DEF Step

\* A step belongs to a call in flight.
LEMMA StepActive == ASSUME NEW p \in Procs, Step(p) PROVE pc[p] # "idle"
<1>1. CASE S3Step(p)
  BY <1>1 DEF S3Step, Mkdir, OpenRoot, S3OpenHead, OpenGet, ReaddirPage, Write, Close,
     S3RemoveFile, S3RemoveList, S3RemoveBatch, S3RenameFile, S3RenameDelete, S3RenameList,
     S3RenameCopy, S3RenameBatch, StatRoot, StatFile, StatMarker, StatList
<1>2. CASE GCSStep(p) \/ AzureStep(p)
  BY <1>2 DEF GCSStep, GCSOpenFile, GCSRemoveAll, GCSRename, GCSStat, GCSReaddir,
     GCSRemoveFile, GCSRenameFile, AzureStep, AzureOpenFile, AzureRemoveAll, AzureRename,
     AzureStat, AzureRemoveFile, AzureRenameFile, ReaddirPage, Mkdir, OpenRoot, OpenHead,
     OpenList, OpenGet, GCSOpenGet, Write, Close, RemoveList, RemoveObject, RenameDelete, RenameList,
     RenameCopy, RenameObject, StatRoot, StatFile, StatMarker, StatList
<1>. QED BY <1>1, <1>2 DEF Step

\* A step leads to a label of the backend.
LEMMA S3StepLabel ==
    ASSUME NEW p \in Procs, S3Step(p)
    PROVE  \E label \in S3Labels : pc' = [pc EXCEPT ![p] = label]
<1>1. CASE Mkdir(p) \/ OpenRoot(p) \/ S3OpenHead(p) \/ OpenGet(p)
  BY <1>1 DEF Mkdir, OpenRoot, S3OpenHead, OpenGet, Goto, Return, ReturnWith, S3Labels
<1>2. CASE ReaddirPage(p) \/ Write(p) \/ Close(p)
  BY <1>2 DEF ReaddirPage, Write, Close, Goto, Return, ReturnWith, S3Labels
<1>3. CASE S3RemoveFile(p) \/ S3RemoveList(p) \/ S3RemoveBatch(p)
  BY <1>3 DEF S3RemoveFile, S3RemoveList, S3RemoveBatch, Goto, Return, ReturnWith, S3Labels
<1>4. CASE S3RenameFile(p) \/ S3RenameDelete(p) \/ S3RenameBatch(p)
  BY <1>4 DEF S3RenameFile, S3RenameDelete, S3RenameBatch, Goto, Return, ReturnWith, S3Labels
<1>5. CASE S3RenameList(p) \/ S3RenameCopy(p)
  BY <1>5 DEF S3RenameList, S3RenameCopy, S3RenameLoop, Goto, Return, ReturnWith, S3Labels
<1>6. CASE StatRoot(p) \/ StatFile(p) \/ StatMarker(p) \/ StatList(p)
  BY <1>6 DEF StatRoot, StatFile, StatMarker, StatList, Goto, Return, ReturnWith, S3Labels
<1>. QED BY <1>1, <1>2, <1>3, <1>4, <1>5, <1>6 DEF S3Step

LEMMA BlobStepLabel ==
    ASSUME NEW p \in Procs, GCSStep(p) \/ AzureStep(p)
    PROVE  \E label \in BlobLabels : pc' = [pc EXCEPT ![p] = label]
<1>1. CASE GCSReaddir(p) \/ ReaddirPage(p) \/ Write(p) \/ Close(p)
  BY <1>1 DEF GCSReaddir, ReaddirPage, Write, Close, Goto, Return, ReturnWith, BlobLabels
<1>2. CASE GCSRemoveFile(p) \/ GCSRenameFile(p)
  BY <1>2 DEF GCSRemoveFile, GCSRenameFile, Goto, Return, ReturnWith, BlobLabels
<1>3. CASE AzureRemoveFile(p) \/ AzureRenameFile(p)
  BY <1>3 DEF AzureRemoveFile, AzureRenameFile, Goto, Return, ReturnWith, BlobLabels
<1>4. CASE Mkdir(p) \/ OpenRoot(p) \/ OpenGet(p) \/ GCSOpenGet(p)
  BY <1>4 DEF Mkdir, OpenRoot, OpenGet, GCSOpenGet, Goto, Return, ReturnWith, BlobLabels
<1>5. CASE OpenHead(p) \/ OpenList(p)
  BY <1>5 DEF OpenHead, OpenList, Opened, Goto, Return, ReturnWith, BlobLabels
<1>6. CASE RemoveList(p) \/ RemoveObject(p)
  BY <1>6 DEF RemoveList, RemoveObject, Continue, Goto, Return, ReturnWith, BlobLabels
<1>7. CASE RenameDelete(p) \/ RenameList(p)
  BY <1>7 DEF RenameDelete, RenameList, Continue, Goto, Return, ReturnWith, BlobLabels
<1>8. CASE RenameCopy(p) \/ RenameObject(p)
  BY <1>8 DEF RenameCopy, RenameObject, Continue, Goto, Return, ReturnWith, BlobLabels
<1>9. CASE StatRoot(p) \/ StatFile(p) \/ StatMarker(p) \/ StatList(p)
  BY <1>9 DEF StatRoot, StatFile, StatMarker, StatList, Goto, Return, ReturnWith, BlobLabels
<1>. QED
  BY <1>1, <1>2, <1>3, <1>4, <1>5, <1>6, <1>7, <1>8, <1>9
     DEF GCSStep, GCSOpenFile, GCSRemoveAll, GCSRename, GCSStat, AzureStep, AzureOpenFile,
         AzureRemoveAll, AzureRename, AzureStat

LEMMA StepLabel ==
    ASSUME NEW p \in Procs, pc \in [Procs -> Labels], Step(p)
    PROVE  (pc \in [Procs -> Labels])'
<1>1. \E label \in Labels : pc' = [pc EXCEPT ![p] = label]
  BY S3StepLabel, BlobStepLabel DEF Step, Labels
<1>2. Labels' = Labels
  BY DEF Step, Stay, Labels
<1>. QED BY <1>1, <1>2

\* A step is a request that works, one that fails, or none.
LEMMA StepFaults == ASSUME NEW p \in Procs, Step(p) PROVE Works \/ Fails
<1>1. CASE Mkdir(p) \/ OpenRoot(p) \/ S3OpenHead(p) \/ OpenGet(p) \/ Write(p) \/ Close(p)
  BY <1>1 DEF Mkdir, OpenRoot, S3OpenHead, OpenGet, Write, Close, PutObject, HeadObject, Works
<1>2. CASE ReaddirPage(p) \/ GCSReaddir(p) \/ OpenHead(p) \/ OpenList(p) \/ GCSOpenGet(p)
  BY <1>2 DEF ReaddirPage, GCSReaddir, OpenHead, OpenList, GCSOpenGet, HeadObject, ListObjects
<1>3. CASE S3RemoveFile(p) \/ S3RemoveList(p) \/ S3RemoveBatch(p)
  BY <1>3 DEF S3RemoveFile, S3RemoveList, S3RemoveBatch, ListObjects, DeleteObjects
<1>4. CASE S3RenameFile(p) \/ S3RenameDelete(p) \/ S3RenameList(p) \/ S3RenameCopy(p)
           \/ S3RenameBatch(p)
  BY <1>4 DEF S3RenameFile, S3RenameDelete, S3RenameList, S3RenameCopy, S3RenameBatch,
     CopyObject, ListObjects, DeleteObjects
<1>5. CASE GCSRemoveFile(p) \/ AzureRemoveFile(p) \/ RemoveList(p) \/ RemoveObject(p)
  BY <1>5 DEF GCSRemoveFile, AzureRemoveFile, RemoveList, RemoveObject, ListObjects, DeleteObject
<1>6. CASE GCSRenameFile(p) \/ AzureRenameFile(p) \/ RenameDelete(p) \/ RenameList(p)
           \/ RenameCopy(p) \/ RenameObject(p)
  BY <1>6 DEF GCSRenameFile, AzureRenameFile, RenameDelete, RenameList, RenameCopy,
     RenameObject, CopyObject, ListObjects, DeleteObject
<1>7. CASE StatRoot(p) \/ StatFile(p) \/ StatMarker(p) \/ StatList(p)
  BY <1>7 DEF StatRoot, StatFile, StatMarker, StatList, HeadObject, ListObjects, Works
<1>. QED
  BY <1>1, <1>2, <1>3, <1>4, <1>5, <1>6, <1>7
     DEF Step, S3Step, GCSStep, GCSOpenFile, GCSRemoveAll, GCSRename, GCSStat, AzureStep,
         AzureOpenFile, AzureRemoveAll, AzureRename, AzureStat

\* Without a fault every request of a call has worked.
LEMMA NoFault ==
    ASSUME StoreTypeOK, NEW p \in Procs, Step(p), faults' = 0
    PROVE  faults = 0 /\ ~Fails
BY StepFaults DEF StoreTypeOK, Works, Fails

\* A Stat takes no step of another operation.
LEMMA StatStep ==
    ASSUME CallsInv, NEW p \in Procs, Step(p), call[p].op = "Stat"
    PROVE  StatRoot(p) \/ StatFile(p) \/ StatMarker(p) \/ StatList(p)
<1>1. pc[p] \in {"statFile", "statMarker", "statList"}
  BY StepActive DEF CallsInv, Scope, ScopeOf, LabelsOf
<1>2. CASE S3Step(p)
  BY <1>1, <1>2
     DEF S3Step, Mkdir, OpenRoot, S3OpenHead, OpenGet, ReaddirPage, Write, Close, S3RemoveFile,
         S3RemoveList, S3RemoveBatch, S3RenameFile, S3RenameDelete, S3RenameList,
         S3RenameCopy, S3RenameBatch
<1>3. CASE GCSStep(p) \/ AzureStep(p)
  BY <1>1, <1>3
     DEF GCSStep, GCSOpenFile, GCSRemoveAll, GCSRename, GCSStat, GCSReaddir, GCSRemoveFile,
         GCSRenameFile, AzureStep, AzureOpenFile, AzureRemoveAll, AzureRename, AzureStat,
         AzureRemoveFile, AzureRenameFile, ReaddirPage, Mkdir, OpenRoot, OpenHead, OpenList,
         OpenGet, GCSOpenGet, Write, Close, RemoveList, RemoveObject, RenameDelete, RenameList,
         RenameCopy, RenameObject
<1>. QED BY <1>2, <1>3 DEF Step

\* Nor does a Read or an Open; only S3 opens a directory by its marker alone.
LEMMA OpenStep ==
    ASSUME CallsInv, NEW p \in Procs, Step(p), call[p].op \in {"Read", "Open"}
    PROVE  \/ OpenRoot(p) \/ OpenHead(p) \/ OpenList(p) \/ OpenGet(p) \/ GCSOpenGet(p)
           \/ backend = "s3" /\ S3OpenHead(p)
           \/ ReaddirPage(p) \/ GCSReaddir(p)
<1>1. pc[p] \in {"open", "openList", "get", "readdir"}
  BY StepActive DEF CallsInv, Scope, ScopeOf, LabelsOf
<1>2. CASE backend = "s3" /\ S3Step(p)
  BY <1>1, <1>2
     DEF S3Step, Mkdir, Write, Close, S3RemoveFile, S3RemoveList, S3RemoveBatch, S3RenameFile,
         S3RenameDelete, S3RenameList, S3RenameCopy, S3RenameBatch, StatRoot, StatFile,
         StatMarker, StatList
<1>3. CASE GCSStep(p) \/ AzureStep(p)
  BY <1>1, <1>3
     DEF GCSStep, GCSOpenFile, GCSRemoveAll, GCSRename, GCSStat, GCSRemoveFile, GCSRenameFile,
         AzureStep, AzureOpenFile, AzureRemoveAll, AzureRename, AzureStat, AzureRemoveFile,
         AzureRenameFile, Mkdir, Write, Close, RemoveList, RemoveObject, RenameDelete,
         RenameList, RenameCopy, RenameObject, StatRoot, StatFile, StatMarker, StatList
<1>. QED BY <1>2, <1>3 DEF Step

-----------------------------------------------------------------------------
(* Reading a directory *)

\* What a listing of path may return from b: keys and common prefixes.
EntriesOf(b, path) == {Entry(k, path) : k \in KeysUnder(b, path)}

\* The name of a child of path.
Child(e, path) == e[Len(path) + 1]

\* Each entry that has not been passed over has its name among those returned.
Sighted(locals, b, path) ==
    /\ locals.entries \subseteq EntriesOf(b, path) \ {dirKeyFor(path)}
    /\ \A d, e \in locals.entries : Child(d, path) = Child(e, path) => d = e
    /\ \A e \in EntriesOf(b, path) \ {dirKeyFor(path)} :
          \/ Precedes(locals.token, e)
          \/ \E d \in locals.entries : Child(d, path) = Child(e, path)

\* An entry has the child's name; it is the key itself or ends with a slash.
LEMMA EntryFacts ==
    ASSUME NEW k \in Keys, NEW path \in Paths, IsUnder(k, path)
    PROVE  LET e == Entry(k, path)
               n == Len(path)
           IN  /\ e \in Keys /\ n \in Nat
               /\ Child(e, path) = Child(k, path)
               /\ \A i \in 1..n : e[i] = path[i]
               /\ \/ Len(e) = n + 1 /\ e = k
                  \/ Len(e) = n + 2 /\ e[n + 2] = Slash /\ Len(k) # n + 1
<1> DEFINE n == Len(path)
           s == SubSeq(k, 1, n + 1)
<1>1. /\ k \in Seq(Nat) /\ path \in Seq(Nat) /\ n \in Nat /\ Len(k) > n /\ Len(k) \in Nat
      /\ SubSeq(k, 1, n) = path /\ Slash \in Nat
  BY DEF Keys, Paths, IsUnder, Slash
<1>2. \A i \in 1..n : k[i] = path[i]
  <2>1. \A i \in 1..n : SubSeq(k, 1, n)[i] = k[i]
    BY <1>1
  <2>. QED BY <1>1, <2>1
<1>3. CASE Len(k) = n + 1
  BY <1>1, <1>2, <1>3 DEF Entry, Child
<1>4. CASE Len(k) # n + 1
  <2>1. s \in Seq(Nat) /\ Len(s) = n + 1 /\ \A i \in 1..(n + 1) : s[i] = k[i]
    BY <1>1, SubSeqProperties
  <2>2. Entry(k, path) = Append(s, Slash)
    BY <1>4 DEF Entry, dirKeyFor
  <2> HIDE DEF s
  <2>3. /\ Append(s, Slash) \in Seq(Nat) /\ Len(Append(s, Slash)) = n + 2
        /\ \A i \in 1..(n + 1) : Append(s, Slash)[i] = s[i]
        /\ Append(s, Slash)[n + 2] = Slash
    BY <1>1, <2>1, AppendProperties
  <2> DEFINE e == Append(s, Slash)
  <2>4. e \in Keys /\ e[n + 1] = k[n + 1]
    BY <1>1, <2>1, <2>3 DEF Keys
  <2>5. \A i \in 1..n : e[i] = path[i]
    <3>1. \A i \in 1..n : i \in 1..(n + 1)
      BY <1>1
    <3>. QED BY <1>2, <2>1, <2>3, <3>1
  <2> HIDE DEF e
  <2>. QED BY <1>1, <1>4, <2>2, <2>3, <2>4, <2>5 DEF Child, e
<1>. QED BY <1>3, <1>4

\* A path's entries are keys, and two of one kind with one name are the same.
LEMMA EntriesFacts ==
    ASSUME NEW b, IsBucket(b), NEW path \in Paths
    PROVE  /\ EntriesOf(b, path) \subseteq Keys /\ IsFiniteSet(EntriesOf(b, path))
           /\ \A e \in EntriesOf(b, path) :
                 Len(e) \in {Len(path) + 1, Len(path) + 2} /\ Precedes(<<>>, e)
           /\ \A d, e \in EntriesOf(b, path) :
                 Len(d) = Len(e) /\ Child(d, path) = Child(e, path) => d = e
<1> DEFINE K == KeysUnder(b, path)
           E == EntriesOf(b, path)
<1>1. \A k \in K : k \in Keys /\ IsUnder(k, path)
  BY DEF KeysUnder, IsBucket
<1>2. IsFiniteSet(K)
  BY FS_Subset DEF KeysUnder, IsBucket
<1>3. IsFiniteSet(E)
  <2> DEFINE f == [k \in K |-> Entry(k, path)]
  <2>1. f \in Surjection(K, E)
    BY DEF Surjection, EntriesOf
  <2> HIDE DEF f, K, E
  <2>. QED BY <1>2, <2>1, FS_Surjection
<1>4. \A e \in E :
        /\ e \in Keys /\ Len(path) \in Nat
        /\ \A i \in 1..Len(path) : e[i] = path[i]
        /\ Len(e) = Len(path) + 1 \/ (Len(e) = Len(path) + 2 /\ e[Len(path) + 2] = Slash)
  BY <1>1, EntryFacts DEF EntriesOf
<1> HIDE DEF E
<1>5. \A e \in E : Precedes(<<>>, e)
  BY <1>4 DEF Precedes
<1>6. ASSUME NEW d \in E, NEW e \in E, Len(d) = Len(e), Child(d, path) = Child(e, path)
      PROVE  d = e
  <2>1. d \in Seq(Nat) /\ e \in Seq(Nat)
    BY <1>4 DEF Keys
  <2>2. \A i \in 1..Len(d) : d[i] = e[i]
    BY <1>4, <1>6 DEF Child
  <2>. QED BY <1>6, <2>1, <2>2, SeqEqual
<1>. QED BY <1>3, <1>4, <1>5, <1>6 DEF E

\* A page adds one entry for each of its names that has not been returned.
AddsNew(path, page, seen, added) ==
    /\ added \subseteq page \ {dirKeyFor(path)}
    /\ \A e \in page \ {dirKeyFor(path)} :
          \E d \in seen \cup added : Child(d, path) = Child(e, path)
    /\ \A d, e \in added : Child(d, path) = Child(e, path) => d = e
    /\ \A d \in added, e \in seen : Child(d, path) # Child(e, path)

\* So it does whether the common prefixes come first (S3, Azure) or the objects (GCS).
LEMMA NewEntriesFacts ==
    ASSUME NEW b, IsBucket(b), NEW path \in Paths, NEW page \in SUBSET EntriesOf(b, path),
           NEW seen, NEW added \in {NewEntries(path, page, seen), GCSEntries(path, page, seen)}
    PROVE  AddsNew(path, page, seen, added)
<1> DEFINE n == Len(path)
           Named(S) == {e[n + 1] : e \in S}
<1>1. /\ n \in Nat /\ Len(dirKeyFor(path)) = n + 1
      /\ \A e \in page : Len(e) \in {n + 1, n + 2}
      /\ \A d, e \in page : Len(d) = Len(e) /\ Child(d, path) = Child(e, path) => d = e
  <2>1. path \in Seq(Nat) /\ Slash \in Nat
    BY DEF Paths, Slash
  <2>2. Len(Append(path, Slash)) = n + 1
    BY <2>1
  <2>. QED BY <2>1, <2>2, EntriesFacts DEF dirKeyFor
<1>2. CASE added = NewEntries(path, page, seen)
  <2> DEFINE dirs  == {e \in page : Len(e) > n + 1 /\ e[n + 1] \notin Named(seen)}
             files == {e \in page \ {dirKeyFor(path)} :
                         Len(e) = n + 1 /\ e[n + 1] \notin Named(seen \cup dirs)}
  <2>1. added = dirs \cup files
    BY <1>2 DEF NewEntries
  <2>2. \A e \in dirs : e \in page /\ Len(e) = n + 2 /\ \A d \in seen : d[n + 1] # e[n + 1]
    BY <1>1
  <2>3. \A e \in files : /\ e \in page \ {dirKeyFor(path)} /\ Len(e) = n + 1
                         /\ \A d \in seen \cup dirs : d[n + 1] # e[n + 1]
    OBVIOUS
  <2>4. \A e \in page : Len(e) = n + 2 => e \in dirs \/ \E d \in seen : d[n + 1] = e[n + 1]
    BY <1>1
  <2>5. \A e \in page \ {dirKeyFor(path)} :
          Len(e) = n + 1 => e \in files \/ \E d \in seen \cup dirs : d[n + 1] = e[n + 1]
    OBVIOUS
  <2> HIDE DEF dirs, files
  <2>6. added \subseteq page \ {dirKeyFor(path)}
    BY <1>1, <2>1, <2>2, <2>3
  <2>7. \A e \in page \ {dirKeyFor(path)} : \E d \in seen \cup added : d[n + 1] = e[n + 1]
    BY <1>1, <2>1, <2>4, <2>5
  <2>8. \A d, e \in added : d[n + 1] = e[n + 1] => d = e
    BY <1>1, <2>1, <2>2, <2>3 DEF Child
  <2>9. \A d \in added, e \in seen : d[n + 1] # e[n + 1]
    BY <2>1, <2>2, <2>3
  <2>. QED BY <2>6, <2>7, <2>8, <2>9 DEF Child, AddsNew
<1>3. CASE added = GCSEntries(path, page, seen)
  <2> DEFINE files == {e \in page \ {dirKeyFor(path)} :
                         Len(e) = n + 1 /\ e[n + 1] \notin Named(seen)}
             dirs  == {e \in page : Len(e) > n + 1 /\ e[n + 1] \notin Named(seen \cup files)}
  <2>1. added = files \cup dirs
    BY <1>3 DEF GCSEntries
  <2>2. \A e \in dirs : /\ e \in page /\ Len(e) = n + 2
                        /\ \A d \in seen \cup files : d[n + 1] # e[n + 1]
    BY <1>1
  <2>3. \A e \in files : /\ e \in page \ {dirKeyFor(path)} /\ Len(e) = n + 1
                         /\ \A d \in seen : d[n + 1] # e[n + 1]
    OBVIOUS
  <2>4. \A e \in page :
          Len(e) = n + 2 => e \in dirs \/ \E d \in seen \cup files : d[n + 1] = e[n + 1]
    BY <1>1
  <2>5. \A e \in page \ {dirKeyFor(path)} :
          Len(e) = n + 1 => e \in files \/ \E d \in seen : d[n + 1] = e[n + 1]
    OBVIOUS
  <2> HIDE DEF dirs, files
  <2>6. added \subseteq page \ {dirKeyFor(path)}
    BY <1>1, <2>1, <2>2, <2>3
  <2>7. \A e \in page \ {dirKeyFor(path)} : \E d \in seen \cup added : d[n + 1] = e[n + 1]
    BY <1>1, <2>1, <2>4, <2>5
  <2>8. \A d, e \in added : d[n + 1] = e[n + 1] => d = e
    BY <1>1, <2>1, <2>2, <2>3 DEF Child
  <2>9. \A d \in added, e \in seen : d[n + 1] # e[n + 1]
    BY <2>1, <2>2, <2>3
  <2>. QED BY <2>6, <2>7, <2>8, <2>9 DEF Child, AddsNew
<1>. QED BY <1>2, <1>3

\* What Readdir returns: each child once.
Exact(entries, b, path) ==
    /\ {Child(e, path) : e \in entries} =
          {Child(k, path) : k \in KeysUnder(b, path) \ {dirKeyFor(path)}}
    /\ \A d, e \in entries : Child(d, path) = Child(e, path) => d = e

\* At first every entry is still to come.
LEMMA FirstSighted ==
    ASSUME NEW b, IsBucket(b), NEW path \in Paths
    PROVE  Sighted(Cleared, b, path)
BY EntriesFacts DEF Sighted, Cleared

\* The children of a path are the names of its entries.
LEMMA ChildrenFacts ==
    ASSUME NEW b, IsBucket(b), NEW path \in Paths
    PROVE  {Child(k, path) : k \in KeysUnder(b, path) \ {dirKeyFor(path)}} =
           {Child(e, path) : e \in EntriesOf(b, path) \ {dirKeyFor(path)}}
<1>1. \A k \in KeysUnder(b, path) : k \in Keys /\ IsUnder(k, path)
  BY DEF KeysUnder, IsBucket
<1>2. Len(dirKeyFor(path)) = Len(path) + 1 /\ Len(path) \in Nat
  <2>1. path \in Seq(Nat) /\ Slash \in Nat
    BY DEF Paths, Slash
  <2>. QED BY <2>1 DEF dirKeyFor
<1>3. \A k \in KeysUnder(b, path) :
        /\ Child(Entry(k, path), path) = Child(k, path)
        /\ Entry(k, path) = dirKeyFor(path) <=> k = dirKeyFor(path)
  <2>. SUFFICES ASSUME NEW k \in KeysUnder(b, path)
                PROVE  /\ Child(Entry(k, path), path) = Child(k, path)
                       /\ Entry(k, path) = dirKeyFor(path) <=> k = dirKeyFor(path)
    OBVIOUS
  <2> DEFINE e == Entry(k, path)
  <2>1. /\ Child(e, path) = Child(k, path)
        /\ \/ Len(e) = Len(path) + 1 /\ e = k
           \/ Len(e) = Len(path) + 2 /\ Len(k) # Len(path) + 1
    BY <1>1, EntryFacts
  <2> HIDE DEF e
  <2>2. e = dirKeyFor(path) <=> k = dirKeyFor(path)
    BY <1>2, <2>1
  <2>. QED BY <2>1, <2>2 DEF e
<1>. QED BY <1>3 DEF EntriesOf

\* A page more: what is left comes after the token, and nothing is left at the end.
LEMMA PageSighted ==
    ASSUME NEW b, IsBucket(b), NEW path \in Paths, NEW locals \in Locals,
           Sighted(locals, b, path),
           NEW next, next = NextPage(locals, EntriesOf(b, path)),
           NEW added \in {NewEntries(path, next.page, next.entries),
                          GCSEntries(path, next.page, next.entries)}
    PROVE  LET entries == next.entries \cup added
           IN  /\ next.more => Sighted([next EXCEPT !.entries = entries, !.page = {}], b, path)
               /\ ~next.more => Exact(entries, b, path)
<1> DEFINE E == EntriesOf(b, path) \ {dirKeyFor(path)}
           entries == next.entries \cup added
           more == [next EXCEPT !.entries = entries, !.page = {}]
<1>1. EntriesOf(b, path) \in SUBSET Keys /\ IsFiniteSet(EntriesOf(b, path))
  BY EntriesFacts
<1>2. next \in Locals /\ next.page \subseteq EntriesOf(b, path)
  BY <1>1, NextPageFacts
<1>3. next.entries = locals.entries
  BY DEF NextPage, Locals
<1>4. more.entries = entries /\ more.token = next.token
  BY <1>2 DEF Locals
<1>5. AddsNew(path, next.page, next.entries, added)
  BY <1>2, NewEntriesFacts
<1>6. \A e \in E : Precedes(locals.token, e) =>
                      e \in next.page \/ (next.more /\ Precedes(next.token, e))
  BY <1>1, PageAdvances
<1> HIDE DEF more
<1>7. entries \subseteq E /\ \A d, e \in entries : Child(d, path) = Child(e, path) => d = e
  BY <1>2, <1>3, <1>5 DEF Sighted, AddsNew
<1>8. \A e \in E : \/ next.more /\ Precedes(next.token, e)
                   \/ \E d \in entries : Child(d, path) = Child(e, path)
  BY <1>3, <1>5, <1>6 DEF Sighted, AddsNew
<1>9. next.more => Sighted(more, b, path)
  BY <1>4, <1>7, <1>8 DEF Sighted
<1>10. ASSUME ~next.more PROVE Exact(entries, b, path)
  <2>1. {Child(e, path) : e \in entries} = {Child(e, path) : e \in E}
    BY <1>7, <1>8, <1>10
  <2>2. {Child(k, path) : k \in KeysUnder(b, path) \ {dirKeyFor(path)}} =
        {Child(e, path) : e \in entries}
    BY <2>1, ChildrenFacts
  <2> HIDE DEF entries
  <2>. QED BY <1>7, <2>2 DEF Exact
<1>. QED BY <1>9, <1>10 DEF more

\* The invariant of a Read: the path it lists is as it was, and it has passed over
\* nothing.
ReadInv(p) ==
    pc[p] # "idle" /\ call[p].op = "Read" =>
        /\ KeysUnder(bucket, name(p)) = KeysUnder(before[p], name(p))
        /\ pc[p] \in {"open", "openList"} => loc[p] = Cleared
        /\ pc[p] = "readdir" => Sighted(loc[p], before[p], name(p))

\* The requests of a Read keep it, and the last one returns each child once.  Without
\* a prefix the root is not listed at all.
LEMMA ReadStep ==
    ASSUME CallsInv, NEW p \in Procs, Step(p), call[p].op = "Read", ReadInv(p),
           Prefixed \/ name(p) # <<>>
    PROVE  /\ ReadInv(p)'
           /\ Ends(p, "dir") => Exact(ret'[p].entries, before[p], name(p))
<1> DEFINE b == before[p]
           path == name(p)
<1>1. /\ pc[p] # "idle" /\ path \in Paths /\ loc[p] \in Locals /\ IsBucket(b)
      /\ KeysUnder(bucket, path) = KeysUnder(b, path)
      /\ p \in DOMAIN pc /\ p \in DOMAIN loc /\ p \in DOMAIN ret
  BY StepActive, OperationOf DEF ReadInv, CallsInv, FrameTypeOK
<1>2. ASSUME UNCHANGED bucket, pc[p] \in {"open", "openList"},
             NEW label \in {"openList", "get", "readdir"}, Goto(p, label, loc[p])
      PROVE  ReadInv(p)' /\ ~Ends(p, "dir")
  <2>1. pc'[p] = label /\ loc'[p] = loc[p] /\ call' = call /\ before' = before
    BY <1>1, <1>2 DEF Goto
  <2>2. loc[p] = Cleared
    BY <1>1, <1>2 DEF ReadInv
  <2>. QED BY <1>1, <1>2, <2>1, <2>2, FirstSighted DEF ReadInv, name, Ends
<1>3. CASE OpenRoot(p)
  BY <1>2, <1>3 DEF OpenRoot
<1>4. CASE OpenHead(p) \/ OpenList(p) \/ S3OpenHead(p)
  <2>1. /\ UNCHANGED bucket /\ pc[p] \in {"open", "openList"}
        /\ \E label \in {"openList", "get", "readdir"} : Goto(p, label, loc[p])
    BY <1>4 DEF OpenHead, OpenList, S3OpenHead, Opened, HeadObject, ListObjects
  <2>. QED BY <1>2, <2>1
<1>5. CASE OpenGet(p) \/ GCSOpenGet(p)
  <2>1. PICK kind \in {"file", "missing", "error"} : Return(p, kind)
    BY <1>5 DEF OpenGet, GCSOpenGet
  <2>2. pc'[p] = "idle" /\ ret'[p].kind = kind
    BY <1>1, <2>1 DEF Return, ReturnWith
  <2>. QED BY <2>2 DEF ReadInv, Ends
<1>6. CASE ReaddirPage(p) \/ GCSReaddir(p)
  <2> DEFINE S == {Entry(k, path) : k \in Listed(path)}
             next == NextPage(loc[p], S)
  <2>1. PICK added \in {NewEntries(path, next.page, next.entries),
                        GCSEntries(path, next.page, next.entries)} :
          LET entries == next.entries \cup added
          IN  \/ Return(p, "error")
              \/ next.more /\ Goto(p, "readdir", [next EXCEPT !.entries = entries, !.page = {}])
              \/ ~next.more /\ ReturnWith(p, "dir", entries)
    BY <1>6 DEF ReaddirPage, GCSReaddir
  <2>2. S = EntriesOf(b, path)
    BY <1>1 DEF Listed, EntriesOf
  <2>3. UNCHANGED bucket /\ Sighted(loc[p], b, path)
    BY <1>1, <1>6 DEF ReaddirPage, GCSReaddir, ListObjects, ReadInv
  <2> DEFINE entries == next.entries \cup added
             more == [next EXCEPT !.entries = entries, !.page = {}]
  <2> HIDE DEF S
  <2>4. /\ next.more => Sighted(more, b, path)
        /\ ~next.more => Exact(entries, b, path)
    <3> HIDE DEF next
    <3>1. next = NextPage(loc[p], EntriesOf(b, path))
      BY <2>2 DEF next
    <3>. QED BY <1>1, <2>3, <3>1, PageSighted
  <2> HIDE DEF next, more, entries
  <2>5. CASE Return(p, "error")
    <3>1. pc'[p] = "idle" /\ ret'[p].kind = "error"
      BY <1>1, <2>5 DEF Return, ReturnWith
    <3>. QED BY <3>1 DEF ReadInv, Ends
  <2>6. CASE next.more /\ Goto(p, "readdir", more)
    <3>1. pc'[p] = "readdir" /\ loc'[p] = more /\ call' = call /\ before' = before
      BY <1>1, <2>6 DEF Goto
    <3>. QED BY <1>1, <2>3, <2>4, <2>6, <3>1 DEF ReadInv, name, Ends
  <2>7. CASE ~next.more /\ ReturnWith(p, "dir", entries)
    <3>1. pc'[p] = "idle" /\ ret'[p].entries = entries
      BY <1>1, <2>7 DEF ReturnWith
    <3>. QED BY <2>4, <2>7, <3>1 DEF ReadInv
  <2>. QED BY <2>1, <2>5, <2>6, <2>7 DEF entries, more
<1>. QED BY <1>3, <1>4, <1>5, <1>6, OpenStep

-----------------------------------------------------------------------------
(* Going through a directory, to remove or to rename what is in it *)

Sweeping ==
    {"removeList", "removeObject", "removeBatch",
     "renameList", "renameCopy", "renameObject", "renameBatch"}

\* Each of the keys is still to come, on the page, or on the list to be deleted.
Swept(locals, K) ==
    \A k \in K :
        \/ locals.more /\ Precedes(locals.token, k)
        \/ k \in locals.page \cup locals.toDelete

\* The invariant of RemoveAll and Rename: nothing below the name has been passed over,
\* and there is no file of the name, or a Rename has failed to copy it.
SweepInv(p) ==
    /\ pc[p] \in {"removeFile", "renameFile"} => loc[p] = Cleared
    /\ pc[p] \in {"removeList", "renameList"} => loc[p].page = {}
    /\ pc[p] \in {"removeBatch", "renameBatch"} =>
          loc[p].page = {} /\ ~loc[p].more /\ loc[p].toDelete # {}
    /\ pc[p] \in Sweeping =>
          /\ Swept(loc[p], KeysUnder(bucket, name(p)))
          /\ backend # "s3" => loc[p].toDelete = {}
          /\ faults = 0 =>
                \/ keyFor(name(p)) \notin DOMAIN bucket
                \/ call[p].op = "Rename" /\ loc[p].err = "error"

LEMMA BeginSwept ==
    ASSUME NEW b, IsBucket(b), NEW path \in Paths, NEW err
    PROVE  Swept([Cleared EXCEPT !.err = err], KeysUnder(b, path))
<1>1. \A k \in KeysUnder(b, path) : k \in Keys /\ Len(k) > Len(path) /\ Len(path) \in Nat
  BY DEF KeysUnder, IsUnder, IsBucket, Paths
<1>2. \A k \in KeysUnder(b, path) : Precedes(<<>>, k)
  BY <1>1 DEF Precedes, Keys
<1>. QED BY <1>2 DEF Swept, Cleared

LEMMA PageSwept ==
    ASSUME NEW b, IsBucket(b), NEW path, NEW locals \in Locals, locals.page = {},
           Swept(locals, KeysUnder(b, path))
    PROVE  LET next == NextPage(locals, KeysUnder(b, path))
           IN  /\ next \in Locals /\ Swept(next, KeysUnder(b, path))
               /\ next.toDelete = locals.toDelete /\ next.err = locals.err
<1> DEFINE K == KeysUnder(b, path)
           next == NextPage(locals, K)
<1>1. K \in SUBSET Keys /\ IsFiniteSet(K)
  BY FS_Subset DEF KeysUnder, IsBucket
<1> HIDE DEF K
<1>2. next \in Locals /\ next.toDelete = locals.toDelete /\ next.err = locals.err
  BY <1>1, NextPageFacts DEF NextPage, Locals
<1>3. \A k \in K : Precedes(locals.token, k) =>
                      k \in next.page \/ (next.more /\ Precedes(next.token, k))
  BY <1>1, PageAdvances
<1> HIDE DEF next
<1>4. Swept(next, K)
  BY <1>2, <1>3 DEF Swept, K
<1>. QED BY <1>2, <1>4 DEF next, K

\* The call goes on.
LEMMA SweepGoesOn ==
    ASSUME CallsInv, NEW p \in Procs, NEW label \in Sweeping, NEW l, Goto(p, label, l),
           backend' = backend,
           label \in {"removeList", "renameList"} => l.page = {},
           label \in {"removeBatch", "renameBatch"} =>
               l.page = {} /\ ~l.more /\ l.toDelete # {},
           Swept(l, KeysUnder(bucket', name(p))),
           backend # "s3" => l.toDelete = {},
           faults' = 0 => \/ keyFor(name(p)) \notin DOMAIN bucket'
                          \/ call[p].op = "Rename" /\ l.err = "error"
    PROVE  SweepInv(p)' /\ ~Ends(p, "ok")
<1>1. pc'[p] = label /\ loc'[p] = l /\ call' = call
  BY DEF Goto, CallsInv, FrameTypeOK
<1>2. label \notin {"removeFile", "renameFile", "idle"}
  BY DEF Sweeping
<1>. QED BY <1>1, <1>2 DEF SweepInv, name, Ends

\* The call returns.
LEMMA SweepEnds ==
    ASSUME CallsInv, NEW p \in Procs, NEW kind, Return(p, kind)
    PROVE  SweepInv(p)' /\ (Ends(p, "ok") => kind = "ok")
<1>1. pc'[p] = "idle" /\ ret'[p].kind = kind
  BY DEF Return, ReturnWith, CallsInv, FrameTypeOK
<1>. QED BY <1>1 DEF SweepInv, Sweeping, Ends

\* The loop of GCS and Azure over a page and to the next one.
LEMMA SweepContinues ==
    ASSUME CallsInv, NEW p \in Procs, NEW work, NEW list,
           work \in {"removeObject", "renameCopy"}, list \in {"removeList", "renameList"},
           NEW l, Continue(p, work, list, l), backend' = backend,
           Swept(l, KeysUnder(bucket', name(p))), l.toDelete = {},
           faults' = 0 => \/ keyFor(name(p)) \notin DOMAIN bucket'
                          \/ call[p].op = "Rename" /\ l.err = "error"
    PROVE  /\ SweepInv(p)'
           /\ Ends(p, "ok") => l.err # "error" /\ KeysUnder(bucket', name(p)) = {}
<1>1. CASE l.page # {} /\ Goto(p, work, l)
  BY <1>1, SweepGoesOn DEF Sweeping
<1>2. CASE l.page = {} /\ l.more /\ Goto(p, list, l)
  BY <1>2, SweepGoesOn DEF Sweeping
<1>3. CASE l.page = {} /\ ~l.more /\ Return(p, IF l.err = "none" THEN "ok" ELSE l.err)
  <2>1. KeysUnder(bucket', name(p)) = {}
    BY <1>3 DEF Swept
  <2>. QED BY <1>3, <2>1, SweepEnds
<1>. QED BY <1>1, <1>2, <1>3 DEF Continue

\* A call that begins has passed over nothing.
LEMMA SweepBegins ==
    ASSUME CallsInv, NEW p \in Procs, pc[p] = "idle", loc'[p] = loc[p],
           pc'[p] \in {"removeFile", "renameFile"}
    PROVE  SweepInv(p)'
<1>1. loc'[p] = Cleared
  BY DEF CallsInv, Scope, ScopeOf
<1>. QED BY <1>1 DEF SweepInv, Sweeping

\* A step of another call, or of none, that leaves the tree alone.
LEMMA SweepStays ==
    ASSUME NEW p \in Procs, SweepInv(p), backend' = backend, faults' = 0 => faults = 0,
           pc'[p] = pc[p], loc'[p] = loc[p], call'[p] = call[p],
           pc[p] \in Sweeping => \A k : InTree(k, name(p)) => SameAt(bucket, bucket', k)
    PROVE  SweepInv(p)'
<1>1. name(p)' = name(p)
  BY DEF name
<1>2. pc[p] \in Sweeping =>
        /\ KeysUnder(bucket', name(p)) = KeysUnder(bucket, name(p))
        /\ keyFor(name(p)) \in DOMAIN bucket' <=> keyFor(name(p)) \in DOMAIN bucket
  BY DEF InTree, SameAt, KeysUnder
<1>. QED BY <1>1, <1>2 DEF SweepInv

-----------------------------------------------------------------------------
(* RemoveAll *)

\* A RemoveAll takes no step of another operation.
LEMMA RemoveSteps ==
    ASSUME CallsInv, NEW p \in Procs, Step(p), call[p].op = "RemoveAll"
    PROVE  \/ backend = "s3" /\ (S3RemoveFile(p) \/ S3RemoveList(p) \/ S3RemoveBatch(p))
           \/ /\ backend # "s3"
              /\ GCSRemoveFile(p) \/ AzureRemoveFile(p) \/ RemoveList(p) \/ RemoveObject(p)
<1>1. pc[p] \in {"removeFile", "removeList", "removeBatch", "removeObject"}
  BY StepActive DEF CallsInv, Scope, ScopeOf, LabelsOf
<1>2. CASE backend = "s3" /\ S3Step(p)
  BY <1>1, <1>2
     DEF S3Step, Mkdir, OpenRoot, S3OpenHead, OpenGet, ReaddirPage, Write, Close, S3RenameFile,
         S3RenameDelete, S3RenameList, S3RenameCopy, S3RenameBatch, StatRoot, StatFile,
         StatMarker, StatList
<1>3. CASE backend # "s3" /\ (GCSStep(p) \/ AzureStep(p))
  BY <1>1, <1>3
     DEF GCSStep, GCSOpenFile, GCSRemoveAll, GCSRename, GCSStat, GCSReaddir, GCSRenameFile,
         AzureStep, AzureOpenFile, AzureRemoveAll, AzureRename, AzureStat, AzureRenameFile,
         ReaddirPage, Mkdir, OpenRoot, OpenHead, OpenList, OpenGet, GCSOpenGet, Write, Close, RenameDelete,
         RenameList, RenameCopy, RenameObject, StatRoot, StatFile, StatMarker, StatList
<1>. QED BY <1>2, <1>3 DEF Step

\* A RemoveAll whose tree only loses objects keeps the invariant; if it succeeds without
\* a fault nothing is left.
LEMMA RemoveStep ==
    ASSUME CallsInv, NEW p \in Procs, Step(p), call[p].op = "RemoveAll", SweepInv(p)
    PROVE  /\ SweepInv(p)'
           /\ Ends(p, "ok") /\ faults' = 0 => \A k \in DOMAIN bucket' : ~InTree(k, name(p))
<1> DEFINE path == name(p)
           K == KeysUnder(bucket, path)
           Gone == keyFor(path) \notin DOMAIN bucket'
           Goal == /\ SweepInv(p)'
                   /\ Ends(p, "ok") /\ faults' = 0 => \A k \in DOMAIN bucket' : ~InTree(k, path)
<1>1. /\ pc[p] # "idle" /\ path \in Paths /\ loc[p] \in Locals /\ IsBucket(bucket)
      /\ backend' = backend /\ (faults' = 0 => faults = 0 /\ ~Fails)
      /\ IsBucket(bucket')
  BY StepActive, OperationOf, NoFault, StepFine DEF CallsInv, StoreTypeOK, Step, Stay, Fine
<1>2. KeysUnder(bucket', path) = {} /\ Gone => \A k \in DOMAIN bucket' : ~InTree(k, path)
  BY DEF KeysUnder, InTree
<1>3. ASSUME pc[p] = "removeFile", NEW err, Goto(p, "removeList", [loc[p] EXCEPT !.err = err]),
             faults' = 0 => Gone
      PROVE  Goal
  <2> DEFINE l == [loc[p] EXCEPT !.err = err]
  <2>1. loc[p] = Cleared
    BY <1>3 DEF SweepInv
  <2>2. Swept(l, KeysUnder(bucket', path)) /\ l.page = {} /\ l.toDelete = {}
    BY <1>1, <2>1, BeginSwept DEF Cleared
  <2>3. Goto(p, "removeList", l)
    BY <1>3
  <2> HIDE DEF l
  <2>. QED BY <1>1, <1>3, <2>2, <2>3, SweepGoesOn DEF Sweeping
<1>4. CASE S3RemoveFile(p) \/ GCSRemoveFile(p) \/ AzureRemoveFile(p)
  <2>1. loc[p] = [loc[p] EXCEPT !.err = loc[p].err]
    BY <1>1 DEF Locals
  <2>2. \E err : Goto(p, "removeList", [loc[p] EXCEPT !.err = err])
    BY <1>4, <2>1 DEF S3RemoveFile, GCSRemoveFile, AzureRemoveFile
  <2>3. pc[p] = "removeFile" /\ (faults' = 0 => Gone)
    BY <1>1, <1>4 DEF S3RemoveFile, GCSRemoveFile, AzureRemoveFile, DeleteObject, Without
  <2>. QED BY <1>3, <2>2, <2>3
<1> DEFINE next == NextPage(loc[p], K)
<1>5. CASE pc[p] = "removeList"
  <2>1. /\ next \in Locals /\ Swept(next, K) /\ next.toDelete = loc[p].toDelete
        /\ (backend # "s3" => loc[p].toDelete = {})
    BY <1>1, <1>5, PageSwept DEF SweepInv, Sweeping
  <2>2. faults' = 0 => keyFor(path) \notin DOMAIN bucket
    BY <1>1, <1>5 DEF SweepInv, Sweeping
  <2>3. CASE backend = "s3" /\ S3RemoveList(p)
    <3> DEFINE toDelete == next.toDelete \cup next.page
               l == [next EXCEPT !.toDelete = toDelete, !.page = {}]
    <3>1. /\ UNCHANGED bucket
          /\ \/ Return(p, "error")
             \/ next.more /\ Goto(p, "removeList", l)
             \/ ~next.more /\ toDelete # {} /\ Goto(p, "removeBatch", l)
             \/ ~next.more /\ toDelete = {} /\ Return(p, IF next.err = "none" THEN "ok" ELSE "error")
      BY <2>3 DEF S3RemoveList, ListObjects
    <3> HIDE DEF next
    <3>2. l.page = {} /\ l.toDelete = toDelete /\ l.more = next.more /\ l.token = next.token
      BY <2>1 DEF Locals
    <3>3. Swept(l, K) /\ (~next.more /\ toDelete = {} => K = {})
      BY <2>1, <3>2 DEF Swept
    <3> HIDE DEF l
    <3>4. CASE Goto(p, "removeList", l)
      BY <1>1, <2>2, <2>3, <3>1, <3>2, <3>3, <3>4, SweepGoesOn DEF Sweeping
    <3>5. CASE ~next.more /\ toDelete # {} /\ Goto(p, "removeBatch", l)
      BY <1>1, <2>2, <2>3, <3>1, <3>2, <3>3, <3>5, SweepGoesOn DEF Sweeping
    <3>6. CASE Return(p, "error")
      BY <3>6, SweepEnds
    <3>7. CASE ~next.more /\ toDelete = {} /\ Return(p, IF next.err = "none" THEN "ok" ELSE "error")
      BY <1>2, <2>2, <3>1, <3>3, <3>7, SweepEnds
    <3>. QED BY <3>1, <3>4, <3>5, <3>6, <3>7
  <2>4. CASE backend # "s3" /\ RemoveList(p)
    <3>1. /\ UNCHANGED bucket
          /\ Return(p, "error") \/ Continue(p, "removeObject", "removeList", next)
      BY <2>4 DEF RemoveList, ListObjects
    <3> HIDE DEF next
    <3>2. CASE Return(p, "error")
      BY <3>2, SweepEnds
    <3>3. CASE Continue(p, "removeObject", "removeList", next)
      <4>1. next.toDelete = {} /\ (faults' = 0 => Gone)
        BY <2>1, <2>2, <2>4, <3>1
      <4>2. /\ SweepInv(p)'
            /\ Ends(p, "ok") => KeysUnder(bucket', path) = {}
        BY <1>1, <2>1, <3>1, <3>3, <4>1, SweepContinues
      <4>. QED BY <1>2, <4>1, <4>2
    <3>. QED BY <3>1, <3>2, <3>3
  <2>. QED
    BY <1>5, <2>3, <2>4, RemoveSteps
       DEF S3RemoveFile, S3RemoveBatch, GCSRemoveFile, AzureRemoveFile, RemoveObject
<1>6. CASE backend = "s3" /\ S3RemoveBatch(p)
  <2>1. PICK ok \in BOOLEAN :
          DeleteObjects(loc[p].toDelete, ok) /\ Return(p, IF ok THEN "ok" ELSE "error")
    BY <1>6 DEF S3RemoveBatch
  <2>2. /\ loc[p].page = {} /\ ~loc[p].more /\ Swept(loc[p], K)
        /\ faults' = 0 => keyFor(path) \notin DOMAIN bucket
    BY <1>1, <1>6 DEF S3RemoveBatch, SweepInv, Sweeping
  <2>3. ASSUME ok, faults' = 0 PROVE Gone /\ KeysUnder(bucket', path) = {}
    <3>1. bucket' = Without(bucket, loc[p].toDelete)
      BY <1>1, <2>1, <2>3 DEF DeleteObjects
    <3>2. /\ DOMAIN bucket' \subseteq DOMAIN bucket
          /\ KeysUnder(bucket', path) = K \ loc[p].toDelete
      BY <3>1 DEF Without, KeysUnder
    <3> HIDE DEF K
    <3>. QED BY <2>2, <2>3, <3>2 DEF Swept
  <2>. QED BY <1>2, <2>1, <2>3, SweepEnds
<1>7. CASE backend # "s3" /\ RemoveObject(p)
  <2>1. PICK key \in loc[p].page, err \in Errors :
          /\ DeleteObject(key, err)
          /\ IF err = "none"
             THEN Continue(p, "removeObject", "removeList",
                           [loc[p] EXCEPT !.page = @ \ {key}, !.err = "none"])
             ELSE Return(p, "error")
    BY <1>7 DEF RemoveObject
  <2>2. CASE err # "none"
    BY <2>1, <2>2, SweepEnds
  <2>3. CASE err = "none"
    <3> DEFINE l == [loc[p] EXCEPT !.page = @ \ {key}, !.err = "none"]
    <3>1. bucket' = Without(bucket, {key}) /\ Continue(p, "removeObject", "removeList", l)
      BY <2>1, <2>3 DEF DeleteObject
    <3>2. /\ l.page = loc[p].page \ {key} /\ l.toDelete = {} /\ l.more = loc[p].more
          /\ l.token = loc[p].token
      BY <1>1, <1>7 DEF RemoveObject, SweepInv, Sweeping, Locals
    <3> HIDE DEF l
    <3>3. Swept(loc[p], K) /\ loc[p].toDelete = {} /\ (faults' = 0 => keyFor(path) \notin DOMAIN bucket)
      BY <1>1, <1>7 DEF RemoveObject, SweepInv, Sweeping
    <3>4. KeysUnder(bucket', path) = K \ {key} /\ DOMAIN bucket' \subseteq DOMAIN bucket
      <4>1. bucket' = Without(bucket, {key})
        BY <3>1
      <4>. QED BY <4>1 DEF Without, KeysUnder
    <3>5. Swept(l, KeysUnder(bucket', path)) /\ (faults' = 0 => Gone)
      BY <1>1, <3>2, <3>3, <3>4 DEF Swept
    <3>6. /\ SweepInv(p)'
          /\ Ends(p, "ok") => KeysUnder(bucket', path) = {}
      <4>1. Continue(p, "removeObject", "removeList", l)
        BY <3>1
      <4>2. l.toDelete = {} /\ (faults' = 0 => Gone) /\ Swept(l, KeysUnder(bucket', path))
        BY <3>2, <3>5
      <4>. QED BY <1>1, <4>1, <4>2, SweepContinues
    <3>. QED BY <1>2, <3>5, <3>6
  <2>. QED BY <2>2, <2>3
<1>. QED
  BY <1>4, <1>5, <1>6, <1>7, RemoveSteps DEF S3RemoveList, RemoveList
=============================================================================
