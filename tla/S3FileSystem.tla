---------------------------- MODULE S3FileSystem ----------------------------
(***************************************************************************)
(* internal/storage/s3.go: the webdav.FileSystem on Amazon S3.             *)
(***************************************************************************)
EXTENDS FileSystemOps

CONSTANT Escapes   \* names that hold a percent escape -> the names they decode to

ASSUME EscapesAssumption == Escapes \in [DOMAIN Escapes -> Nat \ {Slash}]

-----------------------------------------------------------------------------
(* OpenFile *)

\* The request for the marker: any error counts as "not a directory".  A
\* directory opened for writing is a handle on which Write fails.
S3OpenHead(p) ==
    /\ pc[p] = "open"
    /\ name(p) # <<>>
    /\ \E dir \in BOOLEAN :
          /\ HeadObject(dirKeyFor(name(p)), dir)
          /\ \/ /\ dir /\ call[p].op = "Put"
                /\ Return(p, "isDir")
             \/ /\ dir /\ call[p].op = "Read"
                /\ Goto(p, "readdir", loc[p])
             \/ /\ dir /\ call[p].op = "Open"
                /\ Return(p, "dir")
             \/ /\ ~dir /\ call[p].op = "Put"
                /\ Goto(p, "write", loc[p])
             \/ /\ ~dir /\ call[p].op \in {"Read", "Open"}
                /\ Goto(p, "get", loc[p])

-----------------------------------------------------------------------------
(* RemoveAll *)

\* Deleting a key that does not exist succeeds.
S3RemoveFile(p) ==
    /\ pc[p] = "removeFile"
    /\ \E ok \in BOOLEAN :
          /\ \/ ok /\ Works /\ bucket' = Without(bucket, {keyFor(name(p))})
             \/ ~ok /\ Fails /\ bucket' \in {bucket, Without(bucket, {keyFor(name(p))})}
          /\ Goto(p, "removeList", [loc[p] EXCEPT !.err = IF ok THEN "none" ELSE "error"])

S3RemoveList(p) ==
    /\ pc[p] = "removeList"
    /\ \E ok \in BOOLEAN :
          /\ ListObjects(ok)
          /\ LET next == NextPage(loc[p], KeysUnder(bucket, name(p)))
                 toDelete == next.toDelete \cup next.page
             IN  \/ ~ok /\ Return(p, "error")
                 \/ /\ ok /\ next.more
                    /\ Goto(p, "removeList", [next EXCEPT !.toDelete = toDelete, !.page = {}])
                 \/ /\ ok /\ ~next.more /\ toDelete # {}
                    /\ Goto(p, "removeBatch", [next EXCEPT !.toDelete = toDelete, !.page = {}])
                 \/ /\ ok /\ ~next.more /\ toDelete = {}
                    /\ Return(p, IF next.err = "none" THEN "ok" ELSE "error")

\* The keys the answer reports as not deleted are not looked at, and the error
\* of the file's own delete is dropped as soon as anything was listed.
S3RemoveBatch(p) ==
    /\ pc[p] = "removeBatch"
    /\ \E ok \in BOOLEAN :
          /\ DeleteObjects(loc[p].toDelete, ok)
          /\ Return(p, IF ok THEN "ok" ELSE "error")

-----------------------------------------------------------------------------
(* Rename *)

\* The source of a copy is sent as it is, in a header that the service decodes;
\* the destination is encoded by the client library.
CopySource(key) ==
    [i \in DOMAIN key |-> IF key[i] \in DOMAIN Escapes THEN Escapes[key[i]] ELSE key[i]]

\* Mutants: the copy's error is not looked at; a missing file is not retried as a
\* directory.
S3RenameFileUnchecked(p) ==
    /\ pc[p] = "renameFile"
    /\ \E err \in {"none", "missing", "error"} :
          CopyObject(CopySource(keyFor(name(p))), keyFor(dst(p)), err)
    /\ Goto(p, "renameDelete", loc[p])

S3RenameFileNoDirectory(p) ==
    /\ pc[p] = "renameFile"
    /\ \E err \in {"none", "missing", "error"} :
          /\ CopyObject(CopySource(keyFor(name(p))), keyFor(dst(p)), err)
          /\ IF err = "none" THEN Goto(p, "renameDelete", loc[p]) ELSE Return(p, "error")

\* As a file first; every error, not just "no such key", makes it a directory.
S3RenameFile(p) ==
    /\ pc[p] = "renameFile"
    /\ \E err \in {"none", "missing", "error"} :
          /\ CopyObject(CopySource(keyFor(name(p))), keyFor(dst(p)), err)
          /\ Goto(p, IF err = "none" THEN "renameDelete" ELSE "renameList",
                     [loc[p] EXCEPT !.err = err])

\* The error of this delete is ignored.
S3RenameDelete(p) ==
    /\ pc[p] = "renameDelete"
    /\ \/ Works /\ bucket' = Without(bucket, {keyFor(name(p))})
       \/ Fails /\ bucket' \in {bucket, Without(bucket, {keyFor(name(p))})}
    /\ Return(p, "ok")

\* The loop of Rename after a page has been fetched or an object copied.  With
\* nothing copied the error of the file copy is the result.
S3RenameLoop(p, l) ==
    \/ l.page # {} /\ Goto(p, "renameCopy", l)
    \/ l.page = {} /\ l.more /\ Goto(p, "renameList", l)
    \/ l.page = {} /\ ~l.more /\ l.toDelete # {} /\ Goto(p, "renameBatch", l)
    \/ l.page = {} /\ ~l.more /\ l.toDelete = {} /\ Return(p, l.err)

S3RenameList(p) ==
    /\ pc[p] = "renameList"
    /\ \E ok \in BOOLEAN :
          /\ ListObjects(ok)
          /\ IF ok
             THEN S3RenameLoop(p, NextPage(loc[p], KeysUnder(bucket, name(p))))
             ELSE Return(p, "error")

\* Mutant: an object whose copy failed is deleted with the others.
S3RenameCopyUnchecked(p) ==
    /\ pc[p] = "renameCopy"
    /\ \E src \in loc[p].page, err \in {"none", "missing", "error"} :
          /\ \A k \in loc[p].page \ {src} : Precedes(src, k)
          /\ CopyObject(CopySource(src), Rebase(src, name(p), dst(p)), err)
          /\ S3RenameLoop(p, [loc[p] EXCEPT !.page = @ \ {src}, !.toDelete = @ \cup {src}])

\* The page's objects are copied in listing order; the first error ends the call
\* and leaves the copies behind.
S3RenameCopy(p) ==
    /\ pc[p] = "renameCopy"
    /\ \E src \in loc[p].page, err \in {"none", "missing", "error"} :
          /\ \A k \in loc[p].page \ {src} : Precedes(src, k)
          /\ CopyObject(CopySource(src), Rebase(src, name(p), dst(p)), err)
          /\ IF err = "none"
             THEN S3RenameLoop(p, [loc[p] EXCEPT !.page = @ \ {src}, !.toDelete = @ \cup {src}])
             ELSE Return(p, "error")

S3RenameBatch(p) ==
    /\ pc[p] = "renameBatch"
    /\ \E ok \in BOOLEAN :
          /\ DeleteObjects(loc[p].toDelete, ok)
          /\ Return(p, IF ok THEN "ok" ELSE "error")

-----------------------------------------------------------------------------

\* One step of the call that goroutine p runs.
S3Step(p) ==
    \/ Mkdir(p)
    \/ OpenRoot(p) \/ S3OpenHead(p) \/ OpenGet(p) \/ ReaddirPage(p) \/ Write(p) \/ Close(p)
    \/ S3RemoveFile(p) \/ S3RemoveList(p) \/ S3RemoveBatch(p)
    \/ S3RenameFile(p) \/ S3RenameDelete(p)
    \/ S3RenameList(p) \/ S3RenameCopy(p) \/ S3RenameBatch(p)
    \/ StatRoot(p) \/ StatFile(p) \/ StatMarker(p) \/ StatList(p)

S3Labels ==
    {"idle", "mkdir", "open", "get", "readdir", "write", "removeFile", "removeList",
     "removeBatch", "renameFile", "renameDelete", "renameList", "renameCopy",
     "renameBatch", "statFile", "statMarker", "statList"}
=============================================================================
