--------------------------- MODULE BlobFileSystem ---------------------------
(***************************************************************************)
(* What gcs.go and azure.go have in common and s3.go has not: a directory  *)
(* needs no marker to be opened, and objects are deleted one request at a  *)
(* time, while the listing they come from is still being read.             *)
(***************************************************************************)
EXTENDS FileSystemOps

\* Deleting an object that does not exist is an error.
DeleteObject(key, err) ==
    \/ err = "none" /\ Works /\ key \in DOMAIN bucket /\ bucket' = Without(bucket, {key})
    \/ err = "missing" /\ Works /\ key \notin DOMAIN bucket /\ UNCHANGED bucket
    \/ err = "error" /\ Fails /\ bucket' \in {bucket, Without(bucket, {key})}

Errors == {"none", "missing", "error"}

\* The first of the listed keys that are left.
IsNext(key, page) == key \in page /\ \A k \in page \ {key} : Precedes(key, k)

\* Mutant: the loop ends with its first page.
ContinueOnePage(p, work, list, l) ==
    \/ l.page # {} /\ Goto(p, work, l)
    \/ l.page = {} /\ Return(p, IF l.err = "none" THEN "ok" ELSE l.err)

\* The loop over a listing: the page's next object, the next page, or the end.
Continue(p, work, list, l) ==
    \/ l.page # {} /\ Goto(p, work, l)
    \/ l.page = {} /\ l.more /\ Goto(p, list, l)
    \/ l.page = {} /\ ~l.more /\ Return(p, IF l.err = "none" THEN "ok" ELSE l.err)

-----------------------------------------------------------------------------
(* OpenFile *)

Opened(p) ==
    \/ call[p].op = "Put" /\ Return(p, "isDir")
    \/ call[p].op = "Read" /\ Goto(p, "readdir", loc[p])
    \/ call[p].op = "Open" /\ Return(p, "dir")

\* Mutant: a directory needs its marker.
OpenHeadOnly(p) ==
    /\ pc[p] = "open"
    /\ name(p) # <<>>
    /\ \E dir \in BOOLEAN :
          /\ HeadObject(dirKeyFor(name(p)), dir)
          /\ IF dir THEN Opened(p) ELSE Goto(p, IF call[p].op = "Put" THEN "write" ELSE "get", loc[p])

OpenHead(p) ==
    /\ pc[p] = "open"
    /\ name(p) # <<>>
    /\ \E dir \in BOOLEAN :
          /\ HeadObject(dirKeyFor(name(p)), dir)
          /\ IF dir THEN Opened(p) ELSE Goto(p, "openList", loc[p])

\* Any object below makes a directory; an error of the listing counts as none.
OpenList(p) ==
    /\ pc[p] = "openList"
    /\ \E ok \in BOOLEAN :
          /\ ListObjects(ok)
          /\ IF ok /\ KeysUnder(bucket, name(p)) # {}
             THEN Opened(p)
             ELSE Goto(p, IF call[p].op = "Put" THEN "write" ELSE "get", loc[p])

-----------------------------------------------------------------------------
(* RemoveAll, after the file's own delete *)

RemoveList(p) ==
    /\ pc[p] = "removeList"
    /\ \E ok \in BOOLEAN :
          /\ ListObjects(ok)
          /\ IF ok
             THEN Continue(p, "removeObject", "removeList",
                           NextPage(loc[p], KeysUnder(bucket, name(p))))
             ELSE Return(p, "error")

\* One deleted object makes up for the error of the file's delete.
RemoveObject(p) ==
    /\ pc[p] = "removeObject"
    /\ \E key \in loc[p].page, err \in Errors :
          /\ IsNext(key, loc[p].page)
          /\ DeleteObject(key, err)
          /\ IF err = "none"
             THEN Continue(p, "removeObject", "removeList",
                           [loc[p] EXCEPT !.page = @ \ {key}, !.err = "none"])
             ELSE Return(p, "error")

-----------------------------------------------------------------------------
(* Rename, after the copy of a file or of an object *)

\* The error of this delete is ignored.
RenameDelete(p) ==
    /\ pc[p] = "renameDelete"
    /\ \E err \in Errors : DeleteObject(keyFor(name(p)), err)
    /\ Return(p, "ok")

\* Mutant: the first object is deleted before it is copied.
RenameListDeleting(p) ==
    /\ pc[p] = "renameList"
    /\ \E ok \in BOOLEAN :
          /\ ListObjects(ok)
          /\ IF ok
             THEN Continue(p, "renameObject", "renameList",
                           NextPage(loc[p], KeysUnder(bucket, name(p))))
             ELSE Return(p, "error")

\* A name below which nothing is found has been renamed, too.
RenameList(p) ==
    /\ pc[p] = "renameList"
    /\ \E ok \in BOOLEAN :
          /\ ListObjects(ok)
          /\ IF ok
             THEN Continue(p, "renameCopy", "renameList",
                           NextPage(loc[p], KeysUnder(bucket, name(p))))
             ELSE Return(p, "error")

\* Mutant: the copy's error is not looked at.
RenameCopyUnchecked(p) ==
    /\ pc[p] = "renameCopy"
    /\ \E src \in loc[p].page, err \in Errors :
          /\ IsNext(src, loc[p].page)
          /\ CopyObject(src, Rebase(src, name(p), dst(p)), err)
    /\ Goto(p, "renameObject", loc[p])

RenameCopy(p) ==
    /\ pc[p] = "renameCopy"
    /\ \E src \in loc[p].page, err \in Errors :
          /\ IsNext(src, loc[p].page)
          /\ CopyObject(src, Rebase(src, name(p), dst(p)), err)
          /\ IF err = "none" THEN Goto(p, "renameObject", loc[p]) ELSE Return(p, "error")

\* Each object is deleted right after its copy; the first error ends the call
\* and leaves the tree in two parts.
RenameObject(p) ==
    /\ pc[p] = "renameObject"
    /\ \E key \in loc[p].page, err \in Errors :
          /\ IsNext(key, loc[p].page)
          /\ DeleteObject(key, err)
          /\ IF err = "none"
             THEN Continue(p, "renameCopy", "renameList", [loc[p] EXCEPT !.page = @ \ {key}])
             ELSE Return(p, "error")

BlobLabels ==
    {"idle", "mkdir", "open", "openList", "get", "readdir", "write", "removeFile",
     "removeList", "removeObject", "renameFile", "renameDelete", "renameList",
     "renameCopy", "renameObject", "statFile", "statMarker", "statList"}
=============================================================================
