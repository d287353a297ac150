--------------------------- MODULE GCSFileSystem ---------------------------
(***************************************************************************)
(* internal/storage/gcs.go: the webdav.FileSystem on Google Cloud Storage. *)
(***************************************************************************)
EXTENDS BlobFileSystem

CONSTANT ExactSentinel   \* whether a request that finds no object fails with
                         \* storage.ErrObjectNotExist itself, not an error around it

-----------------------------------------------------------------------------
(* OpenFile *)

\* Only the sentinel itself is passed on as os.ErrNotExist.
GCSOpenGet(p) ==
    /\ pc[p] = "get"
    /\ UNCHANGED bucket
    /\ LET found == keyFor(name(p)) \in DOMAIN bucket
       IN  \/ Works /\ found /\ Return(p, "file")
           \/ Works /\ ~found /\ Return(p, IF ExactSentinel THEN "missing" ELSE "error")
           \/ Fails /\ Return(p, "error")

GCSOpenFile(p) == OpenRoot(p) \/ OpenHead(p) \/ OpenList(p) \/ GCSOpenGet(p)

-----------------------------------------------------------------------------
(* Readdir: the iterator returns a page's objects before its prefixes. *)

\* Mutant: names seen before are not skipped.
GCSEntriesUnseen(path, page, seen) == page \ {dirKeyFor(path)}

GCSEntries(path, page, seen) ==
    LET Named(E) == {e[Len(path) + 1] : e \in E}
        files == {e \in page \ {dirKeyFor(path)} :
                    Len(e) = Len(path) + 1 /\ e[Len(path) + 1] \notin Named(seen)}
        dirs  == {e \in page :
                    Len(e) > Len(path) + 1 /\ e[Len(path) + 1] \notin Named(seen \cup files)}
    IN  files \cup dirs

GCSReaddir(p) ==
    /\ pc[p] = "readdir"
    /\ \E ok \in BOOLEAN :
          /\ ListObjects(ok)
          /\ LET next == NextPage(loc[p], {Entry(k, name(p)) : k \in Listed(name(p))})
                 entries == next.entries \cup GCSEntries(name(p), next.page, next.entries)
             IN  \/ ~ok /\ Return(p, "error")
                 \/ ok /\ next.more /\ Goto(p, "readdir", [next EXCEPT !.entries = entries, !.page = {}])
                 \/ ok /\ ~next.more /\ ReturnWith(p, "dir", entries)

-----------------------------------------------------------------------------
(* RemoveAll and Rename *)

\* The error of the file's own delete is ignored.
GCSRemoveFile(p) ==
    /\ pc[p] = "removeFile"
    /\ \E err \in Errors : DeleteObject(keyFor(name(p)), err)
    /\ Goto(p, "removeList", loc[p])

GCSRemoveAll(p) == GCSRemoveFile(p) \/ RemoveList(p) \/ RemoveObject(p)

\* Only the sentinel itself makes the name a directory.
GCSRenameFile(p) ==
    /\ pc[p] = "renameFile"
    /\ \E err \in Errors :
          /\ CopyObject(keyFor(name(p)), keyFor(dst(p)), err)
          /\ LET directory == err = "missing" /\ ExactSentinel
             IN  \/ err = "none" /\ Goto(p, "renameDelete", loc[p])
                 \/ directory /\ Goto(p, "renameList", loc[p])
                 \/ err # "none" /\ ~directory /\ Return(p, "error")

GCSRename(p) ==
    \/ GCSRenameFile(p) \/ RenameDelete(p)
    \/ RenameList(p) \/ RenameCopy(p) \/ RenameObject(p)

-----------------------------------------------------------------------------

GCSStat(p) == StatRoot(p) \/ StatFile(p) \/ StatMarker(p) \/ StatList(p)

\* One step of the call that goroutine p runs.
GCSStep(p) ==
    \/ Mkdir(p) \/ GCSOpenFile(p) \/ GCSReaddir(p) \/ Write(p) \/ Close(p)
    \/ GCSRemoveAll(p) \/ GCSRename(p) \/ GCSStat(p)
=============================================================================
