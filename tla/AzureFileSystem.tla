-------------------------- MODULE AzureFileSystem --------------------------
(***************************************************************************)
(* internal/storage/azure.go: the webdav.FileSystem on Azure Blob Storage. *)
(* copyBlob counts as made when StartCopyFromURL returns, as it is for     *)
(* copies within an account (docs/cloud-azure.md:111).                     *)
(***************************************************************************)
EXTENDS BlobFileSystem

\* The error of the file's own delete is the result if nothing else is deleted.
AzureRemoveFile(p) ==
    /\ pc[p] = "removeFile"
    /\ \E err \in Errors :
          /\ DeleteObject(keyFor(name(p)), err)
          /\ Goto(p, "removeList", [loc[p] EXCEPT !.err = err])

AzureRemoveAll(p) == AzureRemoveFile(p) \/ RemoveList(p) \/ RemoveObject(p)

\* Only a missing blob makes the name a directory.
AzureRenameFile(p) ==
    /\ pc[p] = "renameFile"
    /\ \E err \in Errors :
          /\ CopyObject(keyFor(name(p)), keyFor(dst(p)), err)
          /\ \/ err = "none" /\ Goto(p, "renameDelete", loc[p])
             \/ err = "missing" /\ Goto(p, "renameList", loc[p])
             \/ err = "error" /\ Return(p, "error")

AzureRename(p) ==
    \/ AzureRenameFile(p) \/ RenameDelete(p)
    \/ RenameList(p) \/ RenameCopy(p) \/ RenameObject(p)

AzureOpenFile(p) == OpenRoot(p) \/ OpenHead(p) \/ OpenList(p) \/ OpenGet(p)

AzureStat(p) == StatRoot(p) \/ StatFile(p) \/ StatMarker(p) \/ StatList(p)

\* One step of the call that goroutine p runs.
AzureStep(p) ==
    \/ Mkdir(p) \/ AzureOpenFile(p) \/ ReaddirPage(p) \/ Write(p) \/ Close(p)
    \/ AzureRemoveAll(p) \/ AzureRename(p) \/ AzureStat(p)
=============================================================================
