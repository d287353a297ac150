-------------------------- MODULE FileSystemOps --------------------------
(***************************************************************************)
(* The operations that s3.go, gcs.go and azure.go implement the same way:  *)
(* Mkdir, Stat, and the file that OpenFile returns.  One action per API    *)
(* request of a call, together with the local code up to the next request; *)
(* the first request of a call follows Begin.                              *)
(***************************************************************************)
EXTENDS FileSystemCalls

-----------------------------------------------------------------------------
(* Mkdir *)

\* Stores the marker; neither the name nor its parent is looked up.
Mkdir(p) ==
    /\ pc[p] = "mkdir"
    /\ \E ok \in BOOLEAN :
          /\ PutObject(dirKeyFor(name(p)), Folder, ok)
          /\ Return(p, IF ok THEN "ok" ELSE "error")

-----------------------------------------------------------------------------
(* OpenFile's root case and last case, and the file it returns: Readdir of  *)
(* a directory, Write and Close of an upload.                               *)

OpenRoot(p) ==
    /\ pc[p] = "open"
    /\ name(p) = <<>>
    /\ \/ call[p].op = "Read" /\ Goto(p, "readdir", loc[p])
       \/ call[p].op = "Open" /\ Return(p, "dir")
    /\ UNCHANGED <<bucket, faults>>

OpenGet(p) ==
    /\ pc[p] = "get"
    /\ UNCHANGED bucket
    /\ \/ /\ Works
          /\ Return(p, IF keyFor(name(p)) \in DOMAIN bucket THEN "file" ELSE "missing")
       \/ /\ Fails
          /\ Return(p, "error")

\* Readdir lists "/" when neither a prefix nor a name precedes it.
Listed(path) ==
    IF path = <<>> /\ ~Prefixed THEN {} ELSE KeysUnder(bucket, path)

\* Mutant: names seen before are not skipped.
NewEntriesUnseen(path, page, seen) == page \ {dirKeyFor(path)}

\* Within a page the common prefixes come first; a name seen before is skipped.
NewEntries(path, page, seen) ==
    LET Named(E) == {e[Len(path) + 1] : e \in E}
        dirs  == {e \in page : Len(e) > Len(path) + 1 /\ e[Len(path) + 1] \notin Named(seen)}
        files == {e \in page \ {dirKeyFor(path)} :
                    Len(e) = Len(path) + 1 /\ e[Len(path) + 1] \notin Named(seen \cup dirs)}
    IN  dirs \cup files

ReaddirPage(p) ==
    /\ pc[p] = "readdir"
    /\ \E ok \in BOOLEAN :
          /\ ListObjects(ok)
          /\ LET next == NextPage(loc[p], {Entry(k, name(p)) : k \in Listed(name(p))})
                 entries == next.entries \cup NewEntries(name(p), next.page, next.entries)
             IN  \/ ~ok /\ Return(p, "error")
                 \/ ok /\ next.more /\ Goto(p, "readdir", [next EXCEPT !.entries = entries, !.page = {}])
                 \/ ok /\ ~next.more /\ ReturnWith(p, "dir", entries)

\* Mutant: Write reports less than it buffered, and the caller repeats the chunk.
WriteRepeated(p) ==
    /\ pc[p] = "write"
    /\ Goto(p, "write", [loc[p] EXCEPT !.chunks = @ + 1])
    /\ UNCHANGED <<bucket, faults>>

\* The handler copies the body into the buffer as the client sends it.
Write(p) ==
    /\ pc[p] = "write"
    /\ loc[p].chunks < Chunks
    /\ Goto(p, "write", [loc[p] EXCEPT !.chunks = @ + 1])
    /\ UNCHANGED <<bucket, faults>>

\* The body ended, or the client went away: the handler closes the file in
\* either case, and Close stores what the buffer holds.
Close(p) ==
    /\ pc[p] = "write"
    /\ \E ok \in BOOLEAN :
          /\ PutObject(keyFor(name(p)), [body |-> call[p].body, chunks |-> loc[p].chunks], ok)
          /\ Return(p, IF ~ok THEN "error"
                       ELSE IF loc[p].chunks < Chunks THEN "aborted" ELSE "ok")

-----------------------------------------------------------------------------
(* Stat: file, marker, virtual directory, in this order; any error of the   *)
(* service counts as absence.                                               *)

StatRoot(p) ==
    /\ pc[p] = "statFile"
    /\ name(p) = <<>>
    /\ Return(p, "dir")
    /\ UNCHANGED <<bucket, faults>>

StatFile(p) ==
    /\ pc[p] = "statFile"
    /\ name(p) # <<>>
    /\ \E found \in BOOLEAN :
          /\ HeadObject(keyFor(name(p)), found)
          /\ IF found THEN Return(p, "file") ELSE Goto(p, "statMarker", loc[p])

\* Mutant: a directory needs its marker.
StatMarkerOnly(p) ==
    /\ pc[p] = "statMarker"
    /\ \E found \in BOOLEAN :
          /\ HeadObject(dirKeyFor(name(p)), found)
          /\ Return(p, IF found THEN "dir" ELSE "missing")

StatMarker(p) ==
    /\ pc[p] = "statMarker"
    /\ \E found \in BOOLEAN :
          /\ HeadObject(dirKeyFor(name(p)), found)
          /\ IF found THEN Return(p, "dir") ELSE Goto(p, "statList", loc[p])

StatList(p) ==
    /\ pc[p] = "statList"
    /\ \E ok \in BOOLEAN :
          /\ ListObjects(ok)
          /\ Return(p, IF ok /\ KeysUnder(bucket, name(p)) # {} THEN "dir" ELSE "missing")
=============================================================================
