------------------------ MODULE FileSystemProperties ------------------------
(***************************************************************************)
(* What a cloud file system promises, whichever service it runs on.        *)
(***************************************************************************)
EXTENDS FileSystemCalls

-----------------------------------------------------------------------------
(* Vocabulary *)

Ends(p, kind) == pc[p] # "idle" /\ pc'[p] = "idle" /\ ret'[p].kind = kind

\* Two calls work in different subtrees.
Within(path, tree) == Len(tree) <= Len(path) /\ SubSeq(path, 1, Len(tree)) = tree
PathsOf(c) == IF c.op = "Rename" THEN {c.name, c.dst} ELSE {c.name}
Apart(c, d) ==
    \A x \in PathsOf(c), y \in PathsOf(d) : ~Within(x, y) /\ ~Within(y, x)

\* A call that begins shares no subtree with a call in flight.  Nothing in the
\* code ensures this: it is the assumption under which a call can keep its promise.
IsolatedBegin(p, c) ==
    /\ \A q \in Procs : pc[q] # "idle" => Apart(c, call[q])
    /\ Begin(p, c)

\* A step of the call goroutine p runs.
Moves(p) == pc[p] # "idle" /\ (pc'[p] # pc[p] \/ loc'[p] # loc[p])

\* Every object of the tree is at its old key or at its new one.
Kept(b, now, old, new) ==
    \A k \in DOMAIN b : InTree(k, old) =>
        \E j \in {k, Rebase(k, old, new)} : j \in DOMAIN now /\ now[j] = b[k]

-----------------------------------------------------------------------------
(* Safety *)

\* A call changes nothing outside its own name (and destination): whatever pages
\* it listed and however it interleaves with others, the keys it deletes or
\* overwrites lie below the paths it was called with (RemoveAll, Rename, Close).
StaysInside ==
    [][\A k \in DOMAIN bucket \cup DOMAIN bucket' :
          ~SameAt(bucket, bucket', k) =>
              \E p \in Procs : pc[p] # "idle" /\ Footprint(call[p], k)]_vars

\* A Rename never loses data: after each of its steps, also after failed requests
\* and a crash in the middle, every object that was there when it began is still
\* at its old key or already at its new one, with its content (Rename).
RenameKeepsData ==
    [][\A p \in Procs :
          pc[p] # "idle" /\ call[p].op = "Rename" =>
              Kept(before[p], bucket', name(p), dst(p))]_vars

\* "Rename copies src to dst then deletes src" (s3.go:215, gcs.go:197, azure.go:209):
\* an object that a Rename deletes is at its new key with the content it had when
\* it was deleted.
RenameDeletesCopied ==
    [][\A p \in Procs, k \in DOMAIN bucket \ DOMAIN bucket' :
          call[p].op = "Rename" /\ Moves(p) =>
              LET new == Rebase(k, name(p), dst(p))
              IN  new \in DOMAIN bucket' /\ bucket'[new] = bucket[k]]_vars

\* Without a failing request no call of its own subtree reports an error: the MOVE of a
\* directory "runs as a server-side copy + delete" (docs/cloud-gcs.md:101), and large
\* folders are a matter of cost only ("Large folder moves multiply by the number of
\* objects", docs/cloud-s3.md:129; RemoveAll, Rename).
FaultFreeSucceeds ==
    [][\A p \in Procs : faults' = 0 => ~Ends(p, "error")]_vars

\* "RemoveAll deletes a file or all objects under a prefix" (s3.go:169): when it
\* reports success there is nothing left at or below the name, whatever requests
\* failed on the way.
RemoveOkRemoves ==
    [][\A p \in Procs :
          call[p].op = "RemoveAll" /\ Ends(p, "ok") =>
              \A k \in DOMAIN bucket' : ~InTree(k, name(p))]_vars

\* Readdir returns each child once, as a file or as a directory, whatever pages
\* the listing came in (s3.go Readdir).
ReaddirExact ==
    [][\A p \in Procs :
          call[p].op = "Read" /\ Ends(p, "dir") =>
              LET path == name(p)
                  child(e) == e[Len(path) + 1]
                  listed == ret'[p].entries
              IN  /\ {child(e) : e \in listed} =
                       {child(k) : k \in KeysUnder(before[p], path) \ {dirKeyFor(path)}}
                  /\ \A d, e \in listed : child(d) = child(e) => d = e]_vars
=============================================================================
