------------------------------ MODULE FileTree ------------------------------
(***************************************************************************)
(* What a webdav.FileSystem promises, without API requests: a tree of      *)
(* files and directories on which every call takes effect at one moment,   *)
(* when it returns.  Once a request to the storage service has failed or   *)
(* the process has been restarted, a call may leave part of its effect     *)
(* behind, but never outside its own subtree, and a Rename never loses an  *)
(* object.  Where absence is not told from failure (detects is FALSE), a   *)
(* Rename of a directory fails and changes nothing.                        *)
(***************************************************************************)
EXTENDS ObjectStore

CONSTANTS Procs, Calls, InitialBuckets

VARIABLES
    store,    \* the objects
    running,  \* the call each goroutine runs, or NoCall
    result,   \* what its last call returned
    healthy,  \* nothing has failed so far
    detects   \* absence is told from failure

treeVars == <<store, running, result, healthy, detects>>

TreeInit ==
    /\ store \in InitialBuckets
    /\ running = [p \in Procs |-> NoCall]
    /\ result = [p \in Procs |-> "none"]
    /\ healthy = TRUE
    /\ detects \in BOOLEAN

-----------------------------------------------------------------------------
(* Calls without a fault *)

IsFile(b, path) == keyFor(path) \in DOMAIN b
IsDirectory(b, path) == path = <<>> \/ KeysUnder(b, path) # {}
HasMarker(b, path) == path = <<>> \/ dirKeyFor(path) \in DOMAIN b

\* A file, or else everything below the name.
Subject(b, path) == IF IsFile(b, path) THEN {keyFor(path)} ELSE KeysUnder(b, path)

Renamed(b, c) ==
    LET moved == Subject(b, c.name)
        new   == {Rebase(k, c.name, c.dst) : k \in moved}
    IN  [k \in (DOMAIN b \ moved) \cup new |->
            IF k \in new THEN b[Rebase(k, c.dst, c.name)] ELSE b[k]]

Uploaded(b, c, chunks) == Store(b, keyFor(c.name), [body |-> c.body, chunks |-> chunks])

\* What a read-only call answers.  A directory without a marker may look missing to
\* OpenFile (it does on S3), never to Stat.
Answers(b, c) ==
    {kind \in {"file", "dir", "missing"} :
        /\ kind = "file" => IsFile(b, c.name)
        /\ kind = "dir" => IsDirectory(b, c.name)
        /\ kind = "missing" => ~IsFile(b, c.name) /\ ~HasMarker(b, c.name)
        /\ c.op = "Stat" /\ kind = "dir" => ~IsFile(b, c.name)
        /\ c.op = "Stat" /\ kind = "missing" => ~IsDirectory(b, c.name)}

\* Where absence looks like a failure, an absent file can neither be read nor looked
\* for as a directory to rename.
Undetected(b, c) ==
    /\ ~detects /\ ~IsFile(b, c.name)
    /\ c.op = "Rename" \/ (c.op \in {"Read", "Open"} /\ ~IsDirectory(b, c.name))

\* The stores a call may leave when it returns kind.  An upload that breaks off is
\* stored as far as it came, and no upload takes the name of a directory that has its
\* marker.  Renaming nothing and removing nothing may succeed.
Outcomes(b, c, kind) ==
    CASE Undetected(b, c) -> {x \in {b} : kind = "error"}
      [] c.op = "Mkdir" /\ kind = "ok" -> {Store(b, dirKeyFor(c.name), Folder)}
      [] c.op = "Put" /\ kind = "ok" /\ ~HasMarker(b, c.name) -> {Uploaded(b, c, Chunks)}
      [] c.op = "Put" /\ kind = "aborted" /\ ~HasMarker(b, c.name) ->
            {Uploaded(b, c, n) : n \in 0..(Chunks - 1)}
      [] c.op = "Put" /\ kind = "isDir" /\ IsDirectory(b, c.name) -> {b}
      [] c.op = "RemoveAll" /\ kind = "ok" -> {Without(b, {k \in DOMAIN b : InTree(k, c.name)})}
      [] c.op = "Rename" /\ kind = "ok" -> {Renamed(b, c)}
      [] c.op \in {"RemoveAll", "Rename"} /\ kind = "missing" /\ Subject(b, c.name) = {} -> {b}
      [] c.op \in {"Stat", "Read", "Open"} /\ kind \in Answers(b, c) -> {b}
      [] OTHER -> {}

-----------------------------------------------------------------------------
(* Calls after a fault *)

\* Only a part of the call's effect.
Partly(b, c, now) ==
    \A k \in DOMAIN b \cup DOMAIN now :
        \/ SameAt(b, now, k)
        \/ c.op = "Mkdir" /\ k = dirKeyFor(c.name) /\ k \in DOMAIN now /\ now[k] = Folder
        \/ c.op = "Put" /\ k = keyFor(c.name) /\ k \in DOMAIN now /\ now[k].body = c.body
        \/ c.op = "RemoveAll" /\ InTree(k, c.name) /\ k \notin DOMAIN now
        \/ /\ c.op = "Rename" /\ InTree(k, c.name) /\ k \notin DOMAIN now
           /\ LET new == Rebase(k, c.name, c.dst)
              IN  new \in DOMAIN now /\ now[new] = b[k]
        \/ /\ c.op = "Rename" /\ InTree(k, c.dst)
           /\ LET old == Rebase(k, c.dst, c.name)
              IN  old \in DOMAIN b /\ k \in DOMAIN now /\ now[k] = b[old]

\* What a success still means: a directory or a file was stored, a Rename has
\* copied everything.  It does not mean that anything was removed.
Assured(b, c, now) ==
    /\ c.op = "Mkdir" => now \in Outcomes(b, c, "ok")
    /\ c.op = "Put" => now = Uploaded(b, c, Chunks)
    /\ c.op = "Rename" /\ Plain(b, c.name) =>
          \A k \in Subject(b, c.name) :
              LET new == Rebase(k, c.name, c.dst)
              IN  new \in DOMAIN now /\ now[new] = b[k]

-----------------------------------------------------------------------------

Start(p, c) ==
    /\ running[p] = NoCall
    /\ running' = [running EXCEPT ![p] = c]
    /\ result' = [result EXCEPT ![p] = "none"]
    /\ UNCHANGED <<store, healthy, detects>>

Finish(p) ==
    /\ running[p] # NoCall
    /\ running' = [running EXCEPT ![p] = NoCall]
    /\ healthy' \in {healthy, FALSE}
    /\ \E kind \in Kinds :
          /\ result' = [result EXCEPT ![p] = kind]
          /\ IF healthy'
             THEN store' \in Outcomes(store, running[p], kind)
             ELSE /\ Partly(store, running[p], store')
                  /\ kind = "ok" => Assured(store, running[p], store')
    /\ UNCHANGED detects

\* A request fails; the call it belongs to goes on.
Falter == healthy' = FALSE /\ UNCHANGED <<store, running, result, detects>>

\* The process restarts: every call in flight has had part of its effect.
Restart ==
    /\ healthy' = FALSE
    /\ UNCHANGED detects
    /\ running' = [p \in Procs |-> NoCall]
    /\ result' = [p \in Procs |-> IF running[p] = NoCall THEN result[p] ELSE "lost"]
    /\ \A k \in DOMAIN store \cup DOMAIN store' :
          \/ SameAt(store, store', k)
          \/ \E p \in Procs :
                LET own == [j \in {j \in DOMAIN store' : Footprint(running[p], j)} |-> store'[j]]
                    old == [j \in {j \in DOMAIN store : Footprint(running[p], j)} |-> store[j]]
                IN  Footprint(running[p], k) /\ Partly(old, running[p], own)

TreeNext ==
    \/ \E p \in Procs, c \in Calls : Start(p, c)
    \/ \E p \in Procs : Finish(p)
    \/ Falter
    \/ Restart

TreeSpec == TreeInit /\ [][TreeNext]_treeVars
=============================================================================
