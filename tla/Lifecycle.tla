------------------------------ MODULE Lifecycle ------------------------------
(***************************************************************************)
(* From start to exit: main of cmd/server, config.Load, server.New with    *)
(* ensureFolders, and Server.Start.  A deployment is one configuration     *)
(* and the replicas that share its storage; a supervisor (restart:         *)
(* unless-stopped, Kubernetes) starts a process again unless it was told   *)
(* to stop.                                                                *)
(***************************************************************************)
EXTENDS Naturals, Sequences

CONSTANTS
    Replicas,     \* processes of the server
    Deployments,  \* the configurations, what the storage holds before, and the names
                  \* clients store under
    MaxInFlight,  \* bound on the requests a replica serves at once
    MaxFaults     \* bound on failing calls and killed processes together

Storages == {"local", "s3", "gcs", "azure"}

\* What Load accepts and a later step of the start refuses, each time again: keys or a
\* credentials file of the storage client, a storage that answers no request, a password
\* longer than bcrypt's 72 bytes in BASIC_USERS, a SERVER_PORT nobody can listen on.
Flaws == {"credentials", "storage", "password", "port"}

\* A folder or file is the sequence of its names.  The root is always there.
Folders == Seq(Nat) \ {<<>>}
Parent(f) == SubSeq(f, 1, Len(f) - 1)
Below(f, g) == Len(f) <= Len(g) /\ \A i \in 1..Len(f) : f[i] = g[i]

ASSUME LifecycleAssumption ==
    /\ \A d \in Deployments :
          /\ d.usersParse \in BOOLEAN /\ d.rulesParse \in BOOLEAN
          /\ d.autoCreate \in BOOLEAN
          /\ d.paths \in Seq(Folders)
          /\ d.existing \subseteq Folders /\ d.files \subseteq Folders
          /\ d.names \subseteq Folders
          /\ d.flaws \subseteq Flaws
          /\ d.replicas \subseteq Replicas
    /\ MaxInFlight \in Nat
    /\ MaxFaults \in Nat

VARIABLES
    deployment,  \* storage, given variables, folder paths, replicas
    folders,     \* the directories the storage holds
    files,       \* the files
    phase,       \* where main is
    todo,        \* the paths ensureFolders has not come to
    listener,    \* the goroutine of ListenAndServe
    signalled,   \* the context of signal.NotifyContext is done
    inFlight,    \* requests being served
    code,        \* exit code of the last process
    cut,         \* whether it left a request unanswered
    stopped,     \* history: the replica was told to stop
    removed,     \* history: configured paths that clients have removed since it started
    faults       \* faults so far

contents == <<folders, files>>
lifeVars == <<deployment, contents, phase, todo, listener, signalled, inFlight, code,
              cut, stopped, removed, faults>>

Killed == 137
Panicked == 2

Init ==
    /\ deployment \in Deployments
    /\ folders = deployment.existing
    /\ files = deployment.files
    /\ phase = [r \in Replicas |-> "down"]
    /\ todo = [r \in Replicas |-> <<>>]
    /\ listener = [r \in Replicas |-> "none"]
    /\ signalled = [r \in Replicas |-> FALSE]
    /\ inFlight = [r \in Replicas |-> 0]
    /\ code = [r \in Replicas |-> 0]
    /\ cut = [r \in Replicas |-> FALSE]
    /\ stopped = [r \in Replicas |-> FALSE]
    /\ removed = [r \in Replicas |-> {}]
    /\ faults = 0

Works == UNCHANGED faults
Fails == faults < MaxFaults /\ faults' = faults + 1

Goto(r, next) ==
    /\ phase' = [phase EXCEPT ![r] = next]
    /\ UNCHANGED <<deployment, listener, signalled, inFlight, code, cut, stopped, removed>>

\* os.Exit, a return from main or a signal: whatever was in flight is cut off.
Exit(r, status) ==
    /\ phase' = [phase EXCEPT ![r] = "exited"]
    /\ code' = [code EXCEPT ![r] = status]
    /\ cut' = [cut EXCEPT ![r] = inFlight[r] > 0]
    /\ listener' = [listener EXCEPT ![r] = "none"]
    /\ inFlight' = [inFlight EXCEPT ![r] = 0]
    /\ todo' = [todo EXCEPT ![r] = <<>>]
    /\ signalled' = [signalled EXCEPT ![r] = FALSE]
    /\ removed' = [removed EXCEPT ![r] = {}]
    /\ UNCHANGED <<deployment, stopped>>

Running(r) == phase[r] \notin {"down", "exited"}

Configured == {deployment.paths[i] : i \in DOMAIN deployment.paths}

\* What Stat finds: a file or a directory, also one without a marker.
Found(dirs, plain, f) == \E g \in dirs \cup plain : Below(f, g)
Present(f) == Found(folders, files, f)

-----------------------------------------------------------------------------
(* config.Load *)

\* The variables a storage type cannot do without.
Complete(d) ==
    /\ d.storage = "s3" => "S3_BUCKET" \in d.given
    /\ d.storage = "gcs" => "GCS_BUCKET" \in d.given
    /\ d.storage = "azure" =>
          /\ "AZURE_CONTAINER" \in d.given
          /\ \/ "AZURE_STORAGE_CONNECTION_STRING" \in d.given
             \/ {"AZURE_STORAGE_ACCOUNT", "AZURE_STORAGE_KEY"} \subseteq d.given

Loads(d) == d.usersParse /\ d.rulesParse /\ d.storage \in Storages /\ Complete(d)

Launch(r) ==
    /\ r \in deployment.replicas
    /\ ~Running(r) /\ ~stopped[r]
    /\ Goto(r, "load")
    /\ UNCHANGED <<contents, todo, faults>>

\* Mutant: a configuration that is not valid is only logged.
LoadLenient(r) ==
    /\ phase[r] = "load"
    /\ Goto(r, "storage")
    /\ UNCHANGED <<contents, todo, faults>>

Load(r) ==
    /\ phase[r] = "load"
    /\ IF Loads(deployment) THEN Goto(r, "storage") /\ UNCHANGED todo ELSE Exit(r, 1)
    /\ UNCHANGED <<contents, faults>>

-----------------------------------------------------------------------------
(* server.New: storage.New, ensureFolders, auth.New and the handlers *)

\* Mutant: the listener runs while the folders are still created.
NewStorageListening(r) ==
    /\ phase[r] = "storage"
    /\ Works
    /\ todo' = [todo EXCEPT ![r] = deployment.paths]
    /\ phase' = [phase EXCEPT ![r] = "ensure"]
    /\ listener' = [listener EXCEPT ![r] = "starting"]
    /\ UNCHANGED <<deployment, contents, signalled, inFlight, code, cut, stopped, removed>>

\* The clients are built without asking the service; NewLocal ignores its error.
NewStorage(r) ==
    LET refused == deployment.storage # "local" /\ "credentials" \in deployment.flaws
    IN  /\ phase[r] = "storage"
        /\ \/ /\ Works /\ ~refused
              /\ todo' = [todo EXCEPT ![r] = IF deployment.autoCreate THEN deployment.paths ELSE <<>>]
              /\ Goto(r, "ensure")
           \/ Works /\ refused /\ Exit(r, 1)
           \/ deployment.storage # "local" /\ Fails /\ Exit(r, 1)
        /\ UNCHANGED contents

Advance(r) == todo' = [todo EXCEPT ![r] = Tail(@)]

\* Whether the storage answers at all.
Reachable(d) == "storage" \notin d.flaws

\* Mutant: Mkdir is called for every folder.
StatFolderNever(r) ==
    /\ phase[r] = "ensure"
    /\ todo[r] # <<>>
    /\ Works
    /\ Goto(r, "mkdir")
    /\ UNCHANGED <<contents, todo>>

\* Whatever Stat finds at the path, a file too, is the folder; an error of Stat,
\* whichever, means that it is missing.
StatFolder(r) ==
    LET found == Reachable(deployment) /\ Present(Head(todo[r]))
    IN  /\ phase[r] = "ensure"
        /\ todo[r] # <<>>
        /\ \/ Works /\ found /\ Advance(r) /\ Goto(r, "ensure")
           \/ Works /\ ~found /\ UNCHANGED todo /\ Goto(r, "mkdir")
           \/ Fails /\ UNCHANGED todo /\ Goto(r, "mkdir")
        /\ UNCHANGED contents

\* os.Mkdir, which webdav.Dir calls, makes one directory in an existing one; the
\* cloud file systems store a marker, whatever is there.
Possible(d, f) ==
    /\ Reachable(d)
    /\ \/ d.storage # "local"
       \/ f \notin folders \cup files /\ (Len(f) = 1 \/ Parent(f) \in folders)

\* Mutant: a folder that cannot be created is skipped.
MkdirFolderLenient(r) ==
    /\ phase[r] = "mkdir"
    /\ folders' \in {folders, folders \cup {Head(todo[r])}}
    /\ Works
    /\ Advance(r)
    /\ Goto(r, "ensure")
    /\ UNCHANGED files

\* The first error ends the start; the marker may have been stored all the same.
MkdirFolder(r) ==
    /\ phase[r] = "mkdir"
    /\ UNCHANGED files
    /\ LET f == Head(todo[r])
       IN  \/ /\ Works /\ Possible(deployment, f)
              /\ folders' = folders \cup {f}
              /\ Advance(r) /\ Goto(r, "ensure")
           \/ /\ Works /\ ~Possible(deployment, f)
              /\ UNCHANGED folders /\ Exit(r, 1)
           \/ /\ Fails
              /\ folders' \in {folders} \cup
                    (IF deployment.storage = "local" THEN {} ELSE {folders \cup {f}})
              /\ Exit(r, 1)

\* auth.New hashes the passwords and panics where bcrypt refuses one; the permissions,
\* the handlers and the middlewares behind it are built without a way to fail.
NewAuth(r) ==
    /\ phase[r] = "ensure"
    /\ todo[r] = <<>>
    /\ IF "password" \in deployment.flaws
       THEN Exit(r, Panicked)
       ELSE Goto(r, "built") /\ UNCHANGED todo
    /\ UNCHANGED <<contents, faults>>

-----------------------------------------------------------------------------
(* signal.NotifyContext and Server.Start *)

\* From here on a signal is caught, and ListenAndServe runs in a goroutine.
Start(r) ==
    /\ phase[r] = "built"
    /\ phase' = [phase EXCEPT ![r] = "select"]
    /\ listener' = [listener EXCEPT ![r] = "starting"]
    /\ UNCHANGED <<deployment, contents, todo, signalled, inFlight, code, cut, stopped, removed, faults>>

\* After Shutdown ListenAndServe returns ErrServerClosed, which is no error.
Listen(r) ==
    /\ listener[r] = "starting"
    /\ \/ /\ Works /\ phase[r] = "select" /\ "port" \notin deployment.flaws
          /\ listener' = [listener EXCEPT ![r] = "serving"]
       \/ /\ Works /\ phase[r] = "select" /\ "port" \in deployment.flaws
          /\ listener' = [listener EXCEPT ![r] = "failed"]
       \/ Works /\ phase[r] = "shutdown" /\ listener' = [listener EXCEPT ![r] = "closed"]
       \/ Fails /\ phase[r] = "select" /\ listener' = [listener EXCEPT ![r] = "failed"]
    /\ UNCHANGED <<deployment, contents, phase, todo, signalled, inFlight, code, cut, stopped, removed>>

\* Accept fails for good.
ListenerFails(r) ==
    /\ listener[r] = "serving"
    /\ Fails
    /\ listener' = [listener EXCEPT ![r] = "failed"]
    /\ UNCHANGED <<deployment, contents, phase, todo, signalled, inFlight, code, cut, stopped, removed>>

Accept(r) ==
    /\ listener[r] = "serving"
    /\ inFlight[r] < MaxInFlight
    /\ inFlight' = [inFlight EXCEPT ![r] = @ + 1]
    /\ UNCHANGED <<deployment, contents, phase, todo, listener, signalled, code, cut, stopped, removed, faults>>

Answer(r) ==
    /\ inFlight[r] > 0
    /\ inFlight' = [inFlight EXCEPT ![r] = @ - 1]
    /\ UNCHANGED <<deployment, contents, phase, todo, listener, signalled, code, cut, stopped, removed, faults>>

\* What requests of clients do to the shared storage, one file or directory at a time: a
\* DELETE or a MOVE of a tree is several such steps, in any order the storage allows.
ClientStores(r) ==
    /\ inFlight[r] > 0
    /\ Reachable(deployment)
    /\ \E f \in deployment.names :
          \/ Possible(deployment, f) /\ folders' = folders \cup {f} /\ UNCHANGED files
          \/ /\ f \notin folders
             /\ deployment.storage = "local" /\ Len(f) > 1 => Parent(f) \in folders
             /\ files' = files \cup {f} /\ UNCHANGED folders
    /\ UNCHANGED <<deployment, phase, todo, listener, signalled, inFlight, code, cut, stopped, removed, faults>>

ClientRemoves(r) ==
    /\ inFlight[r] > 0
    /\ Reachable(deployment)
    /\ \E f \in folders \cup files :
          /\ \/ folders' = folders \ {f} /\ UNCHANGED files
             \/ files' = files \ {f} /\ UNCHANGED folders
          /\ deployment.storage = "local" => \A g \in folders \cup files : Below(f, g) => g = f
    /\ LET lost == {f \in Configured : Present(f) /\ ~Found(folders', files', f)}
       IN  removed' = [q \in Replicas |-> IF Running(q) THEN removed[q] \cup lost ELSE {}]
    /\ UNCHANGED <<deployment, phase, todo, listener, signalled, inFlight, code, cut, stopped, faults>>

\* The select: with both channels ready either case may be taken.
Shutdown(r) ==
    /\ phase[r] = "select"
    /\ signalled[r]
    /\ phase' = [phase EXCEPT ![r] = "shutdown"]
    /\ listener' = [listener EXCEPT ![r] = IF @ = "serving" THEN "closed" ELSE @]
    /\ UNCHANGED <<deployment, contents, todo, signalled, inFlight, code, cut, stopped, removed, faults>>

ListenError(r) ==
    /\ phase[r] = "select"
    /\ listener[r] = "failed"
    /\ Exit(r, 1)
    /\ UNCHANGED <<contents, faults>>

\* Mutants: Shutdown does not wait, as Close does not; it waits without a deadline.
ShutdownReturnsAtOnce(r) ==
    /\ phase[r] = "shutdown"
    /\ Exit(r, 0)
    /\ UNCHANGED <<contents, faults>>

ShutdownReturnsLate(r) ==
    /\ phase[r] = "shutdown"
    /\ inFlight[r] = 0
    /\ Exit(r, 0)
    /\ UNCHANGED <<contents, faults>>

\* Every request is answered, or the 10 s are over: DeadlineExceeded.
ShutdownReturns(r) ==
    /\ phase[r] = "shutdown"
    /\ IF inFlight[r] = 0 THEN Exit(r, 0) ELSE Exit(r, 1)
    /\ UNCHANGED <<contents, faults>>

\* SIGTERM or an interrupt from whoever stops the replica.  Before NotifyContext it
\* ends the process; a second one is swallowed.
Signal(r) ==
    /\ Running(r)
    /\ ~stopped[r]
    /\ stopped' = [stopped EXCEPT ![r] = TRUE]
    /\ IF phase[r] = "select"
       THEN /\ signalled' = [signalled EXCEPT ![r] = TRUE]
            /\ UNCHANGED <<phase, todo, listener, inFlight, code, cut, removed>>
       ELSE /\ phase' = [phase EXCEPT ![r] = "exited"]
            /\ code' = [code EXCEPT ![r] = Killed]
            /\ todo' = [todo EXCEPT ![r] = <<>>]
            /\ removed' = [removed EXCEPT ![r] = {}]
            /\ UNCHANGED <<signalled, listener, inFlight, cut>>
    /\ UNCHANGED <<deployment, contents, faults>>

\* SIGKILL, a panic outside a handler, the machine.
Kill(r) == Running(r) /\ Fails /\ Exit(r, Killed) /\ UNCHANGED contents

-----------------------------------------------------------------------------

Next ==
    \/ \E r \in Replicas : Launch(r)
    \/ \E r \in Replicas : Load(r)
    \/ \E r \in Replicas : NewStorage(r)
    \/ \E r \in Replicas : StatFolder(r)
    \/ \E r \in Replicas : MkdirFolder(r)
    \/ \E r \in Replicas : NewAuth(r)
    \/ \E r \in Replicas : Start(r)
    \/ \E r \in Replicas : Listen(r)
    \/ \E r \in Replicas : ListenerFails(r)
    \/ \E r \in Replicas : Accept(r)
    \/ \E r \in Replicas : Answer(r)
    \/ \E r \in Replicas : ClientStores(r)
    \/ \E r \in Replicas : ClientRemoves(r)
    \/ \E r \in Replicas : Shutdown(r)
    \/ \E r \in Replicas : ListenError(r)
    \/ \E r \in Replicas : ShutdownReturns(r)
    \/ \E r \in Replicas : Signal(r)
    \/ \E r \in Replicas : Kill(r)

Spec == Init /\ [][Next]_lifeVars

Main(r) ==
    \/ Load(r) \/ NewStorage(r) \/ StatFolder(r) \/ MkdirFolder(r) \/ NewAuth(r) \/ Start(r)
    \/ Shutdown(r) \/ ListenError(r) \/ ShutdownReturns(r)

\* The supervisor starts processes, their goroutines run, and 10 s pass.  Requests
\* need not end.
FairSpec ==
    /\ Spec
    /\ \A r \in Replicas :
          WF_lifeVars(Launch(r)) /\ WF_lifeVars(Main(r)) /\ WF_lifeVars(Listen(r))

-----------------------------------------------------------------------------
(* Properties *)

\* Every variable has its type; requests are in flight only where a listener has
\* accepted them (main, Start).
TypeOK ==
    /\ deployment \in Deployments
    /\ folders \subseteq Folders /\ files \subseteq Folders
    /\ phase \in [Replicas -> {"down", "load", "storage", "ensure", "mkdir", "built", "select",
                               "shutdown", "exited"}]
    /\ listener \in [Replicas -> {"none", "starting", "serving", "failed", "closed"}]
    /\ signalled \in [Replicas -> BOOLEAN] /\ cut \in [Replicas -> BOOLEAN]
    /\ stopped \in [Replicas -> BOOLEAN]
    /\ todo \in [Replicas -> Seq(Folders)]
    /\ removed \in [Replicas -> SUBSET Folders]
    /\ inFlight \in [Replicas -> 0..MaxInFlight]
    /\ code \in [Replicas -> {0, 1, Panicked, Killed}]
    /\ faults \in 0..MaxFaults
    /\ \A r \in Replicas :
          /\ inFlight[r] > 0 => listener[r] \in {"serving", "failed", "closed"}
          /\ listener[r] # "none" <=> phase[r] \in {"select", "shutdown"}

\* A replica that accepts connections has a valid configuration whose passwords,
\* credentials and port are usable, and at every configured path there is something,
\* whatever failed in this start or an earlier one and whatever the other replicas and
\* their clients did meanwhile: only what clients have removed since it started may be
\* missing (Load, New, ensureFolders).
ServesConfigured ==
    \A r \in Replicas :
        listener[r] = "serving" =>
            /\ Loads(deployment)
            /\ deployment.flaws \cap {"password", "port"} = {}
            /\ "credentials" \in deployment.flaws => deployment.storage = "local"
            /\ deployment.autoCreate => \A f \in Configured : Present(f) \/ f \in removed[r]

\* A process that reports success has answered every request it accepted (Start:
\* the error of Shutdown reaches os.Exit).
CleanExitAnswersAll == \A r \in Replicas : cut[r] => code[r] # 0

\* A process that cannot load its configuration leaves the storage alone, and what a
\* start changes is that it adds configured folders; files and other folders it never
\* touches (Load before New, ensureFolders).
StartsOnlyAdd ==
    [][/\ contents' # contents => Loads(deployment)
       /\ phase' # phase =>
             /\ UNCHANGED files
             /\ folders \subseteq folders' /\ folders' \ folders \subseteq Configured]_lifeVars

\* A replica that is told to stop ends, though its requests may never do, and stays
\* down (Start's 10 s, main).
StopsWhenTold == \A r \in Replicas : stopped[r] ~> [](phase[r] = "exited")

\* Nothing keeps Mkdir from working: parents come before their children or are there
\* already, and none of them is a file.
Creatable ==
    deployment.storage = "local" =>
        \A i \in DOMAIN deployment.paths :
            LET f == deployment.paths[i]
            IN  \/ Len(f) = 1 \/ Present(f) \/ Parent(f) \in folders
                \/ /\ \E j \in 1..(i - 1) : deployment.paths[j] = Parent(f)
                   /\ Parent(f) \notin files

\* With a valid configuration of which no later step refuses anything a replica serves in
\* the end, after any number of failed starts, unless it is told to stop: a start does
\* not trip over what an earlier one, the other replica or clients have left
\* (ensureFolders).
ServesInTheEnd ==
    \A r \in Replicas :
        /\ phase[r] = "load" /\ Loads(deployment) /\ deployment.flaws = {}
        /\ deployment.autoCreate => Creatable
        ~> listener[r] = "serving" \/ stopped[r]
=============================================================================
