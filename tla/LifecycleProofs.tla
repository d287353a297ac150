-------------------------- MODULE LifecycleProofs --------------------------
(***************************************************************************)
(* For every set of replicas and configurations: a replica that serves has *)
(* something at each configured path, a clean exit left nobody unanswered, *)
(* and a start only adds to the storage.                                   *)
(***************************************************************************)
EXTENDS Lifecycle, TLAPS

\* At every configured path there is something, or clients have removed it since the
\* replica started, or the replica has still to look at it.
Covered(r) ==
    deployment.autoCreate =>
        \A f \in Configured :
            Present(f) \/ f \in removed[r] \/ \E j \in DOMAIN todo[r] : todo[r][j] = f

ClientBuilt == "credentials" \in deployment.flaws => deployment.storage = "local"

FromConfiguration(list) == \A j \in DOMAIN list : list[j] \in Configured

\* What a replica may rely on, depending on where its main is.
ReplicaInv(r) ==
    /\ FromConfiguration(todo[r])
    /\ phase[r] \in {"storage", "ensure", "mkdir", "built", "select", "shutdown"} =>
          Loads(deployment)
    /\ phase[r] \in {"ensure", "mkdir", "built", "select", "shutdown"} =>
          Covered(r) /\ ClientBuilt
    /\ phase[r] \in {"built", "select", "shutdown"} =>
          todo[r] = <<>> /\ "password" \notin deployment.flaws
    /\ listener[r] = "serving" => "port" \notin deployment.flaws
    /\ phase[r] = "mkdir" => todo[r] # <<>>
    /\ phase[r] = "shutdown" => signalled[r]
    /\ signalled[r] => stopped[r]

IInv == TypeOK /\ CleanExitAnswersAll /\ \A r \in Replicas : ReplicaInv(r)

\* The sequences of a deployment, and the rest of a list.
LEMMA Paths ==
    \A d \in Deployments :
        /\ d.paths \in Seq(Folders)
        /\ d.existing \subseteq Folders /\ d.files \subseteq Folders /\ d.names \subseteq Folders
BY LifecycleAssumption

LEMMA Rest ==
    ASSUME NEW S, NEW s \in Seq(S), s # <<>>
    PROVE  /\ Head(s) \in S /\ Tail(s) \in Seq(S)
           /\ \A j \in DOMAIN s : s[j] = Head(s) \/ \E k \in DOMAIN Tail(s) : Tail(s)[k] = s[j]
<1>1. Head(s) \in S /\ Tail(s) \in Seq(S) /\ Head(s) = s[1]
  OBVIOUS
<1>2. ASSUME NEW j \in DOMAIN s, j # 1
      PROVE  j - 1 \in DOMAIN Tail(s) /\ Tail(s)[j - 1] = s[j]
  BY <1>2
<1>. QED BY <1>1, <1>2

-----------------------------------------------------------------------------
(* What a step of one replica leaves alone *)

\* The start of a replica adds to the storage.
Grows == folders \subseteq folders' /\ folders' \subseteq Folders /\ files' = files

\* What is missing afterwards was missing before, or replica q knows that clients have
\* removed it.
Accounted(q) ==
    /\ removed[q] \subseteq removed'[q]
    /\ \A f \in Configured : Present(f) => Present(f)' \/ f \in removed'[q]

\* Nothing of the other replicas changes but what clients have taken from them.
Others(r) ==
    /\ deployment' = deployment
    /\ \A q \in Replicas \ {r} :
          /\ Running(q) => Accounted(q)
          /\ phase'[q] = phase[q] /\ todo'[q] = todo[q] /\ listener'[q] = listener[q]
          /\ signalled'[q] = signalled[q] /\ inFlight'[q] = inFlight[q]
          /\ code'[q] = code[q] /\ cut'[q] = cut[q] /\ stopped'[q] = stopped[q]

LEMMA GrowsAccounted ==
    ASSUME Grows, NEW q, removed'[q] = removed[q]
    PROVE  Accounted(q)
BY DEF Grows, Accounted, Present, Found

LEMMA CoveredKept ==
    ASSUME NEW q, Covered(q), Accounted(q), deployment' = deployment, todo'[q] = todo[q]
    PROVE  Covered(q)'
BY DEF Covered, Accounted, Configured

LEMMA OthersKeep ==
    ASSUME NEW r \in Replicas, Others(r), \A q \in Replicas : ReplicaInv(q), CleanExitAnswersAll,
           ReplicaInv(r)', cut'[r] => code'[r] # 0
    PROVE  (\A q \in Replicas : ReplicaInv(q))' /\ CleanExitAnswersAll'
<1>1. ASSUME NEW q \in Replicas, q # r  PROVE ReplicaInv(q)'
  <2>1. phase[q] \in {"ensure", "mkdir", "built", "select", "shutdown"} => Covered(q)'
    <3>. SUFFICES ASSUME phase[q] \in {"ensure", "mkdir", "built", "select", "shutdown"}
                  PROVE  Covered(q)'
      OBVIOUS
    <3>1. Covered(q) /\ Accounted(q) /\ deployment' = deployment /\ todo'[q] = todo[q]
      BY <1>1 DEF Others, ReplicaInv, Running
    <3>. QED BY <3>1, CoveredKept
  <2>. QED BY <1>1, <2>1 DEF Others, ReplicaInv, ClientBuilt, FromConfiguration, Configured
<1>2. ASSUME NEW q \in Replicas, q # r  PROVE cut'[q] => code'[q] # 0
  BY <1>2 DEF Others, CleanExitAnswersAll
<1>. QED BY <1>1, <1>2 DEF CleanExitAnswersAll

\* A start that is given up: whatever the replica did, nothing is left to show but
\* an exit code that says so.
LEMMA ExitKeeps ==
    ASSUME IInv, NEW r \in Replicas, NEW status \in {0, 1, Panicked, Killed}, Exit(r, status),
           status = 0 => inFlight[r] = 0,
           Grows, faults' \in 0..MaxFaults
    PROVE  IInv'
<1>. DEFINE none == <<>>
<1>0. none \in Seq(Folders)
  OBVIOUS
<1>1. TypeOK'
  <2>. HIDE DEF none
  <2>1. /\ deployment' \in Deployments
        /\ phase' \in [Replicas -> {"down", "load", "storage", "ensure", "mkdir", "built", "select",
                                    "shutdown", "exited"}]
        /\ listener' \in [Replicas -> {"none", "starting", "serving", "failed", "closed"}]
        /\ signalled' \in [Replicas -> BOOLEAN] /\ stopped' \in [Replicas -> BOOLEAN]
        /\ code' \in [Replicas -> {0, 1, Panicked, Killed}]
        /\ removed' \in [Replicas -> SUBSET Folders]
        /\ folders' \subseteq Folders /\ files' \subseteq Folders
    BY DEF IInv, TypeOK, Exit, Grows
  <2>2. todo' \in [Replicas -> Seq(Folders)]
    BY <1>0 DEF IInv, TypeOK, Exit, none
  <2>3. cut' \in [Replicas -> BOOLEAN]
    BY DEF IInv, TypeOK, Exit
  <2>4. inFlight' \in [Replicas -> 0..MaxInFlight]
    BY LifecycleAssumption DEF IInv, TypeOK, Exit
  <2>5. ASSUME NEW q \in Replicas
        PROVE  /\ inFlight'[q] > 0 => listener'[q] \in {"serving", "failed", "closed"}
               /\ listener'[q] # "none" <=> phase'[q] \in {"select", "shutdown"}
    BY DEF IInv, TypeOK, Exit
  <2>. QED BY <2>1, <2>2, <2>3, <2>4, <2>5 DEF TypeOK
<1>2. Others(r)
  <2>1. ASSUME NEW q \in Replicas \ {r}  PROVE Accounted(q)
    BY GrowsAccounted DEF IInv, TypeOK, Exit
  <2>. QED BY <2>1 DEF IInv, TypeOK, Exit, Others
<1>3. ReplicaInv(r)'
  BY DEF IInv, TypeOK, Exit, ReplicaInv, FromConfiguration
<1>4. cut'[r] => code'[r] # 0
  <2>1. (cut'[r] <=> inFlight[r] > 0) /\ code'[r] = status /\ inFlight[r] \in 0..MaxInFlight
    BY DEF IInv, TypeOK, Exit
  <2>. QED BY <2>1
<1>. QED BY <1>1, <1>2, <1>3, <1>4, OthersKeep DEF IInv

\* A step that only moves main on.
LEMMA GotoKeeps ==
    ASSUME IInv, NEW r \in Replicas,
           NEW next \in {"load", "storage", "ensure", "mkdir", "built"}, Goto(r, next),
           phase[r] \in {"down", "exited", "load", "storage", "ensure", "mkdir"},
           NEW list \in Seq(Folders), todo' = [todo EXCEPT ![r] = list],
           FromConfiguration(list),
           next # "load" => Loads(deployment),
           next \in {"ensure", "mkdir", "built"} => Covered(r)' /\ ClientBuilt,
           next = "mkdir" => list # <<>>,
           next = "built" => list = <<>> /\ "password" \notin deployment.flaws,
           Grows, faults' \in 0..MaxFaults
    PROVE  IInv'
<1>1. TypeOK'
  BY DEF IInv, TypeOK, Goto, Grows
<1>2. Others(r)
  <2>1. ASSUME NEW q \in Replicas \ {r}  PROVE Accounted(q)
    BY GrowsAccounted DEF Goto
  <2>. QED BY <2>1 DEF IInv, TypeOK, Goto, Others
<1>3. ReplicaInv(r)' /\ (cut'[r] => code'[r] # 0)
  BY DEF IInv, TypeOK, Goto, ReplicaInv, ClientBuilt, CleanExitAnswersAll, FromConfiguration,
    Configured
<1>. QED BY <1>1, <1>2, <1>3, OthersKeep DEF IInv

\* A step after the start leaves main, its list and its answers as they are, or takes
\* it from the select to Shutdown.
LEMMA ServingKeeps ==
    ASSUME IInv, NEW r \in Replicas, TypeOK', Others(r), Running(r) => Accounted(r),
           todo'[r] = todo[r], cut'[r] = cut[r], code'[r] = code[r],
           \/ phase'[r] = phase[r]
           \/ phase[r] = "select" /\ phase'[r] = "shutdown" /\ signalled'[r],
           listener'[r] = "serving" => listener[r] = "serving" \/ "port" \notin deployment.flaws,
           signalled[r] => signalled'[r], stopped[r] => stopped'[r],
           signalled'[r] => signalled[r] \/ stopped'[r]
    PROVE  IInv'
<1>1. phase[r] \in {"ensure", "mkdir", "built", "select", "shutdown"} => Covered(r)'
  <2>. SUFFICES ASSUME phase[r] \in {"ensure", "mkdir", "built", "select", "shutdown"}
                PROVE  Covered(r)'
    OBVIOUS
  <2>1. Covered(r) /\ Accounted(r) /\ deployment' = deployment
    BY DEF IInv, ReplicaInv, Running, Others
  <2>. QED BY <2>1, CoveredKept
<1>2. ReplicaInv(r)' /\ (cut'[r] => code'[r] # 0)
  BY <1>1 DEF IInv, ReplicaInv, ClientBuilt, CleanExitAnswersAll, Others, FromConfiguration,
    Configured
<1>. QED BY <1>2, OthersKeep DEF IInv

\* Where the storage and the histories stay as they are.
LEMMA QuietAccounted ==
    ASSUME UNCHANGED <<contents, removed>>  PROVE \A q \in Replicas : Accounted(q)
BY DEF Accounted, Present, Found, contents

-----------------------------------------------------------------------------
(* The start *)

LEMMA InitIInv == Init => IInv
<1>. SUFFICES ASSUME Init  PROVE IInv
  OBVIOUS
<1>. DEFINE none == <<>>
<1>0. none \in Seq(Folders)
  OBVIOUS
<1>1. todo \in [Replicas -> Seq(Folders)]
  BY <1>0 DEF Init
<1>2. TypeOK
  <2>. HIDE DEF none
  <2>. QED BY <1>1, LifecycleAssumption, Paths DEF Init, TypeOK
<1>3. CleanExitAnswersAll /\ \A r \in Replicas : ReplicaInv(r)
  BY DEF Init, CleanExitAnswersAll, ReplicaInv, FromConfiguration
<1>. QED BY <1>2, <1>3 DEF IInv

\* A step that does not touch the storage.
LEMMA Unchanged == ASSUME IInv, UNCHANGED contents  PROVE Grows
BY DEF IInv, TypeOK, Grows, contents

LEMMA LaunchKeeps == ASSUME IInv, NEW r \in Replicas, Launch(r)  PROVE IInv'
<1>1. /\ todo[r] \in Seq(Folders) /\ todo' = [todo EXCEPT ![r] = todo[r]]
      /\ FromConfiguration(todo[r])
  BY DEF IInv, TypeOK, Launch, ReplicaInv
<1>2. phase[r] \in {"down", "exited"} /\ faults' \in 0..MaxFaults /\ Grows
  BY Unchanged DEF IInv, TypeOK, Launch, Running
<1>. QED BY <1>1, <1>2, GotoKeeps DEF Launch

LEMMA LoadKeeps == ASSUME IInv, NEW r \in Replicas, Load(r)  PROVE IInv'
<1>1. phase[r] = "load" /\ faults' \in 0..MaxFaults /\ Grows
  BY Unchanged DEF IInv, TypeOK, Load
<1>2. CASE Loads(deployment)
  <2>1. /\ todo[r] \in Seq(Folders) /\ todo' = [todo EXCEPT ![r] = todo[r]]
        /\ FromConfiguration(todo[r])
    BY <1>2 DEF IInv, TypeOK, Load, ReplicaInv
  <2>2. Goto(r, "storage")
    BY <1>2 DEF Load
  <2>. QED BY <1>1, <1>2, <2>1, <2>2, GotoKeeps
<1>3. CASE ~Loads(deployment)
  <2>1. Exit(r, 1)
    BY <1>3 DEF Load
  <2>. QED BY <1>1, <2>1, ExitKeeps
<1>. QED BY <1>2, <1>3

\* A failing call is counted, a working one is not.
LEMMA Counted == ASSUME IInv, Works \/ Fails  PROVE faults' \in 0..MaxFaults
BY LifecycleAssumption DEF IInv, TypeOK, Works, Fails

LEMMA NewStorageKeeps == ASSUME IInv, NEW r \in Replicas, NewStorage(r)  PROVE IInv'
<1>1. phase[r] = "storage" /\ faults' \in 0..MaxFaults /\ Grows
  BY Counted, Unchanged DEF NewStorage
<1>2. Loads(deployment)
  BY <1>1 DEF IInv, ReplicaInv
<1>3. CASE /\ Goto(r, "ensure") /\ ClientBuilt
           /\ todo' = [todo EXCEPT ![r] = IF deployment.autoCreate THEN deployment.paths ELSE <<>>]
  <2>. DEFINE list == IF deployment.autoCreate THEN deployment.paths ELSE <<>>
  <2>1. list \in Seq(Folders)
    <3>1. deployment.paths \in Seq(Folders)
      BY Paths DEF IInv, TypeOK
    <3>. QED BY <3>1
  <2>2. todo' = [todo EXCEPT ![r] = list] /\ todo'[r] = list /\ deployment' = deployment
    BY <1>3 DEF IInv, TypeOK, Goto
  <2>3. Covered(r)' /\ FromConfiguration(list)
    BY <2>2 DEF Covered, Configured, FromConfiguration
  <2>. HIDE DEF list
  <2>. QED BY <1>1, <1>2, <1>3, <2>1, <2>2, <2>3, GotoKeeps
<1>4. CASE Exit(r, 1)
  BY <1>1, <1>4, ExitKeeps
<1>. QED BY <1>3, <1>4 DEF NewStorage, ClientBuilt

\* A path at which there is something need not be done.
LEMMA AdvanceKeeps ==
    ASSUME IInv, NEW r \in Replicas, phase[r] \in {"ensure", "mkdir"}, todo[r] # <<>>,
           Advance(r), Goto(r, "ensure"), Works \/ Fails, Grows,
           Found(folders', files', Head(todo[r]))
    PROVE  IInv'
<1>1. /\ todo[r] \in Seq(Folders) /\ Tail(todo[r]) \in Seq(Folders)
      /\ \A j \in DOMAIN todo[r] : \/ todo[r][j] = Head(todo[r])
                                  \/ \E k \in DOMAIN Tail(todo[r]) : Tail(todo[r])[k] = todo[r][j]
  <2>1. todo[r] \in Seq(Folders)
    BY DEF IInv, TypeOK
  <2>. QED BY <2>1, Rest
<1>2. /\ todo' = [todo EXCEPT ![r] = Tail(todo[r])] /\ todo'[r] = Tail(todo[r])
      /\ deployment' = deployment /\ removed' = removed
  BY DEF IInv, TypeOK, Advance, Goto
<1>3. Loads(deployment) /\ Covered(r) /\ ClientBuilt /\ FromConfiguration(todo[r])
  BY DEF IInv, ReplicaInv
<1>4. ASSUME NEW g, g = Head(todo[r])  PROVE Present(g)'
  BY <1>4 DEF Present
<1>5. Covered(r)'
  <2>1. Accounted(r)
    BY <1>2, GrowsAccounted
  <2>2. SUFFICES ASSUME deployment.autoCreate, NEW f \in Configured
                 PROVE  \/ Present(f)' \/ f \in removed'[r]
                        \/ \E j \in DOMAIN todo'[r] : todo'[r][j] = f
    BY <1>2 DEF Covered, Configured
  <2>3. CASE Present(f) \/ f \in removed[r]
    BY <2>1, <2>3 DEF Accounted
  <2>4. CASE \E j \in DOMAIN todo[r] : todo[r][j] = f
    BY <1>1, <1>2, <1>4, <2>4
  <2>. QED BY <1>3, <2>2, <2>3, <2>4 DEF Covered
<1>6. faults' \in 0..MaxFaults
  BY Counted
<1>7. FromConfiguration(Tail(todo[r]))
  BY <1>1, <1>3 DEF FromConfiguration
<1>. QED BY <1>1, <1>2, <1>3, <1>5, <1>6, <1>7, GotoKeeps

LEMMA StatFolderKeeps == ASSUME IInv, NEW r \in Replicas, StatFolder(r)  PROVE IInv'
<1>1. /\ phase[r] = "ensure" /\ todo[r] # <<>> /\ UNCHANGED contents /\ Grows
      /\ faults' \in 0..MaxFaults
  BY Counted, Unchanged DEF StatFolder
<1>2. CASE Works /\ Present(Head(todo[r])) /\ Advance(r) /\ Goto(r, "ensure")
  <2>1. Found(folders', files', Head(todo[r]))
    BY <1>1, <1>2 DEF Present, contents
  <2>. QED BY <1>1, <1>2, <2>1, AdvanceKeeps
<1>3. CASE UNCHANGED todo /\ Goto(r, "mkdir")
  <2>1. todo[r] \in Seq(Folders) /\ todo' = [todo EXCEPT ![r] = todo[r]]
    BY <1>3 DEF IInv, TypeOK
  <2>2. Loads(deployment) /\ Covered(r) /\ ClientBuilt /\ FromConfiguration(todo[r])
    BY <1>1 DEF IInv, ReplicaInv
  <2>3. Covered(r)'
    BY <1>1, <1>3, <2>2, QuietAccounted, CoveredKept DEF Goto
  <2>. QED BY <1>1, <1>3, <2>1, <2>2, <2>3, GotoKeeps
<1>. QED BY <1>2, <1>3 DEF StatFolder

LEMMA MkdirFolderKeeps == ASSUME IInv, NEW r \in Replicas, MkdirFolder(r)  PROVE IInv'
<1>. DEFINE f == Head(todo[r])
<1>1. /\ phase[r] = "mkdir" /\ todo[r] # <<>> /\ f \in Folders /\ faults' \in 0..MaxFaults
      /\ files' = files
  <2>1. phase[r] = "mkdir" /\ todo[r] # <<>> /\ todo[r] \in Seq(Folders) /\ files' = files
    BY DEF MkdirFolder, IInv, ReplicaInv, TypeOK
  <2>2. f \in Folders
    BY <2>1, Rest
  <2>3. faults' \in 0..MaxFaults
    BY Counted DEF MkdirFolder
  <2>. QED BY <2>1, <2>2, <2>3
<1>2. folders' \in {folders, folders \cup {f}}
  BY DEF MkdirFolder
<1>3. Grows
  BY <1>1, <1>2 DEF Grows, IInv, TypeOK
<1>4. CASE Works /\ folders' = folders \cup {f} /\ Advance(r) /\ Goto(r, "ensure")
  <2>1. Below(f, f) /\ f \in folders'
    BY <1>1, <1>4 DEF Below, Folders
  <2>2. Found(folders', files', f)
    BY <2>1 DEF Found
  <2>. QED BY <1>1, <1>3, <1>4, <2>2, AdvanceKeeps
<1>5. CASE Exit(r, 1)
  BY <1>1, <1>3, <1>5, ExitKeeps
<1>. QED BY <1>4, <1>5 DEF MkdirFolder

\* Mkdir adds the configured folder it has come to.
LEMMA MkdirAdds ==
    ASSUME IInv, NEW r \in Replicas, MkdirFolder(r)
    PROVE  /\ Loads(deployment) /\ UNCHANGED files
           /\ folders \subseteq folders' /\ folders' \ folders \subseteq Configured
<1>1. todo[r] \in Seq(Folders) /\ todo[r] # <<>> /\ FromConfiguration(todo[r]) /\ Loads(deployment)
  BY DEF MkdirFolder, IInv, TypeOK, ReplicaInv
<1>2. Head(todo[r]) \in Configured
  BY <1>1 DEF FromConfiguration
<1>. QED BY <1>1, <1>2 DEF MkdirFolder

LEMMA NewAuthKeeps == ASSUME IInv, NEW r \in Replicas, NewAuth(r)  PROVE IInv'
<1>1. /\ phase[r] = "ensure" /\ todo[r] = <<>> /\ UNCHANGED contents /\ Grows
      /\ faults' \in 0..MaxFaults
  BY Unchanged DEF NewAuth, IInv, TypeOK
<1>2. CASE "password" \in deployment.flaws
  <2>1. Exit(r, Panicked)
    BY <1>2 DEF NewAuth
  <2>. QED BY <1>1, <2>1, ExitKeeps DEF Panicked
<1>3. CASE "password" \notin deployment.flaws
  <2>1. Goto(r, "built") /\ UNCHANGED todo
    BY <1>3 DEF NewAuth
  <2>2. todo[r] \in Seq(Folders) /\ todo' = [todo EXCEPT ![r] = todo[r]]
    BY <2>1 DEF IInv, TypeOK
  <2>3. Loads(deployment) /\ Covered(r) /\ ClientBuilt /\ FromConfiguration(todo[r])
    BY <1>1 DEF IInv, ReplicaInv
  <2>4. Covered(r)'
    BY <1>1, <2>1, <2>3, QuietAccounted, CoveredKept DEF Goto
  <2>. QED BY <1>1, <1>3, <2>1, <2>2, <2>3, <2>4, GotoKeeps
<1>. QED BY <1>2, <1>3

-----------------------------------------------------------------------------
(* Serving and stopping *)

LEMMA StartKeeps == ASSUME IInv, NEW r \in Replicas, Start(r)  PROVE IInv'
<1>1. TypeOK'
  BY DEF IInv, TypeOK, Start, contents
<1>2. \A q \in Replicas : Accounted(q)
  BY QuietAccounted DEF Start
<1>3. Others(r)
  BY <1>2 DEF IInv, TypeOK, Start, Others
<1>4. Covered(r)'
  BY <1>2, CoveredKept DEF IInv, ReplicaInv, Start
<1>5. ReplicaInv(r)' /\ (cut'[r] => code'[r] # 0)
  BY <1>4 DEF IInv, TypeOK, Start, ReplicaInv, ClientBuilt, CleanExitAnswersAll,
    FromConfiguration, Configured
<1>. QED BY <1>1, <1>3, <1>5, OthersKeep DEF IInv

LEMMA ListenKeeps ==
    ASSUME IInv, NEW r \in Replicas, Listen(r) \/ ListenerFails(r)  PROVE IInv'
<1>1. faults' \in 0..MaxFaults
  BY Counted DEF Listen, ListenerFails
<1>2. TypeOK'
  BY <1>1 DEF IInv, TypeOK, Listen, ListenerFails, contents
<1>3. \A q \in Replicas : Accounted(q)
  BY QuietAccounted DEF Listen, ListenerFails
<1>4. Others(r)
  BY <1>3 DEF IInv, TypeOK, Listen, ListenerFails, Others
<1>5. listener'[r] = "serving" => "port" \notin deployment.flaws
  BY DEF IInv, TypeOK, Listen, ListenerFails
<1>. QED BY <1>2, <1>3, <1>4, <1>5, ServingKeeps DEF Listen, ListenerFails

LEMMA AcceptKeeps == ASSUME IInv, NEW r \in Replicas, Accept(r) \/ Answer(r)  PROVE IInv'
<1>1. inFlight' \in [Replicas -> 0..MaxInFlight]
  <2>1. inFlight \in [Replicas -> 0..MaxInFlight] /\ MaxInFlight \in Nat
    BY LifecycleAssumption DEF IInv, TypeOK
  <2>2. CASE Accept(r)
    <3>1. inFlight[r] + 1 \in 0..MaxInFlight
      BY <2>1, <2>2 DEF Accept
    <3>. QED BY <2>1, <2>2, <3>1 DEF Accept
  <2>3. CASE Answer(r)
    <3>1. inFlight[r] - 1 \in 0..MaxInFlight
      BY <2>1, <2>3 DEF Answer
    <3>. QED BY <2>1, <2>3, <3>1 DEF Answer
  <2>. QED BY <2>2, <2>3
<1>2. ASSUME NEW q \in Replicas
      PROVE  inFlight'[q] > 0 => listener'[q] \in {"serving", "failed", "closed"}
  BY LifecycleAssumption DEF IInv, TypeOK, Accept, Answer
<1>3. TypeOK'
  BY <1>1, <1>2 DEF IInv, TypeOK, Accept, Answer, contents
<1>4. \A q \in Replicas : Accounted(q)
  BY QuietAccounted DEF Accept, Answer
<1>5. Others(r)
  BY <1>4 DEF IInv, TypeOK, Accept, Answer, Others
<1>. QED BY <1>3, <1>4, <1>5, ServingKeeps DEF Accept, Answer

\* What clients take away is on the list of every running replica, what they store
\* takes nothing away.
LEMMA ClientKeeps ==
    ASSUME IInv, NEW r \in Replicas, ClientStores(r) \/ ClientRemoves(r)  PROVE IInv'
<1>1. Configured \subseteq Folders
  BY Paths DEF IInv, TypeOK, Configured
<1>2. /\ UNCHANGED <<deployment, phase, todo, listener, signalled, inFlight, code, cut, stopped,
                     faults>>
  BY DEF ClientStores, ClientRemoves
<1>3. /\ folders' \subseteq Folders /\ files' \subseteq Folders
      /\ removed' \in [Replicas -> SUBSET Folders]
  <2>1. CASE ClientStores(r)
    <3>1. deployment.names \subseteq Folders
      BY Paths DEF IInv, TypeOK
    <3>. QED BY <2>1, <3>1 DEF ClientStores, IInv, TypeOK
  <2>2. CASE ClientRemoves(r)
    <3>1. folders' \subseteq folders /\ files' \subseteq files
      BY <2>2 DEF ClientRemoves
    <3>2. removed' \in [Replicas -> SUBSET Folders]
      <4>. DEFINE lost == {f \in Configured : Present(f) /\ ~Found(folders', files', f)}
      <4>1. lost \subseteq Folders
        BY <1>1
      <4>2. removed' = [q \in Replicas |-> IF Running(q) THEN removed[q] \cup lost ELSE {}]
        BY <2>2 DEF ClientRemoves
      <4>. HIDE DEF lost
      <4>. QED BY <4>1, <4>2 DEF IInv, TypeOK
    <3>. QED BY <3>1, <3>2 DEF IInv, TypeOK
  <2>. QED BY <2>1, <2>2
<1>4. TypeOK'
  BY <1>2, <1>3 DEF IInv, TypeOK
<1>5. ASSUME NEW q \in Replicas, Running(q)  PROVE Accounted(q)
  <2>1. CASE ClientStores(r)
    BY <2>1 DEF ClientStores, Accounted, Present, Found
  <2>2. CASE ClientRemoves(r)
    BY <1>5, <2>2 DEF ClientRemoves, Accounted, Present
  <2>. QED BY <2>1, <2>2
<1>6. Others(r)
  BY <1>2, <1>5 DEF Others
<1>. QED BY <1>2, <1>4, <1>5, <1>6, ServingKeeps

LEMMA ShutdownKeeps == ASSUME IInv, NEW r \in Replicas, Shutdown(r)  PROVE IInv'
<1>1. TypeOK'
  BY DEF IInv, TypeOK, Shutdown, contents
<1>2. \A q \in Replicas : Accounted(q)
  BY QuietAccounted DEF Shutdown
<1>3. Others(r)
  BY <1>2 DEF IInv, TypeOK, Shutdown, Others
<1>4. /\ phase[r] = "select" /\ phase'[r] = "shutdown" /\ signalled'[r]
      /\ listener'[r] # "serving"
  BY DEF IInv, TypeOK, Shutdown
<1>. QED BY <1>1, <1>2, <1>3, <1>4, ServingKeeps DEF Shutdown

LEMMA EndKeeps ==
    ASSUME IInv, NEW r \in Replicas, ListenError(r) \/ ShutdownReturns(r) \/ Kill(r)
    PROVE  IInv'
<1>1. Grows /\ faults' \in 0..MaxFaults
  BY Counted, Unchanged DEF ListenError, ShutdownReturns, Kill, IInv, TypeOK
<1>2. CASE ShutdownReturns(r) /\ inFlight[r] = 0
  BY <1>1, <1>2, ExitKeeps DEF ShutdownReturns
<1>3. CASE ~(ShutdownReturns(r) /\ inFlight[r] = 0)
  <2>1. Exit(r, 1) \/ Exit(r, Killed)
    BY <1>3 DEF ListenError, ShutdownReturns, Kill
  <2>. QED BY <1>1, <2>1, ExitKeeps DEF Killed
<1>. QED BY <1>2, <1>3

LEMMA SignalKeeps == ASSUME IInv, NEW r \in Replicas, Signal(r)  PROVE IInv'
<1>0. UNCHANGED contents
  BY DEF Signal
<1>1. CASE phase[r] = "select"
  <2>1. TypeOK'
    BY <1>0, <1>1 DEF IInv, TypeOK, Signal, contents
  <2>2. \A q \in Replicas : Accounted(q)
    BY <1>0, <1>1, QuietAccounted DEF Signal
  <2>3. Others(r)
    BY <1>1, <2>2 DEF IInv, TypeOK, Signal, Others
  <2>4. stopped'[r] /\ signalled'[r]
    BY <1>1 DEF IInv, TypeOK, Signal
  <2>. QED BY <1>1, <2>1, <2>2, <2>3, <2>4, ServingKeeps DEF Signal
<1>2. CASE phase[r] # "select"
  <2>. DEFINE none == <<>>
  <2>0. none \in Seq(Folders)
    OBVIOUS
  <2>1. phase[r] # "shutdown"
    BY DEF IInv, ReplicaInv, Signal
  <2>2. todo' = [todo EXCEPT ![r] = none] /\ todo' \in [Replicas -> Seq(Folders)]
    <3>1. todo' = [todo EXCEPT ![r] = none] /\ todo \in [Replicas -> Seq(Folders)]
      BY <1>2 DEF IInv, TypeOK, Signal
    <3>. HIDE DEF none
    <3>. QED BY <2>0, <3>1
  <2>3. TypeOK'
    <3>. HIDE DEF none
    <3>1. /\ phase' \in [Replicas -> {"down", "load", "storage", "ensure", "mkdir", "built", "select",
                                      "shutdown", "exited"}]
          /\ stopped' \in [Replicas -> BOOLEAN] /\ signalled' \in [Replicas -> BOOLEAN]
          /\ code' \in [Replicas -> {0, 1, Panicked, Killed}]
          /\ removed' \in [Replicas -> SUBSET Folders]
      BY <1>2 DEF IInv, TypeOK, Signal
    <3>2. ASSUME NEW q \in Replicas
          PROVE  listener'[q] # "none" <=> phase'[q] \in {"select", "shutdown"}
      BY <1>2, <2>1 DEF IInv, TypeOK, Signal
    <3>. QED BY <1>0, <1>2, <2>2, <3>1, <3>2 DEF IInv, TypeOK, Signal, contents
  <2>4. Others(r)
    <3>1. Grows
      BY <1>0, Unchanged
    <3>2. ASSUME NEW q \in Replicas \ {r}  PROVE Accounted(q)
      BY <1>2, <3>1, GrowsAccounted DEF IInv, TypeOK, Signal
    <3>. QED BY <1>2, <3>2 DEF IInv, TypeOK, Signal, Others
  <2>5. ReplicaInv(r)' /\ (cut'[r] => code'[r] # 0)
    <3>1. listener'[r] = "none"
      BY <1>2, <2>1 DEF IInv, TypeOK, Signal
    <3>. QED BY <1>2, <2>1, <3>1 DEF IInv, TypeOK, Signal, ReplicaInv, Killed, FromConfiguration
  <2>. QED BY <2>3, <2>4, <2>5, OthersKeep DEF IInv
<1>. QED BY <1>1, <1>2

-----------------------------------------------------------------------------
(* The theorems *)

LEMMA NextIInv == IInv /\ [Next]_lifeVars => IInv'
<1>. SUFFICES ASSUME IInv, [Next]_lifeVars  PROVE IInv'
  OBVIOUS
<1>1. ASSUME NEW r \in Replicas, Launch(r) \/ Load(r) \/ NewStorage(r)  PROVE IInv'
  BY <1>1, LaunchKeeps, LoadKeeps, NewStorageKeeps
<1>2. ASSUME NEW r \in Replicas, StatFolder(r) \/ MkdirFolder(r) \/ NewAuth(r) \/ Start(r)
      PROVE  IInv'
  BY <1>2, StatFolderKeeps, MkdirFolderKeeps, NewAuthKeeps, StartKeeps
<1>3. ASSUME NEW r \in Replicas, Listen(r) \/ ListenerFails(r) \/ Accept(r) \/ Answer(r)
      PROVE  IInv'
  BY <1>3, ListenKeeps, AcceptKeeps
<1>4. ASSUME NEW r \in Replicas, ClientStores(r) \/ ClientRemoves(r)  PROVE IInv'
  BY <1>4, ClientKeeps
<1>5. ASSUME NEW r \in Replicas, Shutdown(r) \/ Signal(r)  PROVE IInv'
  BY <1>5, ShutdownKeeps, SignalKeeps
<1>6. ASSUME NEW r \in Replicas, ListenError(r) \/ ShutdownReturns(r) \/ Kill(r)  PROVE IInv'
  BY <1>6, EndKeeps
<1>7. CASE UNCHANGED lifeVars
  <2>1. \A q \in Replicas : Accounted(q)
    BY <1>7, QuietAccounted DEF lifeVars
  <2>2. ASSUME NEW r \in Replicas  PROVE Covered(r) => Covered(r)'
    BY <1>7, <2>1, CoveredKept DEF lifeVars
  <2>. QED BY <1>7, <2>2 DEF lifeVars, contents, IInv, TypeOK, CleanExitAnswersAll, ReplicaInv,
         ClientBuilt, FromConfiguration, Configured
<1>. QED BY <1>1, <1>2, <1>3, <1>4, <1>5, <1>6, <1>7 DEF Next

\* The invariant: types, exit codes that tell the truth, and paths at which there is
\* something, that clients have removed or that are still to be looked at.
THEOREM Invariance == Spec => []IInv
BY InitIInv, NextIInv, PTL DEF Spec

\* Every variable has its type, in every reachable state (main, New, Start).
THEOREM LifecycleTypeCorrect == Spec => []TypeOK
<1>1. IInv => TypeOK
  BY DEF IInv
<1>. QED BY Invariance, <1>1, PTL

\* A replica that serves has a valid and usable configuration and, if folders are created
\* at the start, something at each configured path, but for what clients have removed
\* since it started (Load, New, ensureFolders).
THEOREM ServingConfigured == Spec => []ServesConfigured
<1>1. IInv => ServesConfigured
  <2>. SUFFICES ASSUME IInv, NEW r \in Replicas, listener[r] = "serving"
                PROVE  /\ Loads(deployment)
                       /\ deployment.flaws \cap {"password", "port"} = {}
                       /\ ClientBuilt
                       /\ deployment.autoCreate => \A f \in Configured : Present(f) \/ f \in removed[r]
    BY DEF ServesConfigured, ClientBuilt
  <2>1. phase[r] \in {"select", "shutdown"}
    BY DEF IInv, TypeOK
  <2>2. /\ Loads(deployment) /\ Covered(r) /\ todo[r] = <<>> /\ ClientBuilt
        /\ "password" \notin deployment.flaws /\ "port" \notin deployment.flaws
    BY <2>1 DEF IInv, ReplicaInv
  <2>. QED BY <2>2 DEF Covered
<1>. QED BY Invariance, <1>1, PTL

\* An exit code 0 leaves no request unanswered (Start, main).
THEOREM CleanExits == Spec => []CleanExitAnswersAll
<1>1. IInv => CleanExitAnswersAll
  BY DEF IInv
<1>. QED BY Invariance, <1>1, PTL

\* The storage changes only with a valid configuration, and a start adds configured
\* folders to it and nothing else (Load before New, ensureFolders).
THEOREM OnlyAdd == Spec => StartsOnlyAdd
<1>. DEFINE Adds == /\ contents' # contents => Loads(deployment)
                    /\ phase' # phase =>
                          /\ UNCHANGED files
                          /\ folders \subseteq folders' /\ folders' \ folders \subseteq Configured
<1>1. ASSUME IInv, [Next]_lifeVars  PROVE [Adds]_lifeVars
  <2>1. CASE \E r \in Replicas : MkdirFolder(r)
    BY <2>1, <1>1, MkdirAdds
  <2>2. CASE \E r \in Replicas : ClientStores(r) \/ ClientRemoves(r)
    <3>1. PICK r \in Replicas : ClientStores(r) \/ ClientRemoves(r)
      BY <2>2
    <3>2. phase' = phase /\ inFlight[r] > 0
      BY <3>1 DEF ClientStores, ClientRemoves
    <3>3. phase[r] \in {"select", "shutdown"}
      BY <1>1, <3>2 DEF IInv, TypeOK
    <3>. QED BY <1>1, <3>2, <3>3 DEF IInv, ReplicaInv
  <2>3. CASE /\ ~\E r \in Replicas : MkdirFolder(r)
             /\ ~\E r \in Replicas : ClientStores(r) \/ ClientRemoves(r)
    <3>1. ASSUME NEW r \in Replicas,
                 \/ Launch(r) \/ Load(r) \/ NewStorage(r) \/ StatFolder(r) \/ NewAuth(r) \/ Start(r)
                 \/ Listen(r) \/ ListenerFails(r) \/ Accept(r) \/ Answer(r)
                 \/ Shutdown(r) \/ ListenError(r) \/ ShutdownReturns(r) \/ Signal(r) \/ Kill(r)
          PROVE  contents' = contents
      BY <3>1 DEF Launch, Load, NewStorage, StatFolder, NewAuth, Start, Listen, ListenerFails,
        Accept, Answer, Shutdown, ListenError, ShutdownReturns, Signal, Kill
    <3>2. CASE UNCHANGED lifeVars
      BY <3>2
    <3>3. CASE Next
      <4>1. contents' = contents
        BY <2>3, <3>1, <3>3 DEF Next
      <4>. QED BY <4>1 DEF contents
    <3>. QED BY <1>1, <3>2, <3>3
  <2>. QED BY <2>1, <2>2, <2>3
<1>. QED BY Invariance, <1>1, PTL DEF Spec, StartsOnlyAdd
=============================================================================
