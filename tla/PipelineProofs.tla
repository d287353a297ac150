--------------------------- MODULE PipelineProofs ---------------------------
(***************************************************************************)
(* For every set of rules, authenticators, methods and requests: the       *)
(* longest matching path decides, in whatever case a user's name is        *)
(* spelled, a login is asked for only where one can help, and preflights   *)
(* are answered.                                                           *)
(***************************************************************************)
EXTENDS RequestPipeline, FiniteSetTheorems, TLAPS

\* A non-empty set of numbers has a least element: among the intervals up to its
\* elements one is minimal.
LEMMA Least ==
    ASSUME NEW T \in SUBSET Nat, T # {}
    PROVE  \E x \in T : \A y \in T : x <= y
<1>. DEFINE F == {1..x : x \in T}
           R == StrictSubsetOrdering(Nat)
<1>1. F \subseteq FiniteSubsetsOf(Nat) /\ F # {}
  <2>1. \A x \in T : 1..x \subseteq Nat /\ IsFiniteSet(1..x)
    BY FS_Interval
  <2>. QED BY <2>1 DEF FiniteSubsetsOf
<1>2. IsWellFoundedOn(R, FiniteSubsetsOf(Nat))
  BY FS_StrictSubsetOrderingWellFounded
<1>3. PICK m \in F : \A y \in F : <<y, m>> \notin R
  <2>. HIDE DEF F, R
  <2>. QED BY <1>1, <1>2, WFMin
<1>4. PICK x \in T : m = 1..x
  OBVIOUS
<1>5. ASSUME NEW y \in T, y < x  PROVE FALSE
  <2>1. 1..y \subseteq 1..x /\ x \in 1..x /\ x \notin 1..y
    BY <1>5
  <2>2. <<1..y, m>> \in R
    BY <1>4, <2>1 DEF StrictSubsetOrdering
  <2>. QED BY <1>3, <2>2
<1>. QED
  <2>1. \A y \in T : ~(y < x)
    BY <1>5
  <2>. QED BY <2>1

-----------------------------------------------------------------------------
(* The rules *)

LEMMA LenType == \A path \in Seq(Nat) : StringLen(path) \in Nat
<1>. SUFFICES ASSUME NEW path \in Seq(Nat)  PROVE StringLen(path) \in Nat
  OBVIOUS
<1>1. CASE IsDir(path)
  <2>1. Len(path) \in Nat /\ Len(path) # 0
    BY <1>1 DEF IsDir
  <2>. QED BY <1>1, <2>1 DEF StringLen
<1>2. CASE ~IsDir(path)
  BY <1>2 DEF StringLen
<1>. QED
  BY <1>1, <1>2

\* A list of rules, and one New may have left it in.
IsRules(list) ==
    /\ Len(list) \in Nat /\ DOMAIN list = 1..Len(list)
    /\ \A i \in DOMAIN list : list[i].path \in Seq(Nat)

\* At most one rule is found, one is found when any matches, and of the rules
\* that match none has a longer path (manager.go New and findPermission).
LEMMA MostSpecific ==
    ASSUME NEW list, NEW n \in Nat, DOMAIN list = 1..n, Ordered(list),
           \A i \in 1..n : list[i].path \in Seq(Nat),
           NEW path
    PROVE  /\ \A i, j \in findPermission(list, path) : i = j
           /\ findPermission(list, path) = {} <=> \A i \in 1..n : ~Matches(list[i], path)
           /\ \A i \in findPermission(list, path), j \in 1..n :
                 Matches(list[j], path) => StringLen(list[j].path) <= StringLen(list[i].path)
<1>. DEFINE T == {i \in 1..n : Matches(list[i], path)}
<1>1. findPermission(list, path) = {i \in T : \A j \in 1..(i - 1) : j \notin T}
  <2>1. \A i \in 1..n : \A j \in 1..(i - 1) : j \in 1..n
    OBVIOUS
  <2>. QED BY <2>1 DEF findPermission
<1>2. findPermission(list, path) = {i \in T : \A j \in T : i <= j}
  <2>1. ASSUME NEW i \in T
        PROVE (\A j \in 1..(i - 1) : j \notin T) <=> (\A j \in T : i <= j)
    OBVIOUS
  <2>. HIDE DEF T
  <2>. QED BY <1>1, <2>1
<1>3. T \subseteq Nat
  OBVIOUS
<1>4. T # {} => findPermission(list, path) # {}
  <2>. HIDE DEF T
  <2>. QED BY <1>2, <1>3, Least
<1>5. \A i, j \in T : (\A k \in T : i <= k) /\ (\A k \in T : j <= k) => i = j
  BY <1>3
<1>6. ASSUME NEW i \in findPermission(list, path), NEW j \in T
      PROVE StringLen(list[j].path) <= StringLen(list[i].path)
  <2>1. i \in 1..n /\ j \in 1..n /\ i <= j
    BY <1>2, <1>6
  <2>2. StringLen(list[i].path) \in Nat /\ StringLen(list[j].path) \in Nat
    BY <2>1, LenType
  <2>3. i < j => StringLen(list[i].path) >= StringLen(list[j].path)
    BY <2>1 DEF Ordered
  <2>. QED BY <2>1, <2>2, <2>3
<1>. QED
  BY <1>2, <1>4, <1>5, <1>6

\* The sorted rules are the rules, in another order.
LEMMA SortingFacts ==
    ASSUME NEW list, Len(list) \in Nat, DOMAIN list = 1..Len(list), NEW s \in Sortings(list)
    PROVE  /\ DOMAIN s = 1..Len(list)
           /\ Ordered(s)
           /\ \A i \in 1..Len(list) : \E j \in 1..Len(list) : s[i] = list[j]
           /\ \A j \in 1..Len(list) : \E i \in 1..Len(list) : s[i] = list[j]
<1>. DEFINE n == Len(list)
<1>1. PICK f \in [1..n -> 1..n] :
         /\ \A j \in 1..n : \E i \in 1..n : f[i] = j
         /\ s = [i \in 1..n |-> list[f[i]]]
         /\ Ordered(s)
  BY DEF Sortings
<1>2. \A i \in 1..n : s[i] = list[f[i]] /\ f[i] \in 1..n
  BY <1>1
<1>. QED
  BY <1>1, <1>2

-----------------------------------------------------------------------------
(* The invariant *)

\* Nothing has been sent for a request that is on its way; the manager's rules
\* are the configured ones, sorted.
IInv ==
    /\ TypeOK
    /\ stage # "ready" => status = 0
    /\ stage \notin {"load", "failed"} => perms \in Sortings(rules)
    /\ config.raw \in RawPermissions
    /\ PromptsOnlyForLogin

LEMMA RulesFacts ==
    config.raw \in RawPermissions =>
        /\ Len(rules) \in Nat /\ DOMAIN rules = 1..Len(rules)
        /\ \A i \in 1..Len(rules) : rules[i].path \in Seq(Nat)
BY PipelineAssumption DEF rules

LEMMA RuleSetFacts ==
    config.raw \in RawPermissions =>
        \A s \in Sortings(rules) : Ordered(s) /\ RuleSet(s) = RuleSet(rules)
<1>. SUFFICES ASSUME config.raw \in RawPermissions, NEW s \in Sortings(rules)
              PROVE  Ordered(s) /\ RuleSet(s) = RuleSet(rules)
  OBVIOUS
<1>1. /\ DOMAIN s = 1..Len(rules) /\ DOMAIN rules = 1..Len(rules) /\ Ordered(s)
      /\ \A i \in 1..Len(rules) : \E j \in 1..Len(rules) : s[i] = rules[j]
      /\ \A j \in 1..Len(rules) : \E i \in 1..Len(rules) : s[i] = rules[j]
  BY RulesFacts, SortingFacts
<1>. DEFINE N == 1..Len(rules)
<1>2. RuleSet(s) = {s[i] : i \in N} /\ RuleSet(rules) = {rules[i] : i \in N}
  BY <1>1 DEF RuleSet
<1>3. \A x : x \in RuleSet(s) <=> x \in RuleSet(rules)
  <2>. HIDE DEF N
  <2>1. /\ \A i \in N : \E j \in N : s[i] = rules[j]
        /\ \A j \in N : \E i \in N : s[i] = rules[j]
    BY <1>1 DEF N
  <2>. QED BY <1>2, <2>1
<1>. QED
  BY <1>1, <1>3

LEMMA InitIInv == Init => IInv
BY PipelineAssumption DEF Init, IInv, TypeOK, Stages, Known, PromptsOnlyForLogin, Ordered

\* Only a rule that is found and not public asks for a login.
LEMMA UnauthFacts ==
    ASSUME NEW list, NEW path, NEW method, NEW user, Check(list, path, method, user) = "DenyUnauth"
    PROVE  findPermission(list, path) # {} /\ RequiresAuth(list, path) /\ user = NoUser
BY DEF Check, Decide, RequiresAuth

LEMMA PassKeeps ==
    ASSUME IInv, stage \notin {"load", "failed", "ready"}, NEW next \in Stages \ {"load", "failed", "ready"},
           Pass(next)
    PROVE  IInv'
BY DEF Pass, IInv, TypeOK, PromptsOnlyForLogin, rules, Known

LEMMA AnswerKeeps ==
    ASSUME IInv, stage \notin {"load", "failed", "ready"}, NEW code \in {200, 204, 403, 404}, Answer(code)
    PROVE  IInv'
BY DEF Answer, IInv, TypeOK, PromptsOnlyForLogin, rules, Known, Stages

LEMMA NextIInv == IInv /\ [Next]_vars => IInv'
<1>. SUFFICES ASSUME IInv, [Next]_vars  PROVE IInv'
  OBVIOUS
<1>1. CASE Start
  <2>1. stage = "load" /\ status' = 0 /\ config' = config /\ rules' = rules
    BY <1>1 DEF Start, IInv, rules
  <2>2. CASE ParseError(config.raw)
    BY <1>1, <2>1, <2>2 DEF Start, IInv, TypeOK, PromptsOnlyForLogin, Stages, Known
  <2>3. CASE ~ParseError(config.raw)
    <3>1. perms' \in Sortings(rules) /\ stage' = "ready"
      BY <1>1, <2>3 DEF Start
    <3>2. Ordered(perms)' /\ (RuleSet(perms) = RuleSet(rules))'
      BY <2>1, <3>1, RuleSetFacts DEF IInv, Ordered, RuleSet
    <3>. QED
      BY <1>1, <2>1, <3>1, <3>2 DEF Start, IInv, TypeOK, PromptsOnlyForLogin, Stages, Known
  <2>. QED BY <2>2, <2>3
<1>2. CASE Receive
  BY <1>2, PipelineAssumption DEF Receive, IInv, TypeOK, PromptsOnlyForLogin, Stages, Known, rules
<1>3. CASE healthMiddleware
  BY <1>3, PassKeeps, AnswerKeeps DEF healthMiddleware, Stages
<1>4. CASE corsMiddleware
  BY <1>4, PassKeeps, AnswerKeeps DEF corsMiddleware, Stages
<1>5. CASE browserBlockMiddleware
  BY <1>5, PassKeeps, AnswerKeeps DEF browserBlockMiddleware, Stages
<1>6. CASE authMiddleware
  <2>1. CASE Pass("handler")
    BY <1>6, <2>1, PassKeeps DEF authMiddleware, Stages
  <2>2. CASE /\ \E up \in SUBSET {"oidc", "ldap"} : username' = Authenticate(up)
             /\ stage' = "check"
             /\ UNCHANGED <<config, perms, req, status, served>>
    <3>1. username' \in {req.user, NoUser}
      BY <2>2 DEF Authenticate
    <3>2. username' \in Known
      BY <3>1 DEF IInv, TypeOK, Known, NoRequest
    <3>. QED
      BY <1>6, <2>2, <3>2
      DEF authMiddleware, IInv, TypeOK, PromptsOnlyForLogin, Stages, Known, rules
  <2>. QED BY <1>6, <2>1, <2>2 DEF authMiddleware
<1>7. CASE permMiddleware
  <2>1. CASE Pass("handler")
    BY <1>7, <2>1, PassKeeps DEF permMiddleware, Stages
  <2>2. CASE Answer(403)
    BY <1>7, <2>2, AnswerKeeps DEF permMiddleware, Stages
  <2>3. CASE Answer(401) /\ Check(perms, req.path, req.method, username) = "DenyUnauth"
    <3>1. /\ findPermission(perms, req.path) # {}
          /\ RequiresAuth(perms, req.path)
          /\ username = NoUser
      BY <2>3, UnauthFacts
    <3>. QED
      BY <1>7, <2>3, <3>1
      DEF permMiddleware, Answer, IInv, TypeOK, PromptsOnlyForLogin, Stages, Known, rules
  <2>. QED BY <1>7, <2>1, <2>2, <2>3 DEF permMiddleware
<1>8. CASE Handler
  BY <1>8, AnswerKeeps DEF Handler, Stages
<1>9. CASE UNCHANGED vars
  BY <1>9 DEF vars, IInv, TypeOK, PromptsOnlyForLogin, Known, rules
<1>. QED
  BY <1>1, <1>2, <1>3, <1>4, <1>5, <1>6, <1>7, <1>8, <1>9 DEF Next

LEMMA PipelineInvariance == Spec => []IInv
BY InitIInv, NextIInv, PTL DEF Spec

\* A browser is asked for a login only where a rule requires one and the request
\* has none that was accepted, for every configuration (server/middleware.go
\* authPermMiddleware, manager.go Check).
THEOREM Prompts == Spec => []PromptsOnlyForLogin
<1>1. IInv => PromptsOnlyForLogin
  BY DEF IInv
<1>. QED
  BY <1>1, PipelineInvariance, PTL

\* Every variable keeps its type, and the manager holds the configured rules in
\* the order New sorts them into.
THEOREM PipelineTypeCorrect == Spec => []TypeOK
<1>1. IInv => TypeOK
  BY DEF IInv
<1>. QED
  BY <1>1, PipelineInvariance, PTL

-----------------------------------------------------------------------------
(* Preflights *)

\* Before the server is up there are no requests, and a preflight never gets further
\* than the CORS middleware.
Preflighted ==
    /\ stage \in {"load", "failed"} => served = 0
    /\ served > 0 /\ config.cors /\ req.method = "OPTIONS" /\ req.path \notin {Health, Favicon} =>
          stage \in {"health", "cors"} \/ (stage = "ready" /\ status = 204)

\* Only corsMiddleware answers a preflight, and only it follows healthMiddleware then.
LEMMA PreflightKeeps == Preflighted /\ [Next]_vars => Preflighted'
<1>. SUFFICES ASSUME Preflighted, [Next]_vars  PROVE Preflighted'
  OBVIOUS
<1>. USE DEF Preflighted
<1>1. CASE Start
  BY <1>1 DEF Start
<1>2. CASE Receive
  BY <1>2 DEF Receive
<1>3. CASE healthMiddleware
  BY <1>3 DEF healthMiddleware, Pass, Answer
<1>4. CASE corsMiddleware
  BY <1>4 DEF corsMiddleware, Pass, Answer
<1>5. CASE browserBlockMiddleware \/ authMiddleware \/ permMiddleware \/ Handler
  <2>1. /\ stage \notin {"load", "failed", "ready", "health", "cors"}
        /\ stage' \notin {"load", "failed"}
        /\ UNCHANGED <<config, req, served>>
    BY <1>5 DEF browserBlockMiddleware, authMiddleware, permMiddleware, Handler, Pass, Answer
  <2>. QED BY <2>1
<1>6. CASE UNCHANGED vars
  BY <1>6 DEF vars
<1>. QED BY <1>1, <1>2, <1>3, <1>4, <1>5, <1>6 DEF Next

\* A preflight is answered by the CORS middleware alone, without a login and for a
\* blocked browser too, for every configuration that allows CORS (server.go:68-77).
THEOREM Preflights == Spec => []PreflightIsAnswered
<1>1. Init => Preflighted
  BY DEF Init, Preflighted
<1>2. Preflighted => PreflightIsAnswered
  BY DEF Preflighted, PreflightIsAnswered
<1>. QED BY <1>1, <1>2, PreflightKeeps, PTL DEF Spec

-----------------------------------------------------------------------------
(* The spelling of a name *)

\* Another spelling of a name that is not empty is not the empty name.
LEMMA Respelled ==
    ASSUME NEW u \in [name : STRING, caps : BOOLEAN], u.name = "" => u = NoUser, u # NoUser
    PROVE  LET v == [u EXCEPT !.caps = ~@]
           IN  v.name = u.name /\ v # NoUser
<1>. DEFINE v == [u EXCEPT !.caps = ~@]
<1>1. v.name = u.name
  OBVIOUS
<1>2. NoUser.name = ""
  BY DEF NoUser, User
<1>. QED BY <1>1, <1>2

\* A rule decides alike for two spellings of a name.
LEMMA DecideFolds ==
    ASSUME NEW rule, NEW method, NEW u, NEW v, u.name = v.name, u # NoUser, v # NoUser
    PROVE  Decide(rule, method, u) = Decide(rule, method, v)
<1>1. \A x : EqualFold(x, u) <=> EqualFold(x, v)
  BY DEF EqualFold
<1>. QED BY <1>1 DEF Decide

\* However the client spells the name of a user, the decision is the same: for every
\* list of rules, in whatever case the configuration writes the names (manager.go Check).
THEOREM SpellingIsFree == Spec => []CaseInsensitive
<1>1. IInv => CaseInsensitive
  <2>. SUFFICES ASSUME IInv, username # NoUser
                PROVE  LET respelled == [username EXCEPT !.caps = ~@]
                       IN  Check(perms, req.path, req.method, username)
                              = Check(perms, req.path, req.method, respelled)
    BY DEF CaseInsensitive
  <2>. DEFINE v == [username EXCEPT !.caps = ~@]
  <2>1. username \in [name : STRING, caps : BOOLEAN] /\ (username.name = "" => username = NoUser)
    <3>1. \E r \in Requests : username = r.user
      BY DEF IInv, TypeOK, Known
    <3>. QED BY <3>1, UserAssumption
  <2>2. v.name = username.name /\ v # NoUser
    BY <2>1, Respelled
  <2>. HIDE DEF v
  <2>3. \A rule : Decide(rule, req.method, username) = Decide(rule, req.method, v)
    BY <2>2, DecideFolds
  <2>4. Check(perms, req.path, req.method, username) = Check(perms, req.path, req.method, v)
    BY <2>3 DEF Check
  <2>. QED BY <2>4 DEF v
<1>. QED BY <1>1, PipelineInvariance, PTL

-----------------------------------------------------------------------------
(* The longest prefix wins *)

LEMMA VerdictFacts ==
    ASSUME IInv, Next, stage = "check"
    PROVE  Verdict = Check(perms, req.path, req.method, username)
<1>1. permMiddleware
  BY DEF Next, Start, Receive, healthMiddleware, corsMiddleware, browserBlockMiddleware,
         authMiddleware, Handler
<1>. QED
  BY <1>1 DEF permMiddleware, Pass, Answer, Verdict, IInv

\* A check of the sorted rules is decided by the one rule with the longest
\* matching path of the configured ones.
LEMMA CheckMostSpecific ==
    ASSUME NEW list, Len(list) \in Nat, DOMAIN list = 1..Len(list),
           \A i \in 1..Len(list) : list[i].path \in Seq(Nat),
           NEW s \in Sortings(list), NEW path, NEW method, NEW user
    PROVE  ByLongest(list, path, method, user, Check(s, path, method, user))
<1>. DEFINE n == Len(list)
            matching == {i \in DOMAIN list : Matches(list[i], path)}
            best == {i \in matching : \A j \in matching :
                        StringLen(list[j].path) <= StringLen(list[i].path)}
            found == findPermission(s, path)
<1>1. /\ DOMAIN s = 1..n /\ Ordered(s)
      /\ \A i \in 1..n : \E j \in 1..n : s[i] = list[j]
      /\ \A j \in 1..n : \E i \in 1..n : s[i] = list[j]
  BY SortingFacts
<1>2. \A i \in 1..n : s[i].path \in Seq(Nat)
  BY <1>1
<1>3. /\ \A i, j \in found : i = j
      /\ found = {} <=> \A i \in 1..n : ~Matches(s[i], path)
      /\ \A i \in found, j \in 1..n :
            Matches(s[j], path) => StringLen(s[j].path) <= StringLen(s[i].path)
  <2>. HIDE DEF n
  <2>1. n \in Nat
    BY DEF n
  <2>. QED BY <1>1, <1>2, <2>1, MostSpecific
<1>4. found \subseteq {i \in 1..n : Matches(s[i], path)}
  BY <1>1 DEF findPermission
<1>5. ASSUME matching = {}  PROVE Check(s, path, method, user) = "DenyForbid"
  <2>1. \A i \in 1..n : ~Matches(s[i], path)
    BY <1>1, <1>5
  <2>. QED BY <1>3, <2>1 DEF Check
<1>6. ASSUME NEW i \in best, best = {i}
      PROVE  Check(s, path, method, user) = Decide(list[i], method, user)
  <2>1. i \in 1..n /\ Matches(list[i], path)
    OBVIOUS
  <2>2. found # {}
    BY <1>1, <1>3, <2>1
  <2>3. PICK k \in found : TRUE
    BY <2>2
  <2>4. k \in 1..n /\ Matches(s[k], path)
    BY <1>4, <2>3
  <2>5. PICK j \in 1..n : s[k] = list[j]
    BY <1>1, <2>4
  <2>6. j \in matching
    BY <2>4, <2>5
  <2>7. \A h \in matching : StringLen(list[h].path) <= StringLen(list[j].path)
    <3>1. SUFFICES ASSUME NEW h \in matching
                   PROVE  StringLen(list[h].path) <= StringLen(list[j].path)
      OBVIOUS
    <3>2. PICK g \in 1..n : s[g] = list[h]
      BY <1>1
    <3>. QED BY <1>3, <2>3, <2>5, <3>2
  <2>8. j = i
    BY <1>6, <2>6, <2>7
  <2>9. (CHOOSE x \in found : TRUE) = k
    BY <1>3, <2>3
  <2>. QED
    <3>. HIDE DEF best, matching
    <3>1. Check(s, path, method, user) = Decide(s[k], method, user)
      BY <2>2, <2>9 DEF Check
    <3>. QED BY <2>5, <2>8, <3>1
<1>. QED
  <2>. HIDE DEF found, n
  <2>. QED BY <1>5, <1>6 DEF ByLongest

\* The longest matching path decides a request, for every list of rules and
\* whatever order the sort leaves rules of one length in (manager.go New, Check).
THEOREM LongestWins == Spec => LongestPrefixWins
<1>. DEFINE Wins ==
        stage = "check" => ByLongest(rules, req.path, req.method, username, Verdict)
<1>1. IInv /\ [Next]_vars => [Wins]_vars
  <2>. SUFFICES ASSUME IInv, Next, stage = "check"  PROVE Wins
    OBVIOUS
  <2>1. perms \in Sortings(rules) /\ config.raw \in RawPermissions
    BY DEF IInv
  <2>2. Verdict = Check(perms, req.path, req.method, username)
    BY VerdictFacts
  <2>3. /\ Len(rules) \in Nat /\ DOMAIN rules = 1..Len(rules)
        /\ \A i \in 1..Len(rules) : rules[i].path \in Seq(Nat)
    BY <2>1, RulesFacts
  <2>4. ByLongest(rules, req.path, req.method, username,
                  Check(perms, req.path, req.method, username))
    BY <2>1, <2>3, CheckMostSpecific
  <2>. QED
    BY <2>2, <2>4
<1>. QED
  BY <1>1, PipelineInvariance, PTL DEF Spec, LongestPrefixWins
=============================================================================
