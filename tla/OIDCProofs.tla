----------------------------- MODULE OIDCProofs -----------------------------
(***************************************************************************)
(* For any number of goroutines: init leaves nobody without a verifier but *)
(* those who look while another goroutine initialises.                     *)
(***************************************************************************)
EXTENDS OIDCLazyInit, TLAPS

\* Some goroutine has assigned the verifier and others may not see it.
Underway == \E q \in Procs : "verifier" \in written[q]

\* Whoever sees a provider sees a verifier, or one is on its way.
IInv ==
    /\ TypeOK
    /\ "provider" \in visible => "verifier" \in visible \/ Underway
    /\ \A p \in Procs :
          /\ "provider" \in written[p] => "verifier" \in visible \cup written[p]
          /\ pc[p] = "verify" => "verifier" \in visible \/ Underway
          /\ pc[p] # "idle" => ret[p] = "none"

LEMMA InitIInv == Init => IInv
BY DEF Init, IInv, TypeOK, Underway, Fields, Tokens

LEMMA NextIInv == IInv /\ [Next]_vars => IInv'
<1>. SUFFICES ASSUME IInv, [Next]_vars  PROVE IInv'
  OBVIOUS
<1>1. ASSUME NEW p \in Procs, NEW t \in Tokens, Begin(p, t)  PROVE IInv'
  BY <1>1 DEF Begin, IInv, TypeOK, Underway
<1>2. ASSUME NEW p \in Procs, Check(p)  PROVE IInv'
  <2>1. TypeOK' /\ visible' = visible /\ written' = written
    BY <1>2 DEF Check, Goto, IInv, TypeOK
  <2>2. ASSUME NEW q \in Procs, pc'[q] = "verify"  PROVE "verifier" \in visible \/ Underway
    <3>1. CASE q = p
      BY <1>2, <2>2, <3>1 DEF Check, Goto, IInv, TypeOK, Set, Underway
    <3>2. CASE q # p
      BY <1>2, <2>2, <3>2 DEF Check, Goto, IInv, TypeOK
    <3>. QED BY <3>1, <3>2
  <2>3. \A q \in Procs : pc'[q] # "idle" => ret'[q] = "none"
    BY <1>2 DEF Check, Goto, IInv, TypeOK
  <2>. QED BY <2>1, <2>2, <2>3 DEF IInv, Underway
<1>3. ASSUME NEW p \in Procs, Discover(p)  PROVE IInv'
  <2>1. CASE reachable
    <3>1. /\ TypeOK' /\ visible' = visible /\ written' = [written EXCEPT ![p] = Fields]
          /\ "verifier" \in written'[p]
      BY <1>3, <2>1 DEF Discover, Goto, IInv, TypeOK, Fields
    <3>2. Underway'
      BY <3>1 DEF Underway
    <3>3. \A q \in Procs : pc'[q] # "idle" => ret'[q] = "none"
      BY <1>3, <2>1 DEF Discover, Goto, IInv, TypeOK
    <3>. QED BY <3>1, <3>2, <3>3 DEF IInv, TypeOK, Fields
  <2>2. CASE ~reachable
    BY <1>3, <2>2 DEF Discover, Return, IInv, TypeOK, Underway
  <2>. QED BY <2>1, <2>2
<1>4. ASSUME NEW p \in Procs, Authenticate(p)  PROVE IInv'
  BY <1>4 DEF Authenticate, Return, IInv, TypeOK, Underway
<1>5. ASSUME NEW p \in Procs, Publish(p)  PROVE IInv'
  <2>1. PICK field \in written[p] :
           /\ visible' = visible \cup {field}
           /\ written' = [written EXCEPT ![p] = @ \ {field}]
    BY <1>5 DEF Publish
  <2>2. TypeOK'
    BY <1>5, <2>1 DEF Publish, IInv, TypeOK
  <2>3. "verifier" \in visible \/ Underway => "verifier" \in visible' \/ Underway'
    BY <2>1 DEF IInv, TypeOK, Underway
  <2>4. ASSUME NEW q \in Procs, "provider" \in written'[q]
        PROVE  "verifier" \in visible' \cup written'[q]
    BY <2>1, <2>4 DEF IInv, TypeOK
  <2>5. "provider" \in visible' => "verifier" \in visible' \/ Underway'
    <3>1. CASE field = "provider"
      BY <2>1, <2>3, <3>1 DEF IInv, TypeOK, Underway
    <3>2. CASE field # "provider"
      BY <2>1, <2>3, <3>2 DEF IInv
    <3>. QED BY <3>1, <3>2
  <2>. QED BY <1>5, <2>2, <2>3, <2>4, <2>5 DEF Publish, IInv
<1>6. CASE Outage
  BY <1>6 DEF Outage, IInv, TypeOK, Underway
<1>7. CASE UNCHANGED vars
  BY <1>7 DEF vars, IInv, TypeOK, Underway
<1>. QED BY <1>1, <1>2, <1>3, <1>4, <1>5, <1>6, <1>7 DEF Next, Step

\* The inductive invariant: whoever sees a provider sees a verifier, or one has been
\* assigned and is on its way (oidc.go init and Authenticate).
THEOREM Invariance == Spec => []IInv
BY InitIInv, NextIInv, PTL DEF Spec

\* Every variable has its type, in every reachable state (oidc.go).
THEOREM OIDCTypeCorrect == Spec => []TypeOK
<1>1. IInv => TypeOK
  BY DEF IInv
<1>. QED BY Invariance, <1>1, PTL

\* A request that panics does so while another goroutine has assigned a verifier that
\* is not visible yet (oidc.go init).
THEOREM PanicsOnlyThen == Spec => PanicsOnlyDuringInit
<1>1. ASSUME IInv, [Next]_vars
      PROVE  [\A p \in Procs :
                 pc[p] = "verify" /\ ret'[p] = "panic" =>
                     \E q \in Procs \ {p} : "verifier" \in written[q]]_vars
  <2>. SUFFICES ASSUME vars' # vars, NEW p \in Procs, pc[p] = "verify", ret'[p] = "panic"
                PROVE  \E q \in Procs \ {p} : "verifier" \in written[q]
    OBVIOUS
  <2>0. ret[p] = "none"
    BY <1>1 DEF IInv
  <2>1. ~Set(p, "verifier")
    <3>1. ASSUME NEW q \in Procs,
                 Check(q) \/ Discover(q) \/ Publish(q) \/ \E t \in Tokens : Begin(q, t)
          PROVE  FALSE
      BY <1>1, <2>0, <3>1 DEF Check, Discover, Publish, Begin, Goto, Return, IInv, TypeOK
    <3>2. ASSUME NEW q \in Procs, Authenticate(q)  PROVE q = p
      BY <1>1, <2>0, <3>2 DEF Authenticate, Return, IInv, TypeOK
    <3>3. CASE Authenticate(p)
      BY <1>1, <3>3 DEF Authenticate, Return, IInv, TypeOK
    <3>4. ~Outage
      BY <2>0 DEF Outage
    <3>. QED BY <1>1, <3>1, <3>2, <3>3, <3>4 DEF Next, Step
  <2>2. "verifier" \notin visible /\ Underway
    BY <1>1, <2>1 DEF IInv, Set
  <2>. QED BY <2>1, <2>2 DEF Underway, Set
<1>. QED BY Invariance, <1>1, PTL DEF Spec, PanicsOnlyDuringInit
=============================================================================
