---------------------------- MODULE OIDCLazyInit ----------------------------
(***************************************************************************)
(* internal/auth/oidc.go: the one authenticator with state of its own.     *)
(* The provider is discovered by the first request that needs it, without  *)
(* a lock, while every request runs in a goroutine of its own.             *)
(*                                                                         *)
(* Nothing orders what one goroutine writes before what another one reads, *)
(* so each field assigned by init becomes visible to the others at a       *)
(* moment of its own; the goroutine itself sees its writes at once.        *)
(***************************************************************************)
EXTENDS FiniteSets

CONSTANT Procs   \* request goroutines

VARIABLES
    visible,     \* the fields of OIDCAuth that are no longer nil for everyone
    written,     \* the fields a goroutine has assigned and others may not see
    reachable,   \* whether the OIDC provider answers
    pc, token, ret

vars == <<visible, written, reachable, pc, token, ret>>

Fields == {"provider", "verifier", "oauth2"}
Tokens == {"none", "valid", "invalid"}   \* no or a malformed Authorization header

Init ==
    /\ visible = {}
    /\ written = [p \in Procs |-> {}]
    /\ reachable \in BOOLEAN
    /\ pc = [p \in Procs |-> "idle"]
    /\ token = [p \in Procs |-> "none"]
    /\ ret = [p \in Procs |-> "none"]

\* A field as goroutine p reads it.
Set(p, field) == field \in visible \cup written[p]

Begin(p, t) ==
    /\ pc[p] = "idle"
    /\ pc' = [pc EXCEPT ![p] = "init"]
    /\ token' = [token EXCEPT ![p] = t]
    /\ ret' = [ret EXCEPT ![p] = "none"]
    /\ UNCHANGED <<visible, written, reachable>>

Goto(p, label) == pc' = [pc EXCEPT ![p] = label] /\ UNCHANGED <<token, ret>>

Return(p, result) ==
    /\ pc' = [pc EXCEPT ![p] = "idle"]
    /\ ret' = [ret EXCEPT ![p] = result]
    /\ UNCHANGED token

\* init: nothing to do once a provider is seen.
Check(p) ==
    /\ pc[p] = "init"
    /\ Goto(p, IF Set(p, "provider") THEN "verify" ELSE "discover")
    /\ UNCHANGED <<visible, written, reachable>>

\* Mutants: the verifier is left out; the provider is assigned before the error of
\* NewProvider is looked at; the claims are kept, too.
DiscoverNoVerifier(p) ==
    /\ pc[p] = "discover" /\ reachable
    /\ written' = [written EXCEPT ![p] = Fields \ {"verifier"}]
    /\ Goto(p, "verify")
    /\ UNCHANGED <<visible, reachable>>

DiscoverKeepsFailure(p) ==
    /\ pc[p] = "discover"
    /\ IF reachable THEN Goto(p, "verify") ELSE Return(p, "error")
    /\ written' = [written EXCEPT ![p] = IF reachable THEN Fields ELSE {"provider"}]
    /\ UNCHANGED <<visible, reachable>>

DiscoverKeepsClaims(p) ==
    /\ pc[p] = "discover" /\ reachable
    /\ written' = [written EXCEPT ![p] = Fields \cup {"claims"}]
    /\ Goto(p, "verify")
    /\ UNCHANGED <<visible, reachable>>

\* init: NewProvider asks the provider; its failure is returned and not kept.
Discover(p) ==
    /\ pc[p] = "discover"
    /\ \/ /\ reachable
          /\ written' = [written EXCEPT ![p] = Fields]
          /\ Goto(p, "verify")
       \/ /\ ~reachable
          /\ Return(p, "error")
          /\ UNCHANGED written
    /\ UNCHANGED <<visible, reachable>>

\* The rest of Authenticate.  Verify on a nil verifier panics, and net/http ends
\* the connection without an answer; checking a token may need the provider's
\* keys.
Authenticate(p) ==
    /\ pc[p] = "verify"
    /\ \/ token[p] = "none" /\ Return(p, "error")
       \/ token[p] # "none" /\ ~Set(p, "verifier") /\ Return(p, "panic")
       \/ /\ token[p] # "none" /\ Set(p, "verifier")
          /\ \/ Return(p, IF token[p] = "valid" THEN "user" ELSE "error")
             \/ ~reachable /\ Return(p, "error")
    /\ UNCHANGED <<visible, written, reachable>>

\* A write becomes visible.
Publish(p) ==
    /\ \E field \in written[p] :
          /\ visible' = visible \cup {field}
          /\ written' = [written EXCEPT ![p] = @ \ {field}]
    /\ UNCHANGED <<reachable, pc, token, ret>>

\* The provider goes down or comes back.
Outage ==
    /\ reachable' = ~reachable
    /\ UNCHANGED <<visible, written, pc, token, ret>>

Step(p) == Check(p) \/ Discover(p) \/ Authenticate(p)

Next ==
    \/ \E p \in Procs, t \in Tokens : Begin(p, t)
    \/ \E p \in Procs : Step(p) \/ Publish(p)
    \/ Outage

Spec == Init /\ [][Next]_vars

\* The scheduler runs every goroutine and memory writes arrive.
FairSpec == Spec /\ \A p \in Procs : WF_vars(Step(p)) /\ WF_vars(Publish(p))

-----------------------------------------------------------------------------
(* Properties *)

\* Every variable has its type.
TypeOK ==
    /\ visible \subseteq Fields
    /\ written \in [Procs -> SUBSET Fields]
    /\ reachable \in BOOLEAN
    /\ pc \in [Procs -> {"idle", "init", "discover", "verify"}]
    /\ token \in [Procs -> Tokens]
    /\ ret \in [Procs -> {"none", "error", "user", "panic"}]

\* A request fails for want of a verifier only while the goroutine that
\* initialises has one that others do not see yet: init leaves nothing unset for
\* the requests that come after it (oidc.go init).
PanicsOnlyDuringInit ==
    [][\A p \in Procs :
          pc[p] = "verify" /\ ret'[p] = "panic" =>
              \E q \in Procs \ {p} : "verifier" \in written[q]]_vars

\* "The provider is initialized lazily on first use to avoid failing at startup
\* if the OIDC provider is not yet reachable" (oidc.go:24-25): a failed discovery is
\* not remembered, so once the provider stays up and requests keep coming the
\* authenticator is complete for every goroutine, for good.
RecoversAfterOutage ==
    <>[]reachable /\ (\E p \in Procs : []<>(pc[p] = "init")) => <>[](visible = Fields)

\* "Authenticate validates the request and returns the username, or an error"
\* (authenticator.go:16): it always returns.
AuthenticateReturns == \A p \in Procs : ret[p] # "panic"
=============================================================================
