-------------------------- MODULE RequestPipeline --------------------------
(***************************************************************************)
(* The middleware chain of internal/server: what a request passes on its   *)
(* way to the directory listing and WebDAV handlers, built from a          *)
(* configuration by server.New and auth.New.  One request at a time: the   *)
(* middlewares share no state (for the one that does see OIDCLazyInit).    *)
(***************************************************************************)
EXTENDS Permissions

CONSTANTS
    RawPermissions,   \* possible values of FOLDER_PERMISSIONS, parsed into entries
    AuthConfigs,      \* [oidc, ldap, basic : BOOLEAN, basicUsers, ldapUsers]
    Requests,         \* [path, method, browser, scheme, user, valid]
    MaxRequests       \* bound on the number of requests

\* A user's name is a string, and only the empty one has no second spelling.
ASSUME UserAssumption ==
    \A r \in Requests :
        /\ r.user \in [name : STRING, caps : BOOLEAN]
        /\ r.user.name = "" => r.user = NoUser

\* What parseFolderPermissions returns is a list of rules with a path each.
ASSUME PipelineAssumption ==
    /\ MaxRequests \in Nat
    /\ \A raw \in RawPermissions :
          LET parsed == parseFolderPermissions(raw)
          IN  /\ Len(parsed) \in Nat /\ DOMAIN parsed = 1..Len(parsed)
              /\ \A i \in DOMAIN parsed : parsed[i].path \in Seq(Nat)

VARIABLES
    config,    \* the parsed configuration: rules, authenticators, switches
    perms,     \* the manager's sorted rules, or <<>> before New
    req,       \* the request
    stage,     \* the next middleware
    username,  \* what the authenticator returned
    status,    \* the status sent, 0 as long as there is none
    served     \* requests begun

vars == <<config, perms, req, stage, username, status, served>>

Health  == <<98>>   \* "/_health"
Favicon == <<99>>   \* "/favicon.ico"

NoRequest == [path |-> <<>>, method |-> "none", browser |-> FALSE,
              scheme |-> "none", user |-> NoUser, valid |-> FALSE]

Init ==
    /\ \E raw \in RawPermissions, a \in AuthConfigs, cors, blocked \in BOOLEAN :
          config = [raw |-> raw, auth |-> a, cors |-> cors, blocked |-> blocked]
    /\ perms = <<>>
    /\ req = NoRequest
    /\ stage = "load"
    /\ username = NoUser
    /\ status = 0
    /\ served = 0

rules == parseFolderPermissions(config.raw)

-----------------------------------------------------------------------------
(* auth.New and Chain.Authenticate *)

\* The providers in the order in which they are asked.
Providers(a) ==
    SelectSeq(<<"oidc", "ldap", "basic">>,
              LAMBDA x : \/ x = "oidc" /\ a.oidc
                         \/ x = "ldap" /\ a.ldap
                         \/ x = "basic" /\ a.basic /\ a.basicUsers # {})

\* An ID token of the provider; see OIDCLazyInit.
AcceptsOIDC(up) == "oidc" \in up /\ req.scheme = "bearer" /\ req.valid

\* Connect, service bind and search need the directory; it looks names up without
\* regard to case, and the name is handed on as the client spelled it.  The bind as
\* the user it found decides.
AcceptsLDAP(up) ==
    /\ req.scheme = "basic"
    /\ "ldap" \in up
    /\ \E u \in config.auth.ldapUsers : EqualFold(u, req.user)
    /\ req.valid

\* A key of the map of users, spelled exactly so, and bcrypt's answer.
AcceptsBasic == req.scheme = "basic" /\ req.user \in config.auth.basicUsers /\ req.valid

\* Whether a provider accepts the request's credentials; one that is down accepts
\* nothing.
Accepts(x, up) ==
    \/ x = "oidc" /\ AcceptsOIDC(up)
    \/ x = "ldap" /\ AcceptsLDAP(up)
    \/ x = "basic" /\ AcceptsBasic

\* The first success of the chain wins; without a provider, NoAuth.
Authenticate(up) ==
    IF \E i \in DOMAIN Providers(config.auth) : Accepts(Providers(config.auth)[i], up)
    THEN req.user
    ELSE NoUser

-----------------------------------------------------------------------------
(* The chain *)

\* config.Load and server.New.
Start ==
    /\ stage = "load"
    /\ \/ /\ ParseError(config.raw)
          /\ stage' = "failed"
          /\ UNCHANGED perms
       \/ /\ ~ParseError(config.raw)
          /\ stage' = "ready"
          /\ perms' \in Sortings(rules)
    /\ UNCHANGED <<config, req, username, status, served>>

Receive ==
    /\ stage = "ready"
    /\ served < MaxRequests
    /\ req' \in Requests
    /\ stage' = "health"
    /\ username' = NoUser
    /\ status' = 0
    /\ served' = served + 1
    /\ UNCHANGED <<config, perms>>

Pass(next) == stage' = next /\ UNCHANGED <<config, perms, req, username, status, served>>

Answer(code) ==
    /\ stage' = "ready"
    /\ status' = code
    /\ UNCHANGED <<config, perms, req, username, served>>

\* Mutant: the CORS middleware stands behind the browser block.
healthMiddlewareBlockFirst ==
    /\ stage = "health"
    /\ \/ req.path = Health /\ Answer(200)
       \/ req.path = Favicon /\ Answer(404)
       \/ req.path \notin {Health, Favicon} /\ Pass("block")

healthMiddleware ==
    /\ stage = "health"
    /\ \/ req.path = Health /\ Answer(200)
       \/ req.path = Favicon /\ Answer(404)
       \/ req.path \notin {Health, Favicon} /\ Pass(IF config.cors THEN "cors" ELSE "block")

corsMiddleware ==
    /\ stage = "cors"
    /\ IF req.method = "OPTIONS" THEN Answer(204) ELSE Pass("block")

browserBlockMiddleware ==
    /\ stage = "block"
    /\ IF config.blocked /\ req.browser THEN Answer(403) ELSE Pass("auth")

\* OPTIONS goes on unauthenticated; otherwise the authenticator's error is
\* dropped and the empty name is checked.
authMiddleware ==
    /\ stage = "auth"
    /\ \/ req.method = "OPTIONS" /\ Pass("handler")
       \/ /\ req.method # "OPTIONS"
          /\ \E up \in SUBSET {"oidc", "ldap"} : username' = Authenticate(up)
          /\ stage' = "check"
          /\ UNCHANGED <<config, perms, req, status, served>>

permMiddleware ==
    /\ stage = "check"
    /\ LET result == Check(perms, req.path, req.method, username)
       IN  \/ result = "Allow" /\ Pass("handler")
           \/ result = "DenyUnauth" /\ Answer(401)
           \/ result = "DenyForbid" /\ Answer(403)

\* The handlers behind the chain.
Handler == stage = "handler" /\ Answer(200)

Next ==
    \/ Start \/ Receive
    \/ healthMiddleware \/ corsMiddleware \/ browserBlockMiddleware
    \/ authMiddleware \/ permMiddleware \/ Handler

Spec == Init /\ [][Next]_vars

-----------------------------------------------------------------------------
(* Properties *)

Stages == {"load", "failed", "ready", "health", "cors", "block", "auth", "check", "handler"}
RuleSet(s) == {s[i] : i \in DOMAIN s}
Known == {r.user : r \in Requests} \cup {NoUser}

\* Every variable has its type; a status is one the chain sends.
TypeOK ==
    /\ stage \in Stages
    /\ Ordered(perms)
    /\ stage \notin {"load", "failed"} => RuleSet(perms) = RuleSet(rules)
    /\ req \in Requests \cup {NoRequest}
    /\ username \in Known
    /\ status \in {0, 200, 204, 401, 403, 404}
    /\ served \in 0..MaxRequests

\* What the check of a request at stage "check" comes to.
Verdict ==
    IF stage' = "handler" THEN "Allow"
    ELSE IF status' = 401 THEN "DenyUnauth" ELSE "DenyForbid"

\* A decision is that of the rule with the longest matching path, if one path is
\* the longest, and a denial if no rule matches.
ByLongest(list, path, method, user, decision) ==
    LET matching == {i \in DOMAIN list : Matches(list[i], path)}
        best == {i \in matching : \A j \in matching :
                     StringLen(list[j].path) <= StringLen(list[i].path)}
    IN  /\ matching = {} => decision = "DenyForbid"
        /\ \A i \in best : best = {i} => decision = Decide(list[i], method, user)

\* "Longest prefix wins" (docs/configuration.md:68), in whatever order the
\* configuration lists the rules and the unstable sort leaves rules of one length, for the
\* path as the request spells it (manager.go New, Check).
LongestPrefixWins ==
    [][stage = "check" => ByLongest(rules, req.path, req.method, username, Verdict)]_vars

\* "unmatched paths (e.g. /favicon.ico) must not trigger a browser auth dialog"
\* (manager.go:58-59), nor do public folders: a 401 is sent only for a path whose
\* rule requires a login, to a request without an accepted one.
PromptsOnlyForLogin ==
    status = 401 =>
        /\ findPermission(perms, req.path) # {}
        /\ RequiresAuth(perms, req.path)
        /\ username = NoUser

\* A preflight is answered without credentials, also for a blocked browser:
\* browser clients cannot send either with it (server.go:68-77).
PreflightIsAnswered ==
    stage = "ready" /\ served > 0 /\ config.cors /\ req.method = "OPTIONS"
        /\ req.path \notin {Health, Favicon} => status = 204

\* The spelling of the user's name never changes a decision: LDAP hands on the
\* name as the client typed it (manager.go Check, strings.EqualFold).
CaseInsensitive ==
    stage = "check" =>
        LET respelled == [username EXCEPT !.caps = ~@]
        IN  username # NoUser =>
                Check(perms, req.path, req.method, username)
                    = Check(perms, req.path, req.method, respelled)
=============================================================================
