----------------------------- MODULE MCPipeline -----------------------------
(* Small instances of the request pipeline for TLC. *)
EXTENDS RequestPipeline

Alice == User("alice")
ALICE == [Alice EXCEPT !.caps = TRUE]
Bob   == User("bob")

In(u)  == [user |-> u, excluded |-> FALSE]
Out(u) == [user |-> u, excluded |-> TRUE]
Entry(path, tokens, mode) == [parts |-> 3, path |-> path, tokens |-> tokens, mode |-> mode]
BlankEntry == [Entry(<<1>>, {}, "rw") EXCEPT !.parts = 0]

\* Nested rules in each order, a root rule, equal lengths, a duplicate path, a
\* trailing slash, blank and malformed entries.
RawLists ==
    {<<Entry(<<1>>, {In(Everyone)}, "rw"), Entry(<<1, 2>>, {In(Alice)}, "ro")>>,
     <<Entry(<<1, 2>>, {In(Public)}, "ro"), Entry(<<1>>, {In(Bob)}, "rw")>>,
     <<Entry(<<0>>, {In(Public)}, "ro"), BlankEntry, Entry(<<1>>, {In(Everyone), Out(Bob)}, "rw")>>,
     <<Entry(<<1>>, {In(Alice)}, "rw"), Entry(<<2>>, {In(Bob)}, "rw"), Entry(<<1, 0>>, {In(Bob)}, "ro")>>,
     <<Entry(<<1>>, {In(Alice)}, "ro"), Entry(<<1>>, {In(Public)}, "rw")>>,
     <<Entry(<<>>, {In(Bob)}, "ro"), Entry(<<0>>, {In(Public)}, "ro")>>,
     <<Entry(<<1>>, {Out(Bob)}, "rw")>>,
     <<Entry(<<1>>, {In(Alice)}, "rx"), Entry(<<2>>, {In(Bob)}, "rw")>>}

Auth(oidc, ldap, basic) ==
    [oidc |-> oidc, ldap |-> ldap, basic |-> basic,
     basicUsers |-> {Alice, Bob}, ldapUsers |-> {Alice}]

AuthChoices ==
    {Auth(FALSE, FALSE, FALSE), Auth(FALSE, FALSE, TRUE), Auth(TRUE, TRUE, TRUE),
     Auth(FALSE, TRUE, FALSE)}

Request(path, method, browser, scheme, user, valid) ==
    [path |-> path, method |-> method, browser |-> browser,
     scheme |-> scheme, user |-> user, valid |-> valid]

Credentials ==
    {[scheme |-> "none", user |-> NoUser, valid |-> FALSE],
     [scheme |-> "basic", user |-> Alice, valid |-> TRUE],
     [scheme |-> "basic", user |-> ALICE, valid |-> TRUE],
     [scheme |-> "basic", user |-> Bob, valid |-> TRUE],
     [scheme |-> "basic", user |-> Bob, valid |-> FALSE],
     [scheme |-> "bearer", user |-> Bob, valid |-> TRUE]}

RequestsFor(paths, methods) ==
    {Request(p, m, b, c.scheme, c.user, c.valid) :
        p \in paths, m \in methods, b \in BOOLEAN, c \in Credentials}

Up == 97   \* ".."

AllRequests ==
    RequestsFor({<<1>>, <<1, 0>>, <<1, 2>>, <<1, Up, 2>>, <<1, 2, 3>>, <<2>>, Health, Favicon},
                {"GET", "PUT", "OPTIONS", "PATCH"})
=============================================================================
