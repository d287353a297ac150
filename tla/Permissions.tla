---------------------------- MODULE Permissions ----------------------------
(***************************************************************************)
(* internal/permissions/manager.go and parseFolderPermissions of           *)
(* internal/config/config.go: from the entries of FOLDER_PERMISSIONS to    *)
(* the decision about one request.                                         *)
(*                                                                         *)
(* A path is the sequence of its names (positive numbers, one character    *)
(* each); a trailing "/" is the name Slash, so "/1/2/" is <<1, 2, 0>> and  *)
(* "/" is <<0>>.                                                           *)
(***************************************************************************)
EXTENDS Naturals, Sequences, FiniteSets

CONSTANTS ROMethods, RWMethods   \* RO_METHODS and RW_METHODS

Slash == 0

\* A user name as it is spelled; strings.EqualFold ignores the case.
User(n)        == [name |-> n, caps |-> FALSE]
\* Mutant: names are compared as they are spelled.
EqualExactly(u, v) == u = v

EqualFold(u, v) == u.name = v.name
NoUser   == User("")
Everyone == User("*")
Public   == User("public")

-----------------------------------------------------------------------------
(* parseFolderPermissions.  An entry has a number of ":"-separated parts    *)
(* (0 for a blank one), a path, user tokens with or without "!", a mode.    *)

Blank(e) == e.parts = 0

Malformed(e) ==
    \/ e.parts # 3
    \/ e.mode \notin {"ro", "rw"}
    \/ \A t \in e.tokens : t.excluded

RuleOf(e) ==
    [path |-> e.path,
     users |-> {t.user : t \in {t \in e.tokens : ~t.excluded}},
     excluded |-> {t.user : t \in {t \in e.tokens : t.excluded}},
     mode |-> e.mode]

\* One malformed entry fails the start; otherwise the rules in their order.
ParseError(raw) == \E i \in DOMAIN raw : ~Blank(raw[i]) /\ Malformed(raw[i])

parseFolderPermissions(raw) ==
    LET entries == SelectSeq(raw, LAMBDA e : ~Blank(e))
    IN  [i \in DOMAIN entries |-> RuleOf(entries[i])]

-----------------------------------------------------------------------------
(* New *)

\* A path without its trailing "/", and its length as a string.  A path may be
\* empty: the entry ":alice:rw" is accepted.
IsDir(path) == path # <<>> /\ path[Len(path)] = Slash
Dir(path) == IF IsDir(path) THEN SubSeq(path, 1, Len(path) - 1) ELSE path
StringLen(path) == IF IsDir(path) THEN 2 * Len(path) - 1 ELSE 2 * Len(path)

\* Mutant: the shortest path comes first.
OrderedAscending(perms) ==
    \A i, j \in DOMAIN perms :
        i < j => StringLen(perms[i].path) <= StringLen(perms[j].path)

Ordered(perms) ==
    \A i, j \in DOMAIN perms :
        i < j => StringLen(perms[i].path) >= StringLen(perms[j].path)

\* Mutant: the rules stay in the order of the configuration.
SortingsUnsorted(rules) == {rules}

\* sort.Slice is not stable: rules of one length come in any order.
Sortings(rules) ==
    LET n == Len(rules)
        permutations == {f \in [1..n -> 1..n] : \A j \in 1..n : \E i \in 1..n : f[i] = j}
    IN  {perms \in {[i \in 1..n |-> rules[f[i]]] : f \in permutations} : Ordered(perms)}

-----------------------------------------------------------------------------
(* Check *)

\* The rule's path itself, or anything below it.  The request's path is compared as it
\* was sent: an empty, "." or ".." name is a name like any other here, and only the file
\* system cleans it (Clean of ObjectStore).
Matches(rule, path) ==
    LET dir == Dir(rule.path)
    IN  \/ path = rule.path
        \/ Len(path) > Len(dir) /\ SubSeq(path, 1, Len(dir)) = dir

\* The index of the first rule that matches; empty stands for nil.
findPermission(perms, path) ==
    {i \in DOMAIN perms :
        Matches(perms[i], path) /\ \A j \in 1..(i - 1) : ~Matches(perms[j], path)}

isPublic(rule) == Public \in rule.users
isWriteMethod(method) == method \notin ROMethods

\* What one rule decides about a request.
Decide(rule, method, username) ==
    LET readOnly == isWriteMethod(method) /\ rule.mode = "ro"
        allowed  == \E u \in rule.users : u = Everyone \/ EqualFold(u, username)
        excluded == \E u \in rule.excluded : EqualFold(u, username)
    IN  IF method \notin ROMethods \cup RWMethods THEN "DenyForbid"
        ELSE IF isPublic(rule) THEN (IF readOnly THEN "DenyForbid" ELSE "Allow")
        ELSE IF username = NoUser THEN "DenyUnauth"
        ELSE IF excluded \/ ~allowed \/ readOnly THEN "DenyForbid"
        ELSE "Allow"

\* Mutant: a path without a rule asks for a login.
CheckUnmatchedUnauth(perms, path, method, username) ==
    LET found == findPermission(perms, path)
    IN  IF found = {} THEN "DenyUnauth"
        ELSE Decide(perms[CHOOSE i \in found : TRUE], method, username)

Check(perms, path, method, username) ==
    LET found == findPermission(perms, path)
    IN  IF found = {} THEN "DenyForbid"
        ELSE Decide(perms[CHOOSE i \in found : TRUE], method, username)

RequiresAuth(perms, path) ==
    LET found == findPermission(perms, path)
    IN  found = {} \/ ~isPublic(perms[CHOOSE i \in found : TRUE])
=============================================================================
