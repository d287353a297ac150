---------------------------- MODULE ObjectStore ----------------------------
(***************************************************************************)
(* The bucket (S3, GCS) or container (Azure) the file systems of           *)
(* internal/storage keep everything in: a flat map from keys to objects.   *)
(* A file /1/2 is the object with the key "1/2"; a directory /1/2 is an    *)
(* optional empty marker object with the key "1/2/", or just the existence *)
(* of other keys that start with "1/2/" (a "virtual" directory).           *)
(*                                                                         *)
(* A path is the sequence of its names and a name is a positive number, so *)
(* that the order in which a listing returns keys can be stated.  A key is *)
(* a path, too: the trailing "/" of a marker is the name Slash.  With no   *)
(* name a proper prefix of another, comparing keys name by name is         *)
(* comparing the strings, and "starts with dirKey" is IsUnder.             *)
(***************************************************************************)
EXTENDS Integers, Sequences, FiniteSets

CONSTANTS
    PageSize,    \* keys one listing call returns at most (1000 in the services)
    MaxKeyLen,   \* longest key the service accepts, in names
    Chunks       \* writes a complete upload consists of

ASSUME StoreAssumption ==
    /\ PageSize \in Nat \ {0}
    /\ MaxKeyLen \in Nat
    /\ Chunks \in Nat \ {0}

Slash == 0

Paths == Seq(Nat \ {Slash})
Keys  == Seq(Nat)

\* An object is told apart by the upload it comes from and by how many of the
\* upload's chunks it holds; body 0 is the empty body of a marker.
Objects == [body : Nat, chunks : 0..Chunks]
Folder  == [body |-> 0, chunks |-> Chunks]

-----------------------------------------------------------------------------
(* Keys *)

\* A path as a request spells it may have empty, "." and ".." names, too.  path.Clean of
\* "/" and the path drops the first two, and lets ".." take the name before it away.
Dot    == -1
DotDot == -2

Clean(path) ==
    LET Front(names) == IF names = <<>> THEN <<>> ELSE SubSeq(names, 1, Len(names) - 1)
        clean[i \in 0..Len(path)] ==
            IF i = 0 THEN <<>>
            ELSE IF path[i] \in {Slash, Dot} THEN clean[i - 1]
            ELSE IF path[i] = DotDot THEN Front(clean[i - 1])
            ELSE Append(clean[i - 1], path[i])
    IN  clean[Len(path)]

\* The keys of a clean path.
keyFor(path) == path
dirKeyFor(path) == Append(path, Slash)

\* strings.HasPrefix(key, path + "/")
IsUnder(key, path) ==
    /\ Len(key) > Len(path)
    /\ SubSeq(key, 1, Len(path)) = path

\* Mutant: the new directory's key is forgotten.
RebaseRootless(key, old, new) == SubSeq(key, Len(old) + 1, Len(key))

\* newDirKey + strings.TrimPrefix(key, oldDirKey)
Rebase(key, old, new) == new \o SubSeq(key, Len(old) + 1, Len(key))

\* The order of a listing.
Precedes(j, k) ==
    \E i \in 1..Len(k) :
        /\ i <= Len(j) => j[i] < k[i]
        /\ i <= Len(j) + 1
        /\ \A h \in 1..(i - 1) : j[h] = k[h]

\* The last key of a page, none if the page is empty.
Last(S, none) ==
    LET top == {k \in S : \A j \in S \ {k} : Precedes(j, k)}
    IN  IF top = {} THEN none ELSE CHOOSE k \in top : TRUE

\* With the delimiter "/" a listing of path folds everything below a child
\* directory into one common prefix, the child's directory key.
Entry(key, path) ==
    IF Len(key) = Len(path) + 1
    THEN key
    ELSE dirKeyFor(SubSeq(key, 1, Len(path) + 1))

-----------------------------------------------------------------------------
(* Contents: a bucket maps the keys that exist to their objects. *)

IsBucket(b) ==
    /\ DOMAIN b \subseteq Keys /\ IsFiniteSet(DOMAIN b)
    /\ b = [k \in DOMAIN b |-> b[k]]
    /\ \A k \in DOMAIN b : b[k] \in Objects

Store(b, key, object) ==
    [k \in DOMAIN b \cup {key} |-> IF k = key THEN object ELSE b[k]]

Without(b, K) == [k \in DOMAIN b \ K |-> b[k]]

KeysUnder(b, path) == {k \in DOMAIN b : IsUnder(k, path)}

\* One page: the first PageSize elements of S after the continuation token.
After(S, token) == {k \in S : Precedes(token, k)}
FirstPage(S) == {k \in S : Cardinality({j \in S : Precedes(j, k)}) < PageSize}

-----------------------------------------------------------------------------
(* Calls of webdav.FileSystem: what they may touch and what they answer.    *)

NoCall == [op |-> "none", name |-> <<>>, dst |-> <<>>, body |-> 0]

Kinds == {"none", "ok", "error", "missing", "file", "dir", "isDir", "aborted", "lost"}

\* The keys of the file, the marker and everything below a path.
InTree(k, path) == k = keyFor(path) \/ IsUnder(k, path)

\* The keys a call may write or delete.
Footprint(c, k) ==
    \/ c.op = "Mkdir" /\ k = dirKeyFor(c.name)
    \/ c.op = "Put" /\ k = keyFor(c.name)
    \/ c.op = "RemoveAll" /\ InTree(k, c.name)
    \/ c.op = "Rename" /\ (InTree(k, c.name) \/ InTree(k, c.dst))

SameAt(b, c, k) ==
    /\ k \in DOMAIN b <=> k \in DOMAIN c
    /\ k \in DOMAIN b => b[k] = c[k]

\* Not a file and a directory at once, which Mkdir on a file (MKCOL does not look
\* at the name) and an upload below a file bring about.
Plain(b, path) == ~(keyFor(path) \in DOMAIN b /\ KeysUnder(b, path) # {})
=============================================================================
