--------------------------- MODULE TreeRefinement ---------------------------
(***************************************************************************)
(* A cloud file system implements FileTree.                                *)
(***************************************************************************)
EXTENDS Backends, FileSystemProperties

\* The tree as the calls in flight have found it: where one of them works, the
\* objects as they were when it began, and the bucket everywhere else.
Working(k) == {p \in Procs : pc[p] # "idle" /\ Footprint(call[p], k)}

Visible(k) ==
    IF Working(k) = {}
    THEN k \in DOMAIN bucket
    ELSE \E p \in Working(k) : k \in DOMAIN before[p]

Seen(k) ==
    IF Working(k) = {}
    THEN bucket[k]
    ELSE LET p == CHOOSE p \in Working(k) : TRUE IN before[p][k]

TreeStore ==
    LET keys == DOMAIN bucket \cup UNION {DOMAIN before[p] : p \in Procs}
    IN  [k \in {k \in keys : Visible(k)} |-> Seen(k)]

Tree ==
    INSTANCE FileTree WITH
        store   <- TreeStore,
        running <- [p \in Procs |-> IF pc[p] = "idle" THEN NoCall ELSE call[p]],
        result  <- [p \in Procs |-> ret[p].kind],
        healthy <- (faults = 0),
        detects <- (backend = "gcs" => ExactSentinel)

\* Every call of its own subtree looks as if it happened at the moment it returns:
\* without a failed request with exactly its effect and its answer, whatever
\* requests it consists of; after one with a part of its effect inside the subtree,
\* no object of a Rename lost, and a success of Mkdir, Close and Rename that means
\* what it says (all methods of s3.go, gcs.go, azure.go).  With a client library that
\* wraps its sentinel GCS implements the tree that does not tell absence from failure.
ImplementsTree == Tree!TreeSpec
=============================================================================
