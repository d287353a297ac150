------------------------------ MODULE MCCalls ------------------------------
(* Calls and buckets for small instances of the cloud file systems. *)
EXTENDS FileSystemCalls

Mkdir_(n)     == [op |-> "Mkdir", name |-> n, dst |-> <<>>, body |-> 1]
Put_(n, b)    == [op |-> "Put", name |-> n, dst |-> <<>>, body |-> b]
Read_(n)      == [op |-> "Read", name |-> n, dst |-> <<>>, body |-> 1]
Open_(n)      == [op |-> "Open", name |-> n, dst |-> <<>>, body |-> 1]
Remove_(n)    == [op |-> "RemoveAll", name |-> n, dst |-> <<>>, body |-> 1]
Rename_(n, d) == [op |-> "Rename", name |-> n, dst |-> d, body |-> 1]
Stat_(n)      == [op |-> "Stat", name |-> n, dst |-> <<>>, body |-> 1]

File(b) == [body |-> b, chunks |-> Chunks]

\* A bucket with the given directory markers and the given files, each with a
\* content of its own.
Filled(markers, files) ==
    [k \in {dirKeyFor(m) : m \in markers} \cup files |->
        IF k \in files THEN File(10 * Len(k) + k[Len(k)]) ELSE Folder]

\* /1 with a file, a subdirectory and a file in it; with and without markers.
TreeBuckets ==
    {Filled({<<1>>, <<1, 2>>}, {<<1, 1>>, <<1, 2, 1>>}),
     Filled({}, {<<1, 1>>, <<1, 2, 1>>}),
     Filled({<<3>>}, {<<1>>, <<3, 1>>})}

\* Two subtrees, /1 and /3, that calls work in independently.  Some of their paths are
\* spelled /../3/./1, /1/../3, /1/, //2 and /.. .
IsolatedCalls ==
    {Mkdir_(<<1>>), Put_(<<1>>, 3), Put_(<<1, 1>>, 1), Read_(<<1, Slash>>), Open_(<<1>>), Remove_(<<1>>),
     Rename_(<<1>>, <<2>>), Rename_(<<Slash, 2>>, <<1>>), Stat_(<<1>>),
     Put_(<<DotDot, 3, Dot, 1>>, 2), Remove_(<<1, DotDot, 3>>), Read_(<<>>), Open_(<<>>),
     Stat_(<<DotDot>>)}

\* An upload into a directory that is being renamed.
RacingCalls == {Rename_(<<1>>, <<2>>), Put_(<<1, 1>>, 1), Put_(<<1, 3>>, 2)}
RacingBuckets == {Filled({<<1>>}, {<<1, 1>>})}

\* Names without percent escapes; and the name 5, "a%20b", which decodes to 6, "a b".
Unescaped == [n \in {} |-> n]
OneEscape == [n \in {5} |-> 6]
EscapedCalls == {Rename_(<<5>>, <<2>>), Mkdir_(<<5>>), Stat_(<<5>>)}
EscapedBuckets == {Filled({}, {<<5>>, <<6>>}), Filled({<<3>>}, {<<5>>, <<6>>, <<3, 5>>})}

\* A lone client that renames and removes.
MovingCalls  == {Rename_(<<1>>, <<2>>), Mkdir_(<<1>>), Stat_(<<1>>)}
RemovingCalls == {Remove_(<<1>>), Stat_(<<1>>)}
=============================================================================
