-------------------------------- MODULE MCDAV --------------------------------
(* A small instance of the server for TLC. *)
EXTENDS DAVServer, MCCalls

Get(n, s) ==
    [method |-> "GET", path |-> n, dst |-> <<>>, overwrite |-> FALSE, slash |-> s, body |-> 1]
Put(n, b)     == [Get(n, FALSE) EXCEPT !.method = "PUT", !.body = b]
Delete(n)     == [Get(n, FALSE) EXCEPT !.method = "DELETE"]
Mkcol(n)      == [Get(n, FALSE) EXCEPT !.method = "MKCOL"]
Move(n, d, o) == [Get(n, FALSE) EXCEPT !.method = "MOVE", !.dst = d, !.overwrite = o]

DAVRequests ==
    {Get(<<1>>, TRUE), Get(<<1>>, FALSE), Put(<<1, 1>>, 1), Put(<<2>>, 2), Delete(<<1>>),
     Mkcol(<<2>>), Move(<<1>>, <<2>>, TRUE), Move(<<1>>, <<2>>, FALSE),
     Move(<<2>>, <<1>>, FALSE), Move(<<2>>, <<2>>, TRUE)}

DAVCalls == CallsOf(DAVRequests)

\* /1 as a directory with and without a marker, and /2 as a file or not at all.
DAVBuckets == {Filled({<<1>>}, {<<1, 1>>}), Filled({}, {<<1, 1>>, <<2>>})}
=============================================================================
