---------------------------- MODULE MCTransactions ----------------------------
(***************************************************************************)
(* Small instances of Transactions.                                         *)
(***************************************************************************)
EXTENDS Transactions

CONSTANTS k1, k2, v1

Cmd(op, ks, vs, n) == [op |-> op, keys |-> ks, vals |-> vs, n |-> n, m |-> 0]

\* Creation and change, two ways of removal, a rename.
ChangeCommands ==
    {Cmd("RPUSH", <<k1>>, <<v1>>, 0), Cmd("DEL", <<k1>>, <<>>, 0),
     Cmd("RENAME", <<k1, k2>>, <<>>, 0), Cmd("FLUSHDB", <<>>, <<>>, 0)}

\* The same key in two databases; an SPOP whose count is no int.
MoveCommands ==
    {Cmd("RPUSH", <<k1>>, <<v1>>, 0), Cmd("MOVE", <<k1>>, <<>>, 1),
     [Cmd("SPOP", <<k1>>, <<>>, 0) EXCEPT !.m = 2]}

AuthCommands == {Cmd("RPUSH", <<k1>>, <<v1>>, 0)}

\* Connections are interchangeable.
ConnSymmetry == Permutations(Conn)

WatchOne == {<<k1>>}
=============================================================================
