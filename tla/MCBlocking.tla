------------------------------ MODULE MCBlocking ------------------------------
(***************************************************************************)
(* Small instances of Blocking: sets of requests for the constant Request.  *)
(***************************************************************************)
EXTENDS Blocking, TLC

CONSTANTS k1, k2, e1, e2

R(op, keys, elem, lr, timed) ==
    [op |-> op, keys |-> keys, elem |-> elem, lr |-> lr, timed |-> timed]

Plain(op, keys) == R(op, keys, e1, "left", FALSE)

\* Connections are interchangeable.
ConnSymmetry == Permutations(Conn)

\* Every kind of request, both ends, a pop of two keys, a rotation of one list.
SafetyRequests ==
    {R("push", <<k1>>, e1, "left", FALSE), R("push", <<k1>>, e2, "right", FALSE),
     R("direct", <<k2>>, e2, "right", FALSE), R("direct", <<k1>>, e1, "left", FALSE),
     R("pop", <<k1>>, e1, "right", FALSE),
     Plain("rpoplpush", <<k1, k1>>), Plain("rpoplpush", <<k2, k1>>),
     Plain("sadd", <<k2>>), Plain("del", <<k1>>), Plain("del", <<k2>>),
     R("bpop", <<k2, k1>>, e1, "left", TRUE), R("bpop", <<k2>>, e1, "left", FALSE),
     R("brpoplpush", <<k1, k2>>, e1, "left", TRUE)}

\* One element that two kinds of blocking pops compete for; the push broadcasts.
LiveRequests ==
    {R("push", <<k1>>, e1, "left", FALSE),
     R("bpop", <<k2, k1>>, e1, "left", TRUE), R("bpop", <<k1>>, e1, "left", FALSE)}

\* Two blocked clients and a client that pushes, with a BRPOPLPUSH between them.
MoveRequests ==
    {R("push", <<k1>>, e1, "left", FALSE),
     R("brpoplpush", <<k1, k2>>, e1, "left", FALSE),
     R("bpop", <<k2>>, e1, "left", FALSE)}

\* Blocking pops with a timeout.
TimedRequests ==
    {R("bpop", <<k1>>, e1, "left", TRUE), R("bpop", <<k2, k1>>, e2, "right", TRUE)}
=============================================================================
