----------------------------- MODULE ListService -----------------------------
(***************************************************************************)
(* What RediQueue promises the clients of its list commands, without the    *)
(* mutex, the condition variable and the helper goroutines: a request takes *)
(* effect in one step between its arrival and its answer, a blocking one    *)
(* only when its callback succeeds, and a blocking one with a timeout may   *)
(* be given up, with a null answer and no effect.                           *)
(***************************************************************************)
EXTENDS ListCallbacks

CONSTANT Conn

VARIABLES db,      \* db[k]: the list at k, or SetKey
          stage,   \* idle, pending or answered
          req,     \* the request of a connection that is not idle
          reply    \* <<>> or the one answer

svars == <<db, stage, req, reply>>

SInit ==
    /\ db = [k \in Key |-> <<>>]
    /\ stage = [c \in Conn |-> "idle"]
    /\ req \in [Conn -> Request]
    /\ reply = [c \in Conn |-> <<>>]

Move(c, from, to) == stage[c] = from /\ stage' = [stage EXCEPT ![c] = to]

Ask(c, r) ==
    /\ Move(c, "idle", "pending")
    /\ req' = [req EXCEPT ![c] = r]
    /\ UNCHANGED <<db, reply>>

TakeEffect(c) ==
    LET out == Cb(req[c], db) IN
    /\ req[c].op \in BlockingOps => out.done
    /\ Move(c, "pending", "answered")
    /\ db' = out.db
    /\ reply' = [reply EXCEPT ![c] = <<out.reply>>]
    /\ UNCHANGED req

GiveUp(c) ==
    /\ req[c].op \in BlockingOps /\ req[c].timed
    /\ Move(c, "pending", "answered")
    /\ reply' = [reply EXCEPT ![c] = <<"null">>]
    /\ UNCHANGED <<db, req>>

Return(c) ==
    /\ Move(c, "answered", "idle")
    /\ reply' = [reply EXCEPT ![c] = <<>>]
    /\ \E r \in Request : req' = [req EXCEPT ![c] = r]
    /\ UNCHANGED db

SNext ==
    \E c \in Conn :
        \/ \E r \in Request : Ask(c, r)
        \/ TakeEffect(c) \/ GiveUp(c) \/ Return(c)

SSpec == SInit /\ [][SNext]_svars
=============================================================================
