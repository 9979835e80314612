---------------------------- MODULE ListCallbacks ----------------------------
(***************************************************************************)
(* The requests that block, wake or disturb a blocked client, and what      *)
(* their callbacks do to the keys (src/cmd_list.go, src/db.go).             *)
(*                                                                          *)
(* Data is abstracted to what the blocking protocol depends on: a key holds *)
(* a list (the empty one when the key is absent) or is a set key, SetKey.   *)
(***************************************************************************)
EXTENDS Naturals, Sequences

CONSTANTS Key,      \* names of keys
          Elem,     \* list elements the clients push
          SetKey,   \* the value of a key that holds a set
          Request   \* the requests the clients may send

Ends == {"left", "right"}

\* withTx commands, direct API calls and blocking commands.
TxOps       == {"push", "pop", "rpoplpush", "sadd", "del"}
DirectOps   == {"direct"}
BlockingOps == {"bpop", "brpoplpush"}

PopOps  == {"pop", "bpop"}
MoveOps == {"rpoplpush", "brpoplpush"}
PushOps == {"push", "direct"}

AllRequests ==
    [op    : TxOps \cup DirectOps \cup BlockingOps,
     keys  : Seq(Key),       \* the key arguments
     elem  : Elem,           \* the pushed element (push and direct only)
     lr    : Ends,           \* which end a push or a pop works on
     timed : BOOLEAN]        \* does a blocking command have a timeout?

ASSUME BlockingAssumption ==
    /\ SetKey \notin Seq(Elem)
    /\ Request # {} /\ Request \subseteq AllRequests
    /\ \A r \in Request : Len(r.keys) >= IF r.op \in MoveOps THEN 2 ELSE 1

Replies == Elem \cup {"ok", "null", "wrongtype"}

\* A bulk string on the wire is never taken for a status, a null or an error.
ASSUME ReplyAssumption == Elem \cap {"ok", "null", "wrongtype"} = {}
-----------------------------------------------------------------------------
(***************************************************************************)
(* The callbacks: what a request does to the keys, as a function of them.   *)
(* done is FALSE when a blocking command has to wait; the non-blocking      *)
(* command of the same name then answers null.                              *)
(***************************************************************************)
EndOf(l, lr)  == IF lr = "left" THEN Head(l) ELSE l[Len(l)]
Rest(l, lr)   == IF lr = "left" THEN Tail(l) ELSE SubSeq(l, 1, Len(l) - 1)

Put(l, e, lr) == IF lr = "left" THEN <<e>> \o l ELSE Append(l, e)

Waits(d)       == [done |-> FALSE, db |-> d, reply |-> "null"]
Answers(d, rp) == [done |-> TRUE, db |-> d, reply |-> rp]

\* LPOP, RPOP (one key), BLPOP, BRPOP (several): the first key that exists decides.
Hits(r, d)     == {i \in 1..Len(r.keys) : d[r.keys[i]] # <<>>}
FirstHit(r, d) == CHOOSE i \in Hits(r, d) : \A j \in Hits(r, d) : i <= j

PopCb(r, d) ==
    LET k == r.keys[FirstHit(r, d)] IN
        IF Hits(r, d) = {} THEN Waits(d)
        ELSE IF d[k] = SetKey THEN Answers(d, "wrongtype")
        ELSE Answers([d EXCEPT ![k] = Rest(d[k], r.lr)], EndOf(d[k], r.lr))

\* Seeded fault: the destination list is read before the pop.
MoveCbStale(r, d) ==
    LET src == r.keys[1]
        dst == r.keys[2]
        d1  == [d EXCEPT ![src] = Rest(d[src], "right")]
    IN  IF d[src] = <<>> THEN Waits(d)
        ELSE IF d[src] = SetKey \/ d[dst] = SetKey THEN Answers(d, "wrongtype")
        ELSE Answers([d1 EXCEPT ![dst] = Put(d[dst], EndOf(d[src], "right"), "left")],
                     EndOf(d[src], "right"))

\* RPOPLPUSH, BRPOPLPUSH: listPop(src), then listLpush(dst); src may be dst.
MoveCb(r, d) ==
    LET src == r.keys[1]
        dst == r.keys[2]
        d1  == [d EXCEPT ![src] = Rest(d[src], "right")]
    IN  IF d[src] = <<>> THEN Waits(d)
        ELSE IF d[src] = SetKey \/ d[dst] = SetKey THEN Answers(d, "wrongtype")
        ELSE Answers([d1 EXCEPT ![dst] = Put(d1[dst], EndOf(d[src], "right"), "left")],
                     EndOf(d[src], "right"))

\* Seeded fault: the arguments are not shifted, so the key itself is pushed.
PushCbUnshifted(r, d) ==
    IF d[r.keys[1]] = SetKey THEN Answers(d, "wrongtype")
    ELSE Answers([d EXCEPT ![r.keys[1]] = Put(@, r.keys[1], r.lr)], "ok")

\* LPUSH, RPUSH, and the direct Lpush and Push.
PushCb(r, d) ==
    IF d[r.keys[1]] = SetKey THEN Answers(d, "wrongtype")
    ELSE Answers([d EXCEPT ![r.keys[1]] = Put(@, r.elem, r.lr)], "ok")

\* SADD: only an absent key or a set key.
SaddCb(r, d) ==
    IF d[r.keys[1]] \in {<<>>, SetKey} THEN Answers([d EXCEPT ![r.keys[1]] = SetKey], "ok")
    ELSE Answers(d, "wrongtype")

DelCb(r, d) == Answers([d EXCEPT ![r.keys[1]] = <<>>], "ok")

Cb(r, d) ==
    CASE r.op \in PopOps  -> PopCb(r, d)
      [] r.op \in MoveOps -> MoveCb(r, d)
      [] r.op \in PushOps -> PushCb(r, d)
      [] r.op = "sadd"    -> SaddCb(r, d)
      [] OTHER            -> DelCb(r, d)
=============================================================================
