------------------------------- MODULE Commands -------------------------------
(***************************************************************************)
(* The callbacks of the commands (src/cmd_list.go, cmd_set.go,              *)
(* cmd_generic.go, cmd_server.go): what a command does to the databases     *)
(* once its arguments are parsed, and what it answers.  withTx and EXEC run *)
(* them under the mutex, so each one is a function of the databases.        *)
(*                                                                          *)
(* A command is a record of its parsed arguments.  A callback yields a set  *)
(* of outcomes, several when the code draws at random.  A panic ends the    *)
(* process: servePeer does not recover.                                     *)
(***************************************************************************)
EXTENDS Db, ListOps

CONSTANT DB      \* the numbers of the databases

ASSUME DBAssumption == DB \subseteq Nat /\ 0 \in DB /\ IsFiniteSet(DB)

\* The commands, and the direct methods, by the arguments without which the handlers
\* refuse a request.
Keyless  == {"DEL", "KEYS", "SCAN", "RANDOMKEY", "DBSIZE", "FLUSHDB", "FLUSHALL",
             "UNWATCH", "Keys", "FlushDB", "FlushAll"}
OneKey   == {"LPOP", "RPOP", "BLPOP", "BRPOP", "LINDEX", "LLEN", "LRANGE", "LTRIM", "SCARD",
             "SMEMBERS", "SPOP", "SRANDMEMBER", "SDIFF", "SINTER", "SUNION", "SSCAN", "TYPE",
             "EXISTS", "MOVE", "List", "Push", "Lpop", "Pop", "SetAdd", "SRem", "Members",
             "Del", "Type", "Exists"}
TwoKeys  == {"RPOPLPUSH", "BRPOPLPUSH", "SMOVE", "SDIFFSTORE", "SINTERSTORE", "SUNIONSTORE",
             "RENAME", "RENAMENX"}
OneValue == {"LPUSH", "RPUSH", "LPUSHX", "RPUSHX", "LINSERT", "LREM", "LSET", "SADD", "SREM",
             "SISMEMBER", "SMOVE", "Lpush", "IsMember"}

Arguments ==
    [op   : Keyless \cup OneKey \cup TwoKeys \cup OneValue,
     keys : Seq(Key),    \* key arguments; the keys a pattern matches
     vals : Seq(Val),    \* values, members, pivot
     n    : Int64,       \* index, count, cursor, database number
     m    : Int64]       \* end of a range; 1: with a count (SPOP, SRANDMEMBER), with a
                         \* pattern the regexp compiler refuses (KEYS, SCAN, SSCAN);
                         \* 2: with a count that is no int, or something after it (SPOP)

Commands ==
    {c \in Arguments :
        /\ c.op \notin Keyless => Len(c.keys) >= 1
        /\ c.op \in TwoKeys => Len(c.keys) >= 2
        /\ c.op \in OneValue => Len(c.vals) >= 1
        /\ c.op = "LINSERT" => Len(c.vals) >= 2
        /\ c.op = "MOVE" => c.n \in DB}

Null      == <<"null">>
OK        == <<"ok">>
WrongType == <<"error", "wrongtype">>
NoSuchKey == <<"error", "no such key">>
BadInt    == <<"error", "invalid int">>
Panicked  == <<"panic">>
IntReply(i) == <<"int", i>>
Bulk(v)     == <<"bulk", v>>
Array(x)    == <<"array", x>>

One(db, reply) == {[db |-> db, reply |-> reply]}

vset(c) == ToSet(c.vals)
\* MustCompile panics on the pattern of c (see Patterns).
badPattern(c) == c.m = 1

K(c)    == c.keys[1]
V(c)    == c.vals[1]
-----------------------------------------------------------------------------
(***************************************************************************)
(* Lists.  Most callbacks first look at the key: absent, wrong type, or a   *)
(* list.  Names of operations: X stands for L or R.                         *)
(***************************************************************************)
\* Seeded fault: the answer comes from the other end.
popsOther(l, c) == IF c.op \in {"LPOP", "BLPOP"} THEN l[Len(l)] ELSE Head(l)

popped(l, c) == IF c.op \in {"LPOP", "BLPOP"} THEN Head(l) ELSE l[Len(l)]
popFrom(db, k, c) ==
    IF c.op \in {"LPOP", "BLPOP"} THEN listLpop(db, k) ELSE listPop(db, k)

OnList(db, k, absent, present) ==
    IF ~exists(db, k) THEN One(db, absent)
    ELSE IF t(db, k) # "list" THEN One(db, WrongType)
    ELSE present

cbXpop(c, db) ==
    OnList(db, K(c), Null,
        IF popPanics(db, K(c)) THEN One(db, Panicked)
        ELSE One(popFrom(db, K(c), c), Bulk(popped(listAt(db, K(c)), c))))

\* BLPOP and BRPOP in a transaction: the timeout's null when no key serves.
cbBXpop(c, db) ==
    LET hit == SelectInSeq(c.keys, LAMBDA x : /\ exists(db, x)
                                              /\ t(db, x) = "list" => listAt(db, x) # <<>>)
        k   == c.keys[hit]
    IN  IF hit = 0 THEN One(db, Null)
        ELSE IF t(db, k) # "list" THEN One(db, WrongType)
        ELSE One(popFrom(db, k, c), Array(<<k, popped(listAt(db, k), c)>>))

\* Seeded fault: the arguments are not shifted, so the key is the first value.
pushedUnshifted(c, db) ==
    bump(putList(db, K(c), listAt(db, K(c)) \o <<K(c)>> \o c.vals), K(c), Len(c.vals))

\* The values are pushed one by one, so LPUSH leaves them in reverse.
pushed(c, db) ==
    LET l == listAt(db, K(c)) IN
    bump(putList(db, K(c), IF c.op \in {"LPUSH", "LPUSHX"} THEN Reverse(c.vals) \o l
                           ELSE l \o c.vals),
         K(c), Len(c.vals) - 1)
PushReply(c, db) == One(pushed(c, db), IntReply(Len(listAt(pushed(c, db), K(c)))))

cbXpush(c, db) ==
    IF exists(db, K(c)) /\ t(db, K(c)) # "list" THEN One(db, WrongType)
    ELSE PushReply(c, db)

cbXpushx(c, db) == OnList(db, K(c), IntReply(0), PushReply(c, db))

\* Seeded fault: the destination's type is checked after the pop.
cbRpoplpushLate(c, db) ==
    LET src == c.keys[1]
        dst == c.keys[2]
        d   == listPop(db, src)
        el  == listAt(db, src)[Len(listAt(db, src))]
    IN  OnList(db, src, Null,
            IF exists(d, dst) /\ t(d, dst) # "list" THEN One(d, WrongType)
            ELSE One(listLpush(d, dst, el), Bulk(el)))

\* RPOPLPUSH, and BRPOPLPUSH in a transaction (which takes an empty list for
\* one to wait on, where RPOPLPUSH panics).
cbRpoplpush(c, db) ==
    LET src == c.keys[1]
        dst == c.keys[2]
        l   == listAt(db, src)
    IN  IF ~exists(db, src) THEN One(db, Null)
        ELSE IF t(db, src) # "list" \/ (exists(db, dst) /\ t(db, dst) # "list")
             THEN One(db, WrongType)
        ELSE IF popPanics(db, src)
             THEN One(db, IF c.op = "BRPOPLPUSH" THEN Null ELSE Panicked)
        ELSE One(listLpush(listPop(db, src), dst, l[Len(l)]), Bulk(l[Len(l)]))

cbLindex(c, db) ==
    LET l == listAt(db, K(c))
        p == position(l, c.n)
    IN  OnList(db, K(c), Null, One(db, IF outOfRange(l, p) THEN Null ELSE Bulk(l[p + 1])))

cbLinsert(c, db) ==     \* vals: pivot, value; n: -1 before, 1 after
    LET l == listAt(db, K(c)) IN
    OnList(db, K(c), IntReply(0),
        IF pivotAt(l, c.vals[1]) = 0 THEN One(db, IntReply(-1))
        ELSE One(bump([db EXCEPT !.listKeys[K(c)] =
                          linsert(l, c.n, c.vals[1], c.vals[2])], K(c), 1),
                 IntReply(Len(l) + 1)))

cbLlen(c, db) == OnList(db, K(c), IntReply(0), One(db, IntReply(Len(listAt(db, K(c))))))

cbLrange(c, db) ==
    LET l == listAt(db, K(c)) IN
    OnList(db, K(c), Array(<<>>), One(db, Array(slice(l, redisRange(Len(l), c.n, c.m)))))

\* LREM, LTRIM: an emptied list is deleted.
keep(db, k, l) ==
    IF l = <<>> THEN del(db, k) ELSE bump([db EXCEPT !.listKeys[k] = l], k, 1)

cbLrem(c, db) ==
    LET l == listAt(db, K(c))
        r == lrem(l, c.n, V(c))
    IN  OnList(db, K(c), IntReply(0), One(keep(db, K(c), r), IntReply(Len(l) - Len(r))))

cbLtrim(c, db) ==
    LET l == listAt(db, K(c)) IN
    OnList(db, K(c), OK, One(keep(db, K(c), slice(l, redisRange(Len(l), c.n, c.m))), OK))

cbLset(c, db) ==
    LET p == position(listAt(db, K(c)), c.n) IN
    OnList(db, K(c), NoSuchKey,
        IF outOfRange(listAt(db, K(c)), p) THEN One(db, <<"error", "out of range">>)
        ELSE One(bump([db EXCEPT !.listKeys[K(c)][p + 1] = V(c)], K(c), 1), OK))
-----------------------------------------------------------------------------
(***************************************************************************)
(* Sets.                                                                    *)
(***************************************************************************)
OnSet(db, k, absent, present) ==
    IF ~exists(db, k) THEN One(db, absent)
    ELSE IF t(db, k) # "set" THEN One(db, WrongType)
    ELSE present

cbSadd(c, db) ==
    IF notSet(db, K(c)) THEN One(db, WrongType)
    ELSE One(setAdd(db, K(c), vset(c)), IntReply(Cardinality(vset(c) \ setAt(db, K(c)))))

cbSrem(c, db) ==
    OnSet(db, K(c), IntReply(0),
        One(setRem(db, K(c), vset(c)), IntReply(Cardinality(vset(c) \cap setAt(db, K(c))))))

cbScard(c, db) == OnSet(db, K(c), IntReply(0), One(db, IntReply(Cardinality(setAt(db, K(c))))))

cbSismember(c, db) ==
    OnSet(db, K(c), IntReply(0), One(db, IntReply(IF setIsMember(db, K(c), V(c)) THEN 1 ELSE 0)))

cbSmembers(c, db) == OnSet(db, K(c), Array({}), One(db, Array(setAt(db, K(c)))))

\* SMOVE: the member leaves src before it joins dst; they may be one key.
cbSmove(c, db) ==
    LET src == c.keys[1]
        dst == c.keys[2]
    IN  OnSet(db, src, IntReply(0),
            IF notSet(db, dst) THEN One(db, WrongType)
            ELSE IF ~setIsMember(db, src, V(c)) THEN One(db, IntReply(0))
            ELSE One(setAdd(setRem(db, src, {V(c)}), dst, {V(c)}), IntReply(1)))

\* SPOP draws one member after the other, at most n of them; each one is a
\* setRem of its own.  Its count is parsed here, not by the handler.
cbSpop(c, db) ==
    LET s     == setAt(db, K(c))
        count == IF c.m = 1 THEN c.n ELSE 1
        size  == IF count < 0 THEN 0 ELSE IF count > Cardinality(s) THEN Cardinality(s) ELSE count
        After(x) == IF x = {} THEN db
                    ELSE bump(setRem(db, K(c), x), K(c), Cardinality(x) - 1)
        Reply(x) == IF c.m = 1 THEN Array(x)
                    ELSE IF x = {} THEN Null ELSE Bulk(CHOOSE v \in x : TRUE)
    IN  IF c.m = 2 THEN One(db, BadInt)
        ELSE OnSet(db, K(c), IF c.m = 1 THEN Array({}) ELSE Null,
            {[db |-> After(x), reply |-> Reply(x)] : x \in kSubset(size, s)})

\* SRANDMEMBER: a negative count may repeat members; an empty set panics unless
\* a count of 0 or more is given.
cbSrandmember(c, db) ==
    LET s     == setAt(db, K(c))
        count == IF c.n > Cardinality(s) THEN Cardinality(s) ELSE c.n
        Replies ==
            IF c.m # 1 THEN {Bulk(v) : v \in s}
            ELSE IF c.n < 0
                 THEN {Array(x) : x \in {y \in SUBSET s : y # {} /\ Cardinality(y) <= -c.n}}
            ELSE {Array(x) : x \in kSubset(count, s)}
    IN  OnSet(db, K(c), Null,
            IF s = {} /\ (c.m # 1 \/ c.n < 0) THEN One(db, Panicked)
            ELSE {[db |-> db, reply |-> r] : r \in Replies})

SetOp(c) == CASE c.op \in {"SDIFF", "SDIFFSTORE"}   -> "diff"
              [] c.op \in {"SINTER", "SINTERSTORE"} -> "inter"
              [] OTHER                              -> "union"

cbSetRead(c, db) ==
    IF wrongType(db, SetOp(c), c.keys) THEN One(db, WrongType)
    ELSE One(db, Array(combine(db, SetOp(c), c.keys)))

\* Seeded fault: the old value of the destination is not deleted.
cbSetStoreOver(c, db) ==
    LET s == combine(db, SetOp(c), Tail(c.keys)) IN
    IF wrongType(db, SetOp(c), Tail(c.keys)) THEN One(db, WrongType)
    ELSE One(setSet(db, K(c), s), IntReply(Cardinality(s)))

\* keys: the destination, then the operands.
cbSetStore(c, db) ==
    LET s == combine(db, SetOp(c), Tail(c.keys)) IN
    IF wrongType(db, SetOp(c), Tail(c.keys)) THEN One(db, WrongType)
    ELSE One(setSet(del(db, K(c)), K(c), s), IntReply(Cardinality(s)))

\* SSCAN (n: the cursor, vals: the members the pattern matches): every member in
\* one answer, none for another cursor; the pattern is compiled last.
cbSscan(c, db) ==
    IF c.n # 0 THEN One(db, Array({}))
    ELSE IF notSet(db, K(c)) THEN One(db, WrongType)
    ELSE One(db, IF badPattern(c) THEN Panicked ELSE Array(setAt(db, K(c)) \cap vset(c)))
-----------------------------------------------------------------------------
(***************************************************************************)
(* Keys and databases.                                                      *)
(***************************************************************************)
cbDel(c, db) ==
    One(delAll(db, ToSet(c.keys)), IntReply(Cardinality(allKeys(db) \cap ToSet(c.keys))))

cbType(c, db) == One(db, Bulk(IF exists(db, K(c)) THEN t(db, K(c)) ELSE "none"))

cbExists(c, db) ==
    One(db, IntReply(Cardinality({i \in DOMAIN c.keys : exists(db, c.keys[i])})))

\* Seeded fault: the source is not checked.
cbRenameUnchecked(c, db) ==
    IF c.op = "RENAMENX" /\ exists(db, c.keys[2]) THEN One(db, IntReply(0))
    ELSE IF renamePanics(db, c.keys[1], c.keys[2]) THEN One(db, Panicked)
    ELSE One(rename(db, c.keys[1], c.keys[2]), OK)

cbRename(c, db) ==
    LET from == c.keys[1]
        to   == c.keys[2]
    IN  IF ~exists(db, from) THEN One(db, NoSuchKey)
        ELSE IF c.op = "RENAMENX" /\ exists(db, to) THEN One(db, IntReply(0))
        ELSE IF renamePanics(db, from, to) THEN One(db, Panicked)
        ELSE One(rename(db, from, to), IF c.op = "RENAMENX" THEN IntReply(1) ELSE OK)

\* KEYS and SCAN (n: the cursor) list the keys the pattern matches; RANDOMKEY draws one.
cbKeys(c, db) ==
    One(db, IF badPattern(c) THEN Panicked ELSE Array(allKeys(db) \cap ToSet(c.keys)))
cbScan(c, db) ==
    IF c.n # 0 THEN One(db, Array({})) ELSE cbKeys(c, db)
cbRandomkey(c, db) ==
    IF allKeys(db) = {} THEN One(db, Null)
    ELSE {[db |-> db, reply |-> Bulk(k)] : k \in allKeys(db)}
cbDbsize(c, db)  == One(db, IntReply(Cardinality(allKeys(db))))
cbFlushdb(c, db) == One(flush(db), OK)

\* MOVE and FLUSHALL reach beyond the selected database.
cbMove(c, sel, dbs) ==
    IF sel = c.n THEN {[dbs |-> dbs, reply |-> <<"error", "same">>]}
    ELSE IF ~moves(dbs[sel], K(c), dbs[c.n]) THEN {[dbs |-> dbs, reply |-> IntReply(0)]}
    ELSE {[dbs   |-> [dbs EXCEPT ![c.n] = received(dbs[sel], K(c), dbs[c.n]),
                                 ![sel] = del(@, K(c))],
           reply |-> IntReply(1)]}

flushAll(dbs) == [d \in DB |-> flush(dbs[d])]

\* UNWATCH leaves nothing to do to its callback.
Callback(c, db) ==
    CASE c.op \in {"LPOP", "RPOP"}             -> cbXpop(c, db)
      [] c.op \in {"BLPOP", "BRPOP"}           -> cbBXpop(c, db)
      [] c.op \in {"LPUSH", "RPUSH"}           -> cbXpush(c, db)
      [] c.op \in {"LPUSHX", "RPUSHX"}         -> cbXpushx(c, db)
      [] c.op \in {"RPOPLPUSH", "BRPOPLPUSH"}  -> cbRpoplpush(c, db)
      [] c.op = "LINDEX"      -> cbLindex(c, db)
      [] c.op = "LINSERT"     -> cbLinsert(c, db)
      [] c.op = "LLEN"        -> cbLlen(c, db)
      [] c.op = "LRANGE"      -> cbLrange(c, db)
      [] c.op = "LREM"        -> cbLrem(c, db)
      [] c.op = "LTRIM"       -> cbLtrim(c, db)
      [] c.op = "LSET"        -> cbLset(c, db)
      [] c.op = "SADD"        -> cbSadd(c, db)
      [] c.op = "SREM"        -> cbSrem(c, db)
      [] c.op = "SCARD"       -> cbScard(c, db)
      [] c.op = "SISMEMBER"   -> cbSismember(c, db)
      [] c.op = "SMEMBERS"    -> cbSmembers(c, db)
      [] c.op = "SMOVE"       -> cbSmove(c, db)
      [] c.op = "SPOP"        -> cbSpop(c, db)
      [] c.op = "SRANDMEMBER" -> cbSrandmember(c, db)
      [] c.op \in {"SDIFF", "SINTER", "SUNION"} -> cbSetRead(c, db)
      [] c.op \in {"SDIFFSTORE", "SINTERSTORE", "SUNIONSTORE"} -> cbSetStore(c, db)
      [] c.op = "SSCAN"       -> cbSscan(c, db)
      [] c.op = "DEL"         -> cbDel(c, db)
      [] c.op = "TYPE"        -> cbType(c, db)
      [] c.op = "EXISTS"      -> cbExists(c, db)
      [] c.op \in {"RENAME", "RENAMENX"} -> cbRename(c, db)
      [] c.op = "KEYS"        -> cbKeys(c, db)
      [] c.op = "SCAN"        -> cbScan(c, db)
      [] c.op = "RANDOMKEY"   -> cbRandomkey(c, db)
      [] c.op = "DBSIZE"      -> cbDbsize(c, db)
      [] c.op = "FLUSHDB"     -> cbFlushdb(c, db)
      [] OTHER                -> One(db, OK)

\* Seeded fault: the callback works on database 0.
OutcomesOnZero(c, sel, dbs) ==
    CASE c.op = "MOVE"     -> cbMove(c, sel, dbs)
      [] c.op = "FLUSHALL" -> {[dbs |-> flushAll(dbs), reply |-> OK]}
      [] OTHER -> {[dbs |-> [dbs EXCEPT ![0] = o.db], reply |-> o.reply] :
                   o \in Callback(c, dbs[0])}

\* What command c can do to the databases when database sel is selected.
Outcomes(c, sel, dbs) ==
    CASE c.op = "MOVE"     -> cbMove(c, sel, dbs)
      [] c.op = "FLUSHALL" -> {[dbs |-> flushAll(dbs), reply |-> OK]}
      [] OTHER -> {[dbs |-> [dbs EXCEPT ![sel] = o.db], reply |-> o.reply] :
                   o \in Callback(c, dbs[sel])}
=============================================================================
