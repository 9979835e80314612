------------------------------- MODULE Keyspace -------------------------------
(***************************************************************************)
(* One command or direct method on any keyspace the server can have: the    *)
(* databases before, the command, its answer and the databases after.  The  *)
(* mutex makes every callback and method atomic (see Blocking), so a        *)
(* property of all single steps from all well-formed databases is a         *)
(* property of every run of the server.                                     *)
(***************************************************************************)
EXTENDS Direct

CONSTANTS Command,   \* the commands the clients send, the methods the program calls
          Start      \* the databases before the command

ASSUME CommandAssumption ==
    /\ Command \subseteq Commands
    /\ Start \subseteq [DB -> RedisDB]
    /\ \A ds \in Start, d \in DB : Agree(ds[d])
    /\ \A ds \in Start, d \in DB, k \in Key :     \* the length of a slice is an int
          Len(listAt(ds[d], k)) <= MaxInt

VARIABLES dbs,    \* m.dbs
          last    \* history: the command, its database, its answer, dbs before it

vars == <<dbs, last>>

NoneYet == <<>>    \* no command has run

Init == dbs \in Start /\ last = NoneYet

Possible(c, sel, ds) ==
    IF c.op \in DirectMethods THEN MethodOutcomes(c, sel, ds) ELSE Outcomes(c, sel, ds)

Execute(c, sel) ==
    /\ last = NoneYet
    /\ \E o \in Possible(c, sel, dbs) :
          /\ dbs' = o.dbs
          /\ last' = [cmd |-> c, sel |-> sel, reply |-> o.reply, pre |-> dbs]

Next == \E c \in Command, sel \in DB : Execute(c, sel)

Spec == Init /\ [][Next]_vars
-----------------------------------------------------------------------------
Ran(ops)     == last # NoneYet /\ last.cmd.op \in ops
FlushOps     == {"FLUSHALL", "FLUSHDB", "FlushAll", "FlushDB"}

\* The three maps of a database agree: a key is in listKeys exactly when keys
\* says "list", in setKeys exactly when it says "set".  No path of rename, move,
\* *STORE or the deletion of an emptied value leaves an entry behind.
MapsAgree ==
    \A d \in DB : Agree(dbs[d])

EmptyLists(ds) == {p \in DB \X Key : ds[p[1]].listKeys[p[2]] = <<>>}

\* No command leaves a new empty list behind, on which the next LPOP would index
\* out of range; only the direct Push without values makes one.
NoNewEmptyList ==
    last # NoneYet /\ ~(Ran({"Push"}) /\ last.cmd.vals = <<>>) =>
        Cardinality(EmptyLists(dbs)) <= Cardinality(EmptyLists(last.pre))

\* WATCH can rely on the versions: a version never goes back, and it grows
\* whenever the value of its key changes, except by a flush.
VersionTellsChange ==
    last # NoneYet =>
        \A d \in DB, k \in Key :
            /\ dbs[d].keyVersion[k] >= last.pre[d].keyVersion[k]
            /\ value(dbs[d], k) # value(last.pre[d], k) /\ ~Ran(FlushOps)
                  => dbs[d].keyVersion[k] > last.pre[d].keyVersion[k]

\* A command that answers an error has no effect: no callback stops halfway.
ErrorsChangeNothing ==
    last # NoneYet /\ last.reply[1] = "error" => dbs = last.pre

\* Where v is under k: the positions in the list, 0 in the set.
PlacesAt(v, db, k) ==
    {i \in DOMAIN listAt(db, k) : listAt(db, k)[i] = v} \cup {i \in {0} : v \in setAt(db, k)}

Places(v, ds) ==
    UNION {{<<d, k, i>> : i \in PlacesAt(v, ds[d], k)} : d \in DB, k \in Key}

\* How often v occurs in all lists and sets.
Occurs(v, ds) == Cardinality(Places(v, ds))

PopOps == {"LPOP", "RPOP", "BLPOP", "BRPOP", "SPOP", "Lpop", "Pop"}

\* The values a pop hands to its client.
Returned ==
    IF ~Ran(PopOps) \/ last.reply[1] \notin {"bulk", "array"} THEN {}
    ELSE IF Ran({"BLPOP", "BRPOP"}) THEN {last.reply[2][2]}
    ELSE IF last.reply[1] = "array" THEN last.reply[2]
    ELSE {last.reply[2]}

\* Moving conserves the elements: RPOPLPUSH (of a list to itself too), RENAMENX
\* and MOVE lose and duplicate nothing, and a pop removes what it answers.
Conserved ==
    Ran(PopOps \cup {"RPOPLPUSH", "BRPOPLPUSH", "RENAMENX", "MOVE"}) =>
        \A v \in Val : Occurs(v, last.pre) = Occurs(v, dbs) + Cardinality(Returned \cap {v})

\* A command touches only the keys it names, in the selected database (MOVE: in
\* the target too), unless it flushes; the versions of the others stay as well.
TouchesOnlyItsKeys ==
    last # NoneYet /\ ~Ran(FlushOps) =>
        \A d \in DB, k \in Key :
            \/ value(dbs[d], k) = value(last.pre[d], k)
               /\ dbs[d].keyVersion[k] = last.pre[d].keyVersion[k]
            \/ k \in ToSet(last.cmd.keys)
               /\ (d = last.sel \/ (Ran({"MOVE"}) /\ d = last.cmd.n))

\* A command crashes the server in four cases only: a RENAME of a key to itself, an
\* SRANDMEMBER of a set that was left empty (by SDIFFSTORE, SINTERSTORE, SUNIONSTORE
\* or a SetAdd without members), a pop of a list that was left empty, and a KEYS, or a
\* SCAN or SSCAN from the cursor 0, with a pattern the regexp compiler refuses.
PanicsOnlyWhen ==
    last # NoneYet /\ last.reply = Panicked =>
        \/ Ran({"RENAME"}) /\ last.cmd.keys[1] = last.cmd.keys[2]
        \/ Ran({"SRANDMEMBER"}) /\ last.pre[last.sel].setKeys[K(last.cmd)] = {}
        \/ /\ Ran({"LPOP", "RPOP", "RPOPLPUSH", "Lpop", "Pop"})
           /\ last.pre[last.sel].listKeys[K(last.cmd)] = <<>>
        \/ /\ Ran({"KEYS", "SCAN", "SSCAN"}) /\ badPattern(last.cmd)
           /\ Ran({"SCAN", "SSCAN"}) => last.cmd.n = 0

\* The command a direct method stands for, with the arguments the method takes: one
\* key, and one value in Lpush; List is the whole range, Keys the pattern *.  A Push, a
\* SetAdd or an SRem without values has none: the handlers refuse such a request.
Twin(c) ==
    LET op == CASE c.op = "List"   -> "LRANGE"    [] c.op = "Lpush"    -> "LPUSH"
                [] c.op = "Push"   -> "RPUSH"     [] c.op = "Lpop"     -> "LPOP"
                [] c.op = "Pop"    -> "RPOP"      [] c.op = "SetAdd"   -> "SADD"
                [] c.op = "SRem"   -> "SREM"      [] c.op = "Members"  -> "SMEMBERS"
                [] c.op = "Del"    -> "DEL"       [] c.op = "IsMember" -> "SISMEMBER"
                [] c.op = "Type"   -> "TYPE"      [] c.op = "Exists"   -> "EXISTS"
                [] c.op = "Keys"   -> "KEYS"      [] c.op = "FlushDB"  -> "FLUSHDB"
                [] c.op = "FlushAll" -> "FLUSHALL"
    IN  [op   |-> op,
         keys |-> IF c.op = "Keys" THEN SetToSeq(Key) ELSE <<K(c)>>,
         vals |-> IF c.op = "Lpush" THEN <<V(c)>> ELSE c.vals,
         n    |-> 0,
         m    |-> -1]

\* A direct method and the command it stands for ("Is called RPUSH in redis") leave
\* the same values and answer the same, except about a key that does not exist.
DirectLikeCommand ==
    Ran(DirectMethods) /\ (Ran({"Push", "SetAdd", "SRem"}) => last.cmd.vals # <<>>) =>
        \E o \in Outcomes(Twin(last.cmd), last.sel, last.pre) :
            /\ \A d \in DB, k \in Key : value(o.dbs[d], k) = value(dbs[d], k)
            /\ \/ o.reply = last.reply
               \/ last.cmd.op \notin Keyless /\ ~exists(last.pre[last.sel], K(last.cmd))
-----------------------------------------------------------------------------
(***************************************************************************)
(* Reference definitions for the list algorithms.                           *)
(***************************************************************************)
\* The positions of l (from 1) that Redis counts into the range start..end.
InRange(l, start, end, i) ==
    /\ (IF start < 0 THEN Len(l) + start ELSE start) <= i - 1
    /\ i - 1 <= (IF end < 0 THEN Len(l) + end ELSE end)

\* The elements of l at the positions of the set S, in the order of l.
Nth(S, j)  == CHOOSE i \in {x \in S : Cardinality({y \in S : y <= x}) = j} : TRUE
Pick(l, S) == [j \in 1..Cardinality(S) |-> l[Nth(S, j)]]

RangeOf(l, start, end) == Pick(l, {i \in DOMAIN l : InRange(l, start, end, i)})

\* LREM deletes an occurrence of v when at most n of them lie on its side; for the
\* smallest int, whose negation is itself, it deletes nothing.
Rank(l, n, v, i) == Cardinality({j \in (IF n < 0 THEN i..Len(l) ELSE 1..i) : l[j] = v})
Spared(l, n, v)  ==
    {i \in DOMAIN l : l[i] # v \/ (n # 0 /\ Rank(l, n, v, i) > (IF n < 0 THEN -n ELSE n))}
Without(l, n, v) == IF n = MinInt THEN l ELSE Pick(l, Spared(l, n, v))

Before == listAt(last.pre[last.sel], K(last.cmd))
After  == listAt(dbs[last.sel], K(last.cmd))

RanOnList(ops) == Ran(ops) /\ t(last.pre[last.sel], K(last.cmd)) = "list"

\* LTRIM keeps and LRANGE answers the elements whose positions are in the range,
\* both ends included, for every pair of ints, with one exception: the largest int
\* as the end, which the code's end++ wraps around, selects nothing.
RangeExact ==
    LET picked == IF last.cmd.m = MaxInt THEN <<>>
                  ELSE RangeOf(Before, last.cmd.n, last.cmd.m)
    IN  /\ RanOnList({"LRANGE"}) => last.reply = Array(picked)
        /\ RanOnList({"LTRIM"})  => After = picked

\* The editing commands change exactly the positions they name.  LREM deletes the
\* first n, the last -n or all occurrences, nothing when the negation of the count
\* overflows, keeps the order of the others and answers how many it deleted.  Removing the element LINSERT inserted gives the old list back, with the
\* pivot next to it and no pivot further left.  LSET changes the one element LINDEX
\* answers, and refuses exactly the indexes outside the list.
EditsExact ==
    /\ RanOnList({"LREM"}) =>
          /\ After = Without(Before, last.cmd.n, V(last.cmd))
          /\ last.reply = IntReply(Len(Before) - Len(After))
    /\ RanOnList({"LINSERT"}) /\ After # Before =>
          \E i \in DOMAIN After :
              LET p == IF last.cmd.n < 0 THEN i + 1 ELSE i - 1 IN
              /\ RemoveAt(After, i) = Before
              /\ After[i] = last.cmd.vals[2]
              /\ p \in DOMAIN After /\ After[p] = last.cmd.vals[1]
              /\ \A j \in 1..(p - 1) : j # i => After[j] # last.cmd.vals[1]
    /\ RanOnList({"LINSERT"}) => (After = Before <=> last.cmd.vals[1] \notin ToSet(Before))
    /\ RanOnList({"LSET"}) /\ last.reply = OK =>
          /\ Len(After) = Len(Before)
          /\ cbLindex(last.cmd, dbs[last.sel]) = One(dbs[last.sel], Bulk(V(last.cmd)))
          /\ Cardinality({i \in DOMAIN After : After[i] # Before[i]}) <= 1
    /\ RanOnList({"LSET"}) =>
          (last.reply = OK <=> last.cmd.n \in (-Len(Before))..(Len(Before) - 1))
=============================================================================
