---------------------------- MODULE KeyspaceProofs ----------------------------
(***************************************************************************)
(* Proofs about Keyspace, for every set of keys, values and databases, and  *)
(* every command with every argument: the commands keep the maps of the     *)
(* databases in agreement, touch only the keys they name, under new         *)
(* versions, change nothing when they answer an error, and panic only in    *)
(* three known cases.  They leave no new empty list, they move elements     *)
(* without losing one, LRANGE, LTRIM, LREM, LINSERT and LSET are what their *)
(* references say, and the methods of the direct API do what the commands   *)
(* do.                                                                      *)
(*                                                                          *)
(* The first group of theorems reads the promise every callback keeps       *)
(* (CommandsProofs) off the history.  The others need more than a promise:  *)
(* what a callback makes of the entry of each of its keys, which is shown   *)
(* command by command, and the counts that follow from it by bijections.    *)
(***************************************************************************)
EXTENDS Keyspace, CommandsProofs

\* The history is true: the last command ran on databases of Start, and what it left
\* and answered is one of its outcomes.
History ==
    last # NoneYet =>
        /\ last.cmd \in Commands /\ last.sel \in DB /\ last.pre \in Start
        /\ [dbs |-> dbs, reply |-> last.reply] \in Possible(last.cmd, last.sel, last.pre)

\* What the history says of the last command.
Explained ==
    last # NoneYet =>
        /\ last.cmd \in Commands /\ last.sel \in DB /\ Sound(last.pre)
        /\ Kept(last.cmd, last.sel, last.pre, [dbs |-> dbs, reply |-> last.reply])

IInv == /\ last = NoneYet => dbs \in Start
        /\ Sound(dbs) /\ History /\ Explained

\* An outcome is a record of the databases and the answer.
LEMMA OutcomeRecord ==
    ASSUME NEW c, NEW sel, NEW ds, NEW o \in Possible(c, sel, ds)
    PROVE  o = [dbs |-> o.dbs, reply |-> o.reply]
<1>1. \E x, r : o = [dbs |-> x, reply |-> r]
  <2>1. CASE c.op \in DirectMethods
    BY <2>1 DEF Possible, MethodOutcomes
  <2>2. CASE c.op \notin DirectMethods /\ c.op = "MOVE"
    BY <2>2 DEF Possible, Outcomes, cbMove
  <2>3. CASE c.op \notin DirectMethods /\ c.op # "MOVE"
    BY <2>3 DEF Possible, Outcomes
  <2> QED BY <2>1, <2>2, <2>3
<1> QED BY <1>1

\* A command or method, on sound databases.
LEMMA ExecuteKeeps ==
    ASSUME IInv, NEW c \in Command, NEW sel \in DB, Execute(c, sel)
    PROVE  IInv'
<1>1. c \in Commands
  BY CommandAssumption
<1>2. PICK o \in Possible(c, sel, dbs) :
          /\ dbs' = o.dbs
          /\ last' = [cmd |-> c, sel |-> sel, reply |-> o.reply, pre |-> dbs]
  BY DEF Execute
<1>3. Kept(c, sel, dbs, o)
  <2>1. CASE c.op \in DirectMethods
    BY <1>1, <1>2, <2>1, KeptByMethods DEF IInv, Possible
  <2>2. CASE c.op \notin DirectMethods
    BY <1>1, <1>2, <2>2, KeptByCommands DEF IInv, Possible
  <2> QED BY <2>1, <2>2
<1>4. Sound(dbs)'
  <2>1. Sound(o.dbs)
    BY <1>3 DEF Kept
  <2> QED BY <1>2, <2>1 DEF Sound
<1>5. last'.cmd = c /\ last'.sel = sel /\ last'.reply = o.reply /\ last'.pre = dbs
  BY <1>2
<1>6. last' # NoneYet
  BY <1>2 DEF NoneYet
<1>7. Explained'
  <2>1. Kept(c, sel, dbs, [dbs |-> dbs', reply |-> o.reply])
    BY <1>2, <1>3 DEF Kept
  <2> QED BY <1>1, <1>5, <2>1 DEF Explained, IInv
<1>8. History'
  <2>1. o = [dbs |-> dbs', reply |-> o.reply]
    BY <1>2, OutcomeRecord
  <2>2. [dbs |-> dbs', reply |-> o.reply] \in Possible(c, sel, dbs)
    BY <1>2, <2>1
  <2>3. dbs \in Start
    BY DEF Execute, IInv
  <2> QED BY <1>1, <1>5, <2>2, <2>3 DEF History
<1> QED BY <1>4, <1>6, <1>7, <1>8 DEF IInv

\* The invariant: the databases are sound, and the last command did what it may.
THEOREM Invariance == Spec => []IInv
<1>1. Init => IInv
  BY CommandAssumption DEF Init, IInv, Sound, Explained, History
<1>2. IInv /\ [Next]_vars => IInv'
  <2> SUFFICES ASSUME IInv, [Next]_vars PROVE IInv'
    OBVIOUS
  <2>1. ASSUME NEW c \in Command, NEW sel \in DB, Execute(c, sel) PROVE IInv'
    BY <2>1, ExecuteKeeps
  <2>2. CASE UNCHANGED vars
    BY <2>2 DEF vars, IInv, Sound, Explained, Kept, History
  <2> QED BY <2>1, <2>2 DEF Next
<1> QED BY <1>1, <1>2, PTL DEF Spec

\* The three maps of every database agree after every command.
THEOREM MapsAlwaysAgree == Spec => []MapsAgree
<1>1. IInv => MapsAgree
  BY DEF IInv, Sound, MapsAgree
<1> QED BY <1>1, Invariance, PTL

\* A key that is touched gets a new version; one that is not keeps its value and version.
LEMMA TouchedOrSame ==
    ASSUME NEW db \in RedisDB, NEW e, NEW S, Touches(db, e, S), NEW k \in Key
    PROVE  /\ e.keyVersion[k] >= db.keyVersion[k]
           /\ \/ value(e, k) = value(db, k) /\ e.keyVersion[k] = db.keyVersion[k]
              \/ k \in S /\ e.keyVersion[k] > db.keyVersion[k]
<1>1. db.keyVersion[k] \in Nat /\ e.keyVersion[k] \in Nat
  BY DbEntries DEF Touches
<1>2. Same(db, e, k) \/ (k \in S /\ e.keyVersion[k] > db.keyVersion[k])
  BY DEF Touches
<1>3. Same(db, e, k) => value(e, k) = value(db, k) /\ e.keyVersion[k] = db.keyVersion[k]
  BY DEF Same, value, t, listAt, setAt
<1> QED BY <1>1, <1>2, <1>3

\* A version never goes back, and it grows whenever the value of its key changes.
THEOREM VersionsTellChanges == Spec => []VersionTellsChange
<1>1. IInv => VersionTellsChange
  <2> SUFFICES ASSUME IInv, last # NoneYet, NEW d \in DB, NEW k \in Key
               PROVE  /\ dbs[d].keyVersion[k] >= last.pre[d].keyVersion[k]
                      /\ value(dbs[d], k) # value(last.pre[d], k) /\ ~Ran(FlushOps)
                            => dbs[d].keyVersion[k] > last.pre[d].keyVersion[k]
    BY DEF VersionTellsChange
  <2>1. Kept(last.cmd, last.sel, last.pre, [dbs |-> dbs, reply |-> last.reply])
    BY DEF IInv, Explained
  <2>2. last.pre[d] \in RedisDB
    BY DEF IInv, Explained, Sound
  <2>3. Ran(FlushOps) <=> last.cmd.op \in Flushing
    BY DEF Ran, FlushOps, Flushing
  <2>4. CASE last.cmd.op \in Flushing
    <3>1. dbs[d] = last.pre[d] \/ Wiped(last.pre[d], dbs[d])
      BY <2>1, <2>4 DEF Kept
    <3>2. dbs[d].keyVersion[k] = last.pre[d].keyVersion[k] /\ last.pre[d].keyVersion[k] \in Nat
      BY <2>2, <3>1, DbEntries DEF Wiped
    <3> QED BY <2>3, <2>4, <3>2
  <2>5. CASE last.cmd.op \notin Flushing
    <3>1. \E S : Touches(last.pre[d], dbs[d], S)
      BY <2>1, <2>5 DEF Kept
    <3> QED BY <2>2, <3>1, TouchedOrSame
  <2> QED BY <2>4, <2>5
<1> QED BY <1>1, Invariance, PTL

\* A command touches only the keys it names, where it may.
THEOREM OnlyItsKeys == Spec => []TouchesOnlyItsKeys
<1>1. IInv => TouchesOnlyItsKeys
  <2> SUFFICES ASSUME IInv, last # NoneYet, ~Ran(FlushOps), NEW d \in DB, NEW k \in Key
               PROVE  \/ value(dbs[d], k) = value(last.pre[d], k)
                         /\ dbs[d].keyVersion[k] = last.pre[d].keyVersion[k]
                      \/ k \in ToSet(last.cmd.keys)
                         /\ (d = last.sel \/ (Ran({"MOVE"}) /\ d = last.cmd.n))
    BY DEF TouchesOnlyItsKeys
  <2>1. Kept(last.cmd, last.sel, last.pre, [dbs |-> dbs, reply |-> last.reply])
    BY DEF IInv, Explained
  <2>2. last.pre[d] \in RedisDB
    BY DEF IInv, Explained, Sound
  <2>3. last.cmd.op \notin Flushing
    BY DEF Ran, FlushOps, Flushing
  <2> DEFINE S == IF d \in Reach(last.cmd, last.sel) THEN ToSet(last.cmd.keys) ELSE {}
  <2>4. Touches(last.pre[d], dbs[d], S)
    BY <2>1, <2>3 DEF Kept
  <2>5. k \in S => /\ k \in ToSet(last.cmd.keys)
                   /\ d = last.sel \/ (Ran({"MOVE"}) /\ d = last.cmd.n)
    BY DEF Reach, Ran
  <2> HIDE DEF S
  <2> QED BY <2>2, <2>4, <2>5, TouchedOrSame
<1> QED BY <1>1, Invariance, PTL

\* A command that answers an error has changed nothing.
THEOREM ErrorsAreClean == Spec => []ErrorsChangeNothing
<1>1. IInv => ErrorsChangeNothing
  BY DEF IInv, Explained, Kept, ErrorsChangeNothing
<1> QED BY <1>1, Invariance, PTL

\* A command panics in the four cases of PanicsOnlyWhen only.
THEOREM KnownPanics == Spec => []PanicsOnlyWhen
<1>1. IInv => PanicsOnlyWhen
  BY DEF IInv, Explained, Kept, PanicsOnlyWhen, MayPanic, Ran
<1> QED BY <1>1, Invariance, PTL
-----------------------------------------------------------------------------
(* What the operators of Db leave under their key. *)

\* One key gets new entries, under some version.
Becomes(db, e, k, a, l, s) == \E v \in Nat : Puts(db, e, k, a, l, s, v)

\* One key gets a list, or none when it is empty.
Leaves(db, e, k, l) ==
    IF l = <<>> THEN Becomes(db, e, k, Untyped, Nil, Nil) ELSE Becomes(db, e, k, "list", l, Nil)

\* One key gets a set, or none when it is empty.
LeavesSet(db, e, k, s) ==
    IF s = {} THEN Becomes(db, e, k, Untyped, Nil, Nil) ELSE Becomes(db, e, k, "set", Nil, s)

\* The new entries, and those of the other keys.
LEMMA BecomesEntries ==
    ASSUME NEW db \in RedisDB, NEW e, NEW k \in Key, NEW a, NEW l, NEW s,
           Becomes(db, e, k, a, l, s)
    PROVE  /\ e \in RedisDB
           /\ e.keys[k] = a /\ e.listKeys[k] = l /\ e.setKeys[k] = s
           /\ \A j \in Key \ {k} : Same(db, e, j)
<1>1. PICK v \in Nat : Puts(db, e, k, a, l, s, v)
  BY DEF Becomes
<1>2. /\ e.keys[k] = a /\ e.listKeys[k] = l /\ e.setKeys[k] = s
      /\ \A j \in Key \ {k} : Same(db, e, j)
  BY <1>1, PutEntries
<1> QED BY <1>1, <1>2 DEF Puts

\* Bumping the version changes no entry.
LEMMA BumpBecomes ==
    ASSUME NEW db \in RedisDB, NEW d, NEW k \in Key, NEW a, NEW l, NEW s, NEW n \in Nat,
           Becomes(db, d, k, a, l, s)
    PROVE  Becomes(db, bump(d, k, n), k, a, l, s)
<1>1. PICK v \in Nat : Puts(db, d, k, a, l, s, v)
  BY DEF Becomes
<1>2. Puts(db, bump(d, k, n), k, a, l, s, v + n) /\ v + n \in Nat
  BY <1>1, PutBump
<1> QED BY <1>2 DEF Becomes

\* del.
LEMMA DelBecomes ==
    ASSUME NEW db \in RedisDB, Agree(db), NEW k \in Key
    PROVE  Becomes(db, del(db, k), k, Untyped, Nil, Nil)
<1>1. CASE exists(db, k)
  <2> DEFINE v == db.keyVersion[k] + 1
  <2>1. Puts(db, del(db, k), k, Untyped, Nil, Nil, v) /\ v \in Nat
    BY <1>1, DelPuts, DbEntries
  <2> HIDE DEF v
  <2> QED BY <2>1 DEF Becomes
<1>2. CASE ~exists(db, k)
  <2>1. Puts(db, db, k, Untyped, Nil, Nil, db.keyVersion[k])
    <3>1. db.keys[k] = Untyped /\ db.listKeys[k] = Nil /\ db.setKeys[k] = Nil
      BY <1>2, NoEntries
    <3>2. /\ db.keys = [db.keys EXCEPT ![k] = Untyped]
          /\ db.listKeys = [db.listKeys EXCEPT ![k] = Nil]
          /\ db.setKeys = [db.setKeys EXCEPT ![k] = Nil]
          /\ db.keyVersion = [db.keyVersion EXCEPT ![k] = db.keyVersion[k]]
      BY <3>1, DbMaps
    <3> QED BY <3>2 DEF Puts
  <2>2. del(db, k) = db /\ db.keyVersion[k] \in Nat
    BY <1>2, DbEntries DEF del
  <2> QED BY <2>1, <2>2 DEF Becomes
<1> QED BY <1>1, <1>2

\* A list that replaces a list.
LEMMA RelistBecomes ==
    ASSUME NEW db \in RedisDB, Agree(db), NEW k \in Key, NEW l \in Seq(Val), t(db, k) = "list"
    PROVE  Becomes(db, bump([db EXCEPT !.listKeys[k] = l], k, 1), k, "list", l, Nil)
<1> DEFINE d == [db EXCEPT !.listKeys[k] = l]
<1>1. Puts(db, d, k, db.keys[k], l, db.setKeys[k], db.keyVersion[k])
  BY PutOne, NotNil
<1>2. db.keys[k] = "list" /\ db.setKeys[k] = Nil /\ db.keyVersion[k] \in Nat
  BY DbEntries DEF Agree, t
<1>3. Becomes(db, d, k, "list", l, Nil)
  BY <1>1, <1>2 DEF Becomes
<1> HIDE DEF d
<1>4. Becomes(db, bump(d, k, 1), k, "list", l, Nil)
  BY <1>3, BumpBecomes
<1> QED BY <1>4 DEF d

\* putList.
LEMMA PutListBecomes ==
    ASSUME NEW db \in RedisDB, Agree(db), NEW k \in Key, NEW l \in Seq(Val),
           ~exists(db, k) \/ t(db, k) = "list"
    PROVE  Becomes(db, putList(db, k, l), k, "list", l, Nil)
<1> DEFINE v == db.keyVersion[k] + 1
<1>1. db.setKeys[k] = Nil /\ (IF db.listKeys[k] = Nil THEN "list" ELSE db.keys[k]) = "list"
  BY DbMaps, UntypedApart DEF Agree, exists, t
<1>2. putList(db, k, l) = [db EXCEPT !.keys[k] = "list", !.listKeys[k] = l, !.keyVersion[k] = v]
  BY <1>1 DEF putList
<1>3. l \in ListEntry /\ "list" \in Types /\ v \in Nat
  BY NotNil, DbEntries DEF Types
<1> HIDE DEF v
<1>4. Puts(db, putList(db, k, l), k, "list", l, Nil, v)
  BY <1>1, <1>2, <1>3, PutList
<1> QED BY <1>3, <1>4 DEF Becomes

\* LREM and LTRIM, and both pops: an emptied list is deleted.
LEMMA KeepLeaves ==
    ASSUME NEW db \in RedisDB, Agree(db), NEW k \in Key, NEW l \in Seq(Val), t(db, k) = "list"
    PROVE  Leaves(db, keep(db, k, l), k, l)
BY DelBecomes, RelistBecomes DEF keep, Leaves

\* What the pops leave.
LEMMA PopLeaves ==
    ASSUME NEW db \in RedisDB, Agree(db), NEW k \in Key, t(db, k) = "list",
           listAt(db, k) # <<>>
    PROVE  /\ Leaves(db, listLpop(db, k), k, Tail(listAt(db, k)))
           /\ Leaves(db, listPop(db, k), k, SubSeq(listAt(db, k), 1, Len(listAt(db, k)) - 1))
<1> DEFINE l == Tail(listAt(db, k))
           r == SubSeq(listAt(db, k), 1, Len(listAt(db, k)) - 1)
           d == del(db, k)
<1>1. l \in Seq(Val) /\ r \in Seq(Val)
  BY ListAtType, PopRest
<1>2. Becomes(db, d, k, Untyped, Nil, Nil)
  BY DelBecomes
<1>3. Becomes(db, bump(d, k, 1), k, Untyped, Nil, Nil)
  <2> HIDE DEF d
  <2> QED BY <1>2, BumpBecomes
<1>4. listLpop(db, k) = IF l = <<>> THEN bump(d, k, 1)
                        ELSE bump([db EXCEPT !.listKeys[k] = l], k, 1)
  BY DEF listLpop
<1>5. listPop(db, k) = keep(db, k, r)
  BY DEF listPop, keep
<1>6. Leaves(db, listPop(db, k), k, r)
  BY <1>1, <1>5, KeepLeaves
<1>7. Leaves(db, listLpop(db, k), k, l)
  <2> HIDE DEF l, d
  <2> QED BY <1>1, <1>3, <1>4, RelistBecomes DEF Leaves
<1> QED BY <1>6, <1>7

\* setSet and setAdd.
LEMMA SetBecomes ==
    ASSUME NEW db \in RedisDB, Agree(db), NEW k \in Key, NEW s \in SUBSET Val, ~notSet(db, k)
    PROVE  /\ Becomes(db, setSet(db, k, s), k, "set", Nil, s)
           /\ Becomes(db, setAdd(db, k, s), k, "set", Nil, setAt(db, k) \cup s)
<1> DEFINE v == db.keyVersion[k] + 1
           u == setAt(db, k) \cup s
<1>1. /\ db.listKeys[k] = Nil
      /\ (IF db.setKeys[k] = Nil THEN "set" ELSE db.keys[k]) = "set"
  BY DbMaps, NotNil, UntypedApart DEF notSet, Agree, exists, t
<1>2. s \in SetEntry /\ u \in SetEntry /\ "set" \in Types /\ v \in Nat
  BY NotNil, ListAtType, DbEntries DEF Types
<1>3. /\ setSet(db, k, s) = [db EXCEPT !.keys[k] = "set", !.setKeys[k] = s, !.keyVersion[k] = v]
      /\ setAdd(db, k, s) = [db EXCEPT !.keys[k] = "set", !.setKeys[k] = u, !.keyVersion[k] = v]
  BY <1>1 DEF setSet, setAdd
<1> HIDE DEF u, v
<1>4. /\ Puts(db, setSet(db, k, s), k, "set", Nil, s, v)
      /\ Puts(db, setAdd(db, k, s), k, "set", Nil, u, v)
  BY <1>1, <1>2, <1>3, PutSet
<1>5. Becomes(db, setSet(db, k, s), k, "set", Nil, s) /\ Becomes(db, setAdd(db, k, s), k, "set", Nil, u)
  BY <1>2, <1>4 DEF Becomes
<1> QED BY <1>5 DEF u

\* setRem.
LEMMA SetRemLeaves ==
    ASSUME NEW db \in RedisDB, Agree(db), NEW k \in Key, NEW es, t(db, k) = "set"
    PROVE  LeavesSet(db, setRem(db, k, es), k, setAt(db, k) \ es)
<1> DEFINE s == db.setKeys[k] \ es
           d == del(db, k)
           e == [db EXCEPT !.setKeys[k] = s]
<1>1. /\ db.setKeys[k] # Nil /\ db.setKeys[k] \in SUBSET Val /\ db.keys[k] = "set"
      /\ db.listKeys[k] = Nil /\ setAt(db, k) = db.setKeys[k] /\ db.keyVersion[k] \in Nat
  BY DbEntries, ListEntryAt DEF SetEntry, Agree, t
<1>2. setRem(db, k, es) = IF s = {} THEN bump(d, k, 1) ELSE bump(e, k, 1)
  BY <1>1 DEF setRem
<1>3. Becomes(db, bump(d, k, 1), k, Untyped, Nil, Nil)
  <2>1. Becomes(db, d, k, Untyped, Nil, Nil)
    BY DelBecomes
  <2> HIDE DEF d
  <2> QED BY <2>1, BumpBecomes
<1>4. Becomes(db, bump(e, k, 1), k, "set", Nil, s)
  <2>1. s \in SetEntry
    BY <1>1, NotNil
  <2>2. Puts(db, e, k, db.keys[k], db.listKeys[k], s, db.keyVersion[k])
    BY <2>1, PutOne
  <2>3. Becomes(db, e, k, "set", Nil, s)
    BY <1>1, <2>2 DEF Becomes
  <2> HIDE DEF e, s
  <2> QED BY <2>3, BumpBecomes
<1> HIDE DEF e, d
<1> QED BY <1>1, <1>2, <1>3, <1>4 DEF LeavesSet
-----------------------------------------------------------------------------
(* What the pops and RPOPLPUSH do. *)

\* The list at k gave el away, from its left or from its right end.
Took(db, e, k, el) ==
    \E r \in Seq(Val) :
        /\ Leaves(db, e, k, r)
        /\ listAt(db, k) = <<el>> \o r \/ listAt(db, k) = Append(r, el)

\* The list at k, or a new one, got el at its left end.
Gave(db, e, k, el) == Becomes(db, e, k, "list", <<el>> \o listAt(db, k), Nil)

\* A list is its head and its tail, and what RPOP leaves and its last element.
LEMMA BothEnds ==
    ASSUME NEW l \in Seq(Val), l # <<>>
    PROVE  /\ Head(l) \in Val /\ l[Len(l)] \in Val
           /\ Tail(l) \in Seq(Val) /\ SubSeq(l, 1, Len(l) - 1) \in Seq(Val)
           /\ l = <<Head(l)>> \o Tail(l)
           /\ l = Append(SubSeq(l, 1, Len(l) - 1), l[Len(l)])
<1>1. /\ Head(l) \in Val /\ Tail(l) \in Seq(Val) /\ Len(Tail(l)) = Len(l) - 1
      /\ \A i \in 1..Len(Tail(l)) : Tail(l)[i] = l[i + 1]
  BY HeadTailProperties
<1>2. l[Len(l)] \in Val /\ SubSeq(l, 1, Len(l) - 1) \in Seq(Val) /\ Len(l) \in Nat \ {0}
  BY PopRest, LastElement, EmptySeq
<1>3. l = <<Head(l)>> \o Tail(l)
  <2>1. Len(l) \in 1..Len(l) /\ 1 \in 1..Len(l)
    BY <1>2
  <2>2. SubSeq(l, 1, Len(l)) = <<l[1]>> \o SubSeq(l, 2, Len(l))
    BY <2>1, SubSeqRecursiveFirst
  <2>3. SubSeq(l, 1, Len(l)) = l /\ SubSeq(l, 2, Len(l)) = Tail(l)
    BY SubSeqFull, TailIsSubSeq
  <2>4. Head(l) = l[1]
    OBVIOUS
  <2> QED BY <2>2, <2>3, <2>4
<1>4. l = Append(SubSeq(l, 1, Len(l) - 1), l[Len(l)])
  <2>1. Len(l) \in 1..Len(l) /\ 1 \in 1..Len(l)
    BY <1>2
  <2>2. SubSeq(l, 1, Len(l)) = SubSeq(l, 1, Len(l) - 1) \o <<l[Len(l)]>>
    BY <2>1, SubSeqRecursiveSecond
  <2> QED BY <1>2, <2>2, SubSeqFull, AppendIsConcat
<1> QED BY <1>1, <1>2, <1>3, <1>4

\* listLpop and listPop take an element of the list.
LEMMA PopsTake ==
    ASSUME NEW db \in RedisDB, Agree(db), NEW k \in Key, t(db, k) = "list",
           listAt(db, k) # <<>>
    PROVE  /\ Took(db, listLpop(db, k), k, Head(listAt(db, k)))
           /\ Took(db, listPop(db, k), k, listAt(db, k)[Len(listAt(db, k))])
           /\ Head(listAt(db, k)) \in Val /\ listAt(db, k)[Len(listAt(db, k))] \in Val
<1> DEFINE l == listAt(db, k)
<1>1. l \in Seq(Val)
  BY ListAtType
<1>2. Leaves(db, listLpop(db, k), k, Tail(l)) /\ Leaves(db, listPop(db, k), k, SubSeq(l, 1, Len(l) - 1))
  BY PopLeaves
<1> HIDE DEF l
<1>3. /\ Head(l) \in Val /\ l[Len(l)] \in Val
      /\ Tail(l) \in Seq(Val) /\ SubSeq(l, 1, Len(l) - 1) \in Seq(Val)
      /\ l = <<Head(l)>> \o Tail(l) /\ l = Append(SubSeq(l, 1, Len(l) - 1), l[Len(l)])
  BY <1>1, BothEnds DEF l
<1>4. Took(db, listLpop(db, k), k, Head(l)) /\ Took(db, listPop(db, k), k, l[Len(l)])
  BY <1>2, <1>3 DEF Took, l
<1> QED BY <1>3, <1>4 DEF l

\* The only outcome.
LEMMA OneOutcome ==
    ASSUME NEW d, NEW r, NEW o \in One(d, r)
    PROVE  o.db = d /\ o.reply = r
BY DEF One

\* The answers of a pop that finds no list, or an empty one.
LEMMA TakesNothing ==
    ASSUME NEW db, NEW r \in {Null, WrongType, NoSuchKey, Panicked}, NEW o \in One(db, r)
    PROVE  o.db = db /\ o.reply[1] \notin {"bulk", "array"}
<1>1. o.db = db /\ o.reply = r
  BY DEF One
<1>2. r[1] \notin {"bulk", "array"}
  BY ReplyKinds
<1> QED BY <1>1, <1>2

\* LPOP and RPOP answer the element they take.
LEMMA XpopTakes ==
    ASSUME NEW c \in Commands, NEW db \in RedisDB, Agree(db), c.op \in {"LPOP", "RPOP"},
           NEW o \in cbXpop(c, db)
    PROVE  \/ o.db = db /\ o.reply[1] \notin {"bulk", "array"}
           \/ \E el \in Val : Took(db, o.db, K(c), el) /\ o.reply = Bulk(el)
<1> DEFINE k == K(c)
<1>1. k \in Key
  BY FirstKey DEF Keyless
<1>2. CASE ~exists(db, k) \/ t(db, k) # "list" \/ popPanics(db, k)
  <2>1. \E r \in {Null, WrongType, NoSuchKey, Panicked} : o \in One(db, r)
    BY <1>2 DEF cbXpop, OnList
  <2> QED BY <2>1, TakesNothing
<1>3. CASE exists(db, k) /\ t(db, k) = "list" /\ ~popPanics(db, k)
  <2>1. o.db = popFrom(db, k, c) /\ o.reply = Bulk(popped(listAt(db, k), c))
    BY <1>3 DEF cbXpop, OnList, One
  <2>2. popped(listAt(db, k), c) \in Val /\ Took(db, popFrom(db, k, c), k, popped(listAt(db, k), c))
    BY <1>1, <1>3, PopsTake DEF popped, popFrom, popPanics
  <2> QED BY <2>1, <2>2
<1> QED BY <1>2, <1>3

\* BLPOP and BRPOP in a transaction take from one of their keys.
LEMMA BXpopTakes ==
    ASSUME NEW c \in Commands, NEW db \in RedisDB, Agree(db), NEW o \in cbBXpop(c, db)
    PROVE  \/ o.db = db /\ o.reply[1] \notin {"bulk", "array"}
           \/ \E k \in Key, el \in Val : Took(db, o.db, k, el) /\ o.reply = Array(<<k, el>>)
<1> DEFINE Test(x) == exists(db, x) /\ (t(db, x) = "list" => listAt(db, x) # <<>>)
           I == {j \in 1..Len(c.keys) : Test(c.keys[j])}
           hit == IF I # {} THEN Min(I) ELSE 0
           k == c.keys[hit]
<1>1. cbBXpop(c, db) =
        IF hit = 0 THEN One(db, Null)
        ELSE IF t(db, k) # "list" THEN One(db, WrongType)
        ELSE One(popFrom(db, k, c), Array(<<k, popped(listAt(db, k), c)>>))
  BY DEF cbBXpop, SelectInSeq
<1>2. ASSUME hit # 0 PROVE k \in Key /\ Test(k)
  <2>1. I # {} /\ hit = Min(I)
    BY <1>2
  <2>2. Min(I) \in I
    BY <2>1, FirstOf, CommandArgs
  <2> QED BY <2>1, <2>2, CommandArgs
<1> HIDE DEF hit
<1>3. CASE hit = 0 \/ t(db, k) # "list"
  BY <1>1, <1>3, ReplyKinds DEF One
<1>4. CASE hit # 0 /\ t(db, k) = "list"
  <2> HIDE DEF k
  <2>1. o.db = popFrom(db, k, c) /\ o.reply = Array(<<k, popped(listAt(db, k), c)>>)
    BY <1>1, <1>4 DEF One
  <2>2. popped(listAt(db, k), c) \in Val /\ Took(db, popFrom(db, k, c), k, popped(listAt(db, k), c))
    BY <1>2, <1>4, PopsTake DEF popped, popFrom
  <2> QED BY <1>2, <1>4, <2>1, <2>2
<1> QED BY <1>3, <1>4

\* The pops of the direct API.
LEMMA MethodPopTakes ==
    ASSUME NEW c \in Commands, NEW db \in RedisDB, Agree(db), c.op \in {"Lpop", "Pop"},
           NEW o \in Method(c, db)
    PROVE  \/ o.db = db /\ o.reply[1] \notin {"bulk", "array"}
           \/ \E el \in Val : Took(db, o.db, K(c), el) /\ o.reply = Bulk(el)
<1> DEFINE k == K(c)
           l == listAt(db, k)
           el == IF c.op = "Lpop" THEN Head(l) ELSE l[Len(l)]
           e == IF c.op = "Lpop" THEN listLpop(db, k) ELSE listPop(db, k)
<1>1. k \in Key
  BY FirstKey DEF Keyless
<1>2. o \in OnList(db, k, ErrKeyNotFound,
                   IF popPanics(db, k) THEN One(db, Panicked) ELSE One(e, Bulk(el)))
  BY DEF Method, Lpop, Pop, PopWith
<1>3. t(db, k) = "list" /\ ~popPanics(db, k) => Took(db, e, k, el) /\ el \in Val
  BY <1>1, PopsTake DEF popPanics
<1> HIDE DEF e, el, k
<1>4. CASE ~exists(db, k) \/ t(db, k) # "list" \/ popPanics(db, k)
  <2>1. \E r \in {Null, WrongType, NoSuchKey, Panicked} : o \in One(db, r)
    BY <1>2, <1>4 DEF OnList, ErrKeyNotFound
  <2> QED BY <2>1, TakesNothing
<1>5. CASE exists(db, k) /\ t(db, k) = "list" /\ ~popPanics(db, k)
  <2>1. o.db = e /\ o.reply = Bulk(el)
    BY <1>2, <1>5 DEF OnList, One
  <2> QED BY <1>3, <1>5, <2>1 DEF k
<1> QED BY <1>4, <1>5
\* The values after a change of one key: that of k, and those of the others.
LEMMA LeavesValues ==
    ASSUME NEW db \in RedisDB, Agree(db), NEW e, NEW k \in Key, NEW l \in Seq(Val),
           Leaves(db, e, k, l)
    PROVE  /\ e \in RedisDB /\ Agree(e) /\ listAt(e, k) = l /\ setAt(e, k) = {}
           /\ e.keys[k] \in {Untyped, "list"}
           /\ \A j \in Key \ {k} : Same(db, e, j)
<1>1. l # Nil
  BY NotNil
<1>2. PICK a \in {Untyped, "list"}, m \in {Nil, l} :
         Becomes(db, e, k, a, m, Nil) /\ (IF l = <<>> THEN a = Untyped /\ m = Nil
                                          ELSE a = "list" /\ m = l)
  BY DEF Leaves
<1>3. /\ e \in RedisDB /\ e.keys[k] = a /\ e.listKeys[k] = m /\ e.setKeys[k] = Nil
      /\ \A j \in Key \ {k} : Same(db, e, j)
  BY <1>2, BecomesEntries
<1>4. listAt(e, k) = l /\ setAt(e, k) = {}
  BY <1>1, <1>2, <1>3 DEF listAt, setAt
<1>5. Agree(e)
  BY <1>1, <1>2, <1>3, UntypedApart DEF Agree, t, Same
<1> QED BY <1>2, <1>3, <1>4, <1>5

\* RPOPLPUSH and BRPOPLPUSH take an element from one list and give it to the other,
\* which may be the same.
LEMMA RpoplpushTakes ==
    ASSUME NEW c \in Commands, NEW db \in RedisDB, Agree(db),
           c.op \in {"RPOPLPUSH", "BRPOPLPUSH"}, NEW o \in cbRpoplpush(c, db)
    PROVE  \/ o.db = db
           \/ \E d \in RedisDB, el \in Val :
                 /\ Agree(d)
                 /\ ~exists(d, c.keys[2]) \/ t(d, c.keys[2]) = "list"
                 /\ Took(db, d, c.keys[1], el) /\ Gave(d, o.db, c.keys[2], el)
<1> DEFINE src == c.keys[1]
           dst == c.keys[2]
           l   == listAt(db, src)
           d   == listPop(db, src)
           el  == l[Len(l)]
           e   == listLpush(d, dst, el)
<1>1. src \in Key /\ dst \in Key
  BY FirstKey DEF Keyless, TwoKeys, K
<1>2. CASE \/ ~exists(db, src) \/ t(db, src) # "list"
           \/ (exists(db, dst) /\ t(db, dst) # "list") \/ popPanics(db, src)
  <2>1. \E r : o \in One(db, r)
    BY <1>2 DEF cbRpoplpush
  <2> QED BY <2>1, OneOutcome
<1>3. CASE /\ exists(db, src) /\ t(db, src) = "list" /\ ~popPanics(db, src)
           /\ ~exists(db, dst) \/ t(db, dst) = "list"
  <2>1. o \in One(e, Bulk(el))
    BY <1>3 DEF cbRpoplpush
  <2> HIDE DEF e
  <2>1a. o.db = e
    BY <2>1, OneOutcome
  <2> USE DEF e
  <2>2. Took(db, d, src, el) /\ el \in Val
    BY <1>1, <1>3, PopsTake DEF popPanics
  <2> HIDE DEF d, el
  <2>3. PICK r \in Seq(Val) : Leaves(db, d, src, r)
    BY <2>2 DEF Took
  <2>4. d \in RedisDB /\ Agree(d) /\ d.keys[src] \in {Untyped, "list"}
        /\ \A j \in Key \ {src} : Same(db, d, j)
    BY <1>1, <2>3, LeavesValues
  <2>5. ~exists(d, dst) \/ t(d, dst) = "list"
    BY <1>1, <1>3, <2>4 DEF exists, t, Same
  <2>6. <<el>> \o listAt(d, dst) \in Seq(Val)
    <3>1. listAt(d, dst) \in Seq(Val) /\ <<el>> \in Seq(Val)
      BY <1>1, <2>2, <2>4, ListAtType
    <3> QED BY <3>1, ConcatProperties
  <2>7. Gave(d, e, dst, el)
    BY <1>1, <2>4, <2>5, <2>6, PutListBecomes DEF Gave, listLpush
  <2> QED BY <2>1a, <2>2, <2>4, <2>5, <2>7
<1> QED BY <1>2, <1>3
-----------------------------------------------------------------------------
(* No command leaves a new empty list. *)

\* Every list that is empty in e was empty in db.
NoEmptier(db, e) == \A k \in Key : e.listKeys[k] = <<>> => db.listKeys[k] = <<>>

\* Neither Nil nor a list with an element is an empty list.
LEMMA NilNotEmpty == Nil # <<>>
<1>1. <<>> \in Seq(Val)
  OBVIOUS
<1> QED BY <1>1, NotNil

\* A key that gets anything but an empty list.
LEMMA BecomesNoEmptier ==
    ASSUME NEW db \in RedisDB, NEW e, NEW k \in Key, NEW a, NEW l, l # <<>>, NEW s,
           Becomes(db, e, k, a, l, s)
    PROVE  NoEmptier(db, e)
BY BecomesEntries DEF NoEmptier, Same

\* The changes that delete a key when nothing is left of its value.
LEMMA LeavesNoEmptier ==
    ASSUME NEW db \in RedisDB, NEW e, NEW k \in Key
    PROVE  /\ \A l : Leaves(db, e, k, l) => NoEmptier(db, e)
           /\ \A s : LeavesSet(db, e, k, s) => NoEmptier(db, e)
BY NilNotEmpty, BecomesNoEmptier DEF Leaves, LeavesSet

\* Two changes after each other.
LEMMA NoEmptierTwice ==
    ASSUME NEW db, NEW d, NEW e, NoEmptier(db, d), NoEmptier(d, e)
    PROVE  NoEmptier(db, e)
BY DEF NoEmptier

\* A list with an element in front.
LEMMA PushedNotEmpty ==
    ASSUME NEW l \in Seq(Val), NEW m \in Seq(Val), m # <<>>
    PROVE  l \o m \in Seq(Val) /\ m \o l \in Seq(Val) /\ l \o m # <<>> /\ m \o l # <<>>
BY ConcatProperties, ConcatEqualIffEmpty

\* Taking and giving an element.
LEMMA TakesNoEmptier ==
    ASSUME NEW db \in RedisDB, Agree(db), NEW e, NEW k \in Key, NEW el \in Val
    PROVE  Took(db, e, k, el) \/ Gave(db, e, k, el) => NoEmptier(db, e)
<1>1. Took(db, e, k, el) => NoEmptier(db, e)
  BY LeavesNoEmptier DEF Took
<1>2. <<el>> \in Seq(Val) /\ <<el>> # <<>> /\ listAt(db, k) \in Seq(Val)
  BY ListAtType
<1>3. <<el>> \o listAt(db, k) # <<>>
  BY <1>2, PushedNotEmpty
<1>4. Gave(db, e, k, el) => NoEmptier(db, e)
  BY <1>3, BecomesNoEmptier DEF Gave
<1> QED BY <1>1, <1>4
\* A callback that answers, or changes the database to e.
LEMMA OutcomeNoEmptier ==
    ASSUME NEW db, NEW e, NEW P, P => NoEmptier(db, e), NEW o,
           \E r : o \in One(db, r) \/ (o \in One(e, r) /\ P)
    PROVE  NoEmptier(db, o.db)
<1>1. o.db = db \/ (o.db = e /\ P)
  BY OneOutcome
<1> QED BY <1>1 DEF NoEmptier

\* A callback that only answers.
LEMMA AnswersNoEmptier ==
    ASSUME NEW db, NEW r, NEW o \in One(db, r)
    PROVE  NoEmptier(db, o.db)
BY OneOutcome DEF NoEmptier

\* The common preambles: only the last case is left to the callback.
LEMMA OnTypeNoEmptier ==
    ASSUME NEW db, NEW k, NEW absent, NEW present, NEW o
    PROVE  /\ o \in OnList(db, k, absent, present) =>
                 NoEmptier(db, o.db) \/ (o \in present /\ exists(db, k) /\ t(db, k) = "list")
           /\ o \in OnSet(db, k, absent, present) =>
                 NoEmptier(db, o.db) \/ (o \in present /\ exists(db, k) /\ t(db, k) = "set")
BY AnswersNoEmptier DEF OnList, OnSet

\* The pushes.
LEMMA PushNoEmptier ==
    ASSUME NEW c \in Commands, NEW db \in RedisDB, Agree(db), K(c) \in Key, Len(c.vals) >= 1,
           ~exists(db, K(c)) \/ t(db, K(c)) = "list"
    PROVE  NoEmptier(db, pushed(c, db))
<1> DEFINE k == K(c)
           l == IF c.op \in {"LPUSH", "LPUSHX"} THEN Reverse(c.vals) \o listAt(db, k)
                ELSE listAt(db, k) \o c.vals
           d == putList(db, k, l)
           n == Len(c.vals) - 1
<1>1. l \in Seq(Val) /\ l # <<>>
  <2>1. listAt(db, k) \in Seq(Val) /\ c.vals \in Seq(Val) /\ Reverse(c.vals) \in Seq(Val)
    BY ListAtType, CommandArgs, ReverseType
  <2>2. Len(Reverse(c.vals)) = Len(c.vals) /\ Len(c.vals) \in Nat
    BY <2>1, LenProperties DEF Reverse
  <2>3. c.vals # <<>> /\ Reverse(c.vals) # <<>>
    BY <2>1, <2>2, EmptySeq
  <2>4. /\ Reverse(c.vals) \o listAt(db, k) \in Seq(Val)
        /\ Reverse(c.vals) \o listAt(db, k) # <<>>
        /\ listAt(db, k) \o c.vals \in Seq(Val) /\ listAt(db, k) \o c.vals # <<>>
    BY <2>1, <2>3, PushedNotEmpty
  <2> QED BY <2>4
<1>2. pushed(c, db) = bump(d, k, n)
  BY DEF pushed
<1>3. n \in Nat
  BY CommandArgs
<1> HIDE DEF l, n, k
<1>4. Becomes(db, d, k, "list", l, Nil)
  BY <1>1, PutListBecomes DEF k
<1> HIDE DEF d
<1>5. Becomes(db, bump(d, k, n), k, "list", l, Nil)
  BY <1>3, <1>4, BumpBecomes DEF k
<1> QED BY <1>1, <1>2, <1>5, BecomesNoEmptier DEF k

\* LINSERT leaves a list that is not empty, and so does LSET.
LEMMA EditNoEmptier ==
    ASSUME NEW c \in Commands, NEW db \in RedisDB, Agree(db), c.op \in {"LINSERT", "LSET"},
           NEW o \in Callback(c, db)
    PROVE  NoEmptier(db, o.db)
<1> DEFINE k == K(c)
           l == listAt(db, k)
<1>1. k \in Key /\ l \in Seq(Val) /\ Len(l) \in Nat
  BY FirstKey, ListAtType, LenProperties DEF Keyless
<1>2. CASE c.op = "LINSERT"
  <2> DEFINE m == linsert(l, c.n, c.vals[1], c.vals[2])
             e == bump([db EXCEPT !.listKeys[k] = m], k, 1)
             present == IF pivotAt(l, c.vals[1]) = 0 THEN One(db, IntReply(-1))
                        ELSE One(e, IntReply(Len(l) + 1))
  <2>1. o \in OnList(db, k, IntReply(0), present)
    BY <1>2 DEF cbLinsert, Callback
  <2>2. ASSUME t(db, k) = "list", pivotAt(l, c.vals[1]) # 0 PROVE NoEmptier(db, e)
    <3>1. c.vals[2] \in Val
      BY <1>2, FirstKey DEF OneValue
    <3>2. m \in Seq(Val)
      BY <1>1, <2>2, <3>1, InsertType
    <3>3. m # <<>>
      <4> DEFINE p == IF c.n < 0 THEN pivotAt(l, c.vals[1]) ELSE pivotAt(l, c.vals[1]) + 1
                 v == c.vals[2]
                 x == SubSeq(l, 1, p - 1)
                 y == SubSeq(l, p, Len(l))
      <4>1. m = x \o <<v>> \o y
        BY DEF linsert, InsertAt
      <4>2. pivotAt(l, c.vals[1]) \in 1..Len(l)
        BY <1>1, <2>2, FirstOf DEF pivotAt, SelectInSeq
      <4>3. p \in 1..(Len(l) + 1)
        BY <1>1, <4>2
      <4> HIDE DEF p
      <4>4. x \in Seq(Val) /\ y \in Seq(Val)
        <5>1. /\ \A j \in 1..(p - 1) : l[j] \in Val
              /\ \A j \in p..Len(l) : l[j] \in Val
          BY <1>1, <4>3, ElementOfSeq
        <5> QED BY <1>1, <4>3, <5>1, SubSeqProperties
      <4> HIDE DEF x, y, v, m
      <4>5. <<v>> \in Seq(Val) /\ <<v>> # <<>>
        BY <3>1 DEF v
      <4>6. x \o <<v>> \in Seq(Val) /\ x \o <<v>> # <<>>
        BY <4>4, <4>5, PushedNotEmpty
      <4> DEFINE w == x \o <<v>>
      <4> HIDE DEF w
      <4>7. w \o y # <<>>
        BY <4>4, <4>6, PushedNotEmpty DEF w
      <4> QED BY <4>1, <4>7 DEF w
    <3> HIDE DEF m
    <3> QED BY <1>1, <2>2, <3>2, <3>3, RelistBecomes, BecomesNoEmptier
  <2> HIDE DEF e
  <2>3. o \in present /\ t(db, k) = "list" => NoEmptier(db, o.db)
    BY <2>2, AnswersNoEmptier, OneOutcome
  <2> HIDE DEF present
  <2> QED BY <2>1, <2>3, OnTypeNoEmptier
<1>3. CASE c.op = "LSET"
  <2> DEFINE p == position(l, c.n)
             m == [db.listKeys[k] EXCEPT ![p + 1] = V(c)]
             e == bump([db EXCEPT !.listKeys[k][p + 1] = V(c)], k, 1)
             present == IF outOfRange(l, p) THEN One(db, <<"error", "out of range">>)
                        ELSE One(e, OK)
  <2>1. o \in OnList(db, k, NoSuchKey, present)
    BY <1>3 DEF cbLset, Callback
  <2>2. ASSUME t(db, k) = "list", ~outOfRange(l, p) PROVE NoEmptier(db, e)
    <3>1. V(c) \in Val /\ c.n \in Int /\ l = db.listKeys[k]
      BY <1>1, <1>3, <2>2, FirstKey, CommandArgs, MaxIntAssumption, ListEntryAt
         DEF OneValue, Int64, MinInt
    <3>2. p + 1 \in 1..Len(l)
      BY <1>1, <2>2, <3>1 DEF position, outOfRange
    <3>3. m \in Seq(Val) /\ Len(m) = Len(l)
      BY <1>1, <3>1, <3>2, ExceptSeq
    <3>4. m # <<>>
      BY <1>1, <3>2, <3>3, EmptySeq
    <3>5. e = bump([db EXCEPT !.listKeys[k] = m], k, 1)
      OBVIOUS
    <3> HIDE DEF m
    <3> QED BY <1>1, <2>2, <3>3, <3>4, <3>5, RelistBecomes, BecomesNoEmptier
  <2> HIDE DEF e
  <2>3. o \in present /\ t(db, k) = "list" => NoEmptier(db, o.db)
    <3>1. CASE outOfRange(l, p)
      <4>1. o \in present => o \in One(db, <<"error", "out of range">>)
        BY <3>1
      <4> HIDE DEF present
      <4> QED BY <4>1, AnswersNoEmptier
    <3>2. CASE ~outOfRange(l, p)
      <4>1. o \in present => o \in One(e, OK)
        BY <3>2
      <4> HIDE DEF present
      <4> QED BY <2>2, <3>2, <4>1, OneOutcome
    <3> QED BY <3>1, <3>2
  <2> HIDE DEF present
  <2> QED BY <2>1, <2>3, OnTypeNoEmptier
<1> QED BY <1>2, <1>3
\* The set commands never touch a list, but for the key they replace by a set.
LEMMA SetNoEmptier ==
    ASSUME NEW c \in Commands, NEW db \in RedisDB, Agree(db), NEW o \in Callback(c, db),
           c.op \in {"SADD", "SREM", "SMOVE", "SPOP", "SDIFFSTORE", "SINTERSTORE", "SUNIONSTORE"}
    PROVE  NoEmptier(db, o.db)
<1> DEFINE k == K(c)
<1>1. k \in Key /\ vset(c) \in SUBSET Val
  BY FirstKey, CommandArgs DEF Keyless
<1>2. CASE c.op = "SADD"
  <2> DEFINE e == setAdd(db, k, vset(c))
  <2>1. \E r : o \in One(db, r) \/ (~notSet(db, k) /\ o \in One(e, r))
    BY <1>2 DEF Callback, cbSadd
  <2>2. ~notSet(db, k) => NoEmptier(db, e)
    BY <1>1, SetBecomes, BecomesNoEmptier, NilNotEmpty
  <2> HIDE DEF e
  <2> QED BY <2>1, <2>2, AnswersNoEmptier, OneOutcome
<1>3. CASE c.op = "SREM"
  <2> DEFINE e == setRem(db, k, vset(c))
  <2>1. PICK r : o \in OnSet(db, k, IntReply(0), One(e, r))
    BY <1>3 DEF Callback, cbSrem
  <2>2. t(db, k) = "set" => NoEmptier(db, e)
    BY <1>1, SetRemLeaves, LeavesNoEmptier
  <2> HIDE DEF e
  <2>3. NoEmptier(db, o.db) \/ (o \in One(e, r) /\ t(db, k) = "set")
    BY <2>1, OnTypeNoEmptier
  <2>4. o \in One(e, r) => o.db = e
    BY OneOutcome
  <2> QED BY <2>2, <2>3, <2>4
<1>4. CASE c.op = "SMOVE"
  <2> DEFINE src == c.keys[1]
             dst == c.keys[2]
             x   == {V(c)}
             d   == setRem(db, src, x)
             e   == setAdd(d, dst, x)
             present == IF notSet(db, dst) THEN One(db, WrongType)
                        ELSE IF ~setIsMember(db, src, V(c)) THEN One(db, IntReply(0))
                        ELSE One(e, IntReply(1))
  <2>1. src \in Key /\ dst \in Key /\ x \in SUBSET Val
    BY <1>4, FirstKey DEF Keyless, TwoKeys, OneValue, K
  <2>2. o \in OnSet(db, src, IntReply(0), present)
    BY <1>4 DEF Callback, cbSmove
  <2>3. ASSUME t(db, src) = "set", ~notSet(db, dst) PROVE NoEmptier(db, e)
    <3>1. NoEmptier(db, d)
      BY <2>1, <2>3, SetRemLeaves, LeavesNoEmptier
    <3>2. Touches(db, d, {src}) /\ (d.keys[src] = db.keys[src] \/ d.keys[src] = Untyped)
      BY <2>1, SetRemTouches, SetRemKeeps
    <3>3. d \in RedisDB /\ Agree(d)
      BY <3>2 DEF Touches
    <3>4. ~notSet(d, dst)
      BY <2>1, <2>3, <3>2 DEF Touches, Same, notSet, exists, t
    <3> HIDE DEF d, x
    <3>5. NoEmptier(d, e)
      BY <2>1, <3>3, <3>4, SetBecomes, BecomesNoEmptier, NilNotEmpty
    <3> QED BY <3>1, <3>5, NoEmptierTwice
  <2> HIDE DEF e
  <2>4. o \in present /\ t(db, src) = "set" => NoEmptier(db, o.db)
    <3>1. o \in present => \/ o \in One(db, WrongType) \/ o \in One(db, IntReply(0))
                           \/ ~notSet(db, dst) /\ o \in One(e, IntReply(1))
      OBVIOUS
    <3> HIDE DEF present
    <3> QED BY <2>3, <3>1, AnswersNoEmptier, OneOutcome
  <2> HIDE DEF present
  <2> QED BY <2>2, <2>4, OnTypeNoEmptier
<1>5. CASE c.op = "SPOP"
  <2> DEFINE s == setAt(db, k)
             count == IF c.m = 1 THEN c.n ELSE 1
             size  == IF count < 0 THEN 0
                      ELSE IF count > Cardinality(s) THEN Cardinality(s) ELSE count
             Popped(x) == IF x = {} THEN db ELSE bump(setRem(db, k, x), k, Cardinality(x) - 1)
             Reply(x) == IF c.m = 1 THEN Array(x)
                         ELSE IF x = {} THEN Null ELSE Bulk(CHOOSE v \in x : TRUE)
             present == {[db |-> Popped(x), reply |-> Reply(x)] : x \in kSubset(size, s)}
  <2>1. \/ o \in One(db, BadInt)
        \/ o \in OnSet(db, k, IF c.m = 1 THEN Array({}) ELSE Null, present)
    BY <1>5 DEF Callback, cbSpop
  <2>2. ASSUME o \in present, t(db, k) = "set" PROVE NoEmptier(db, o.db)
    <3> HIDE DEF size
    <3>1. PICK x \in kSubset(size, s) : o.db = Popped(x)
      BY <2>2
    <3>2. x \in SUBSET s
      BY DEF kSubset
    <3>3. IsFiniteSet(x)
      BY <1>1, <3>2, ListAtType, ValAssumption, FS_Subset
    <3>4. CASE x = {}
      BY <3>1, <3>4 DEF NoEmptier
    <3>5. CASE x # {}
      <4> DEFINE n == Cardinality(x) - 1
                 d == setRem(db, k, x)
      <4>1. n \in Nat
        BY <3>3, <3>5, FS_CardinalityType, FS_EmptySet
      <4>2. LeavesSet(db, d, k, setAt(db, k) \ x)
        BY <1>1, <2>2, SetRemLeaves
      <4> HIDE DEF n, d
      <4>3. LeavesSet(db, bump(d, k, n), k, setAt(db, k) \ x)
        BY <1>1, <4>1, <4>2, BumpBecomes DEF LeavesSet
      <4> QED BY <1>1, <3>1, <3>5, <4>3, LeavesNoEmptier DEF n, d
    <3> QED BY <3>4, <3>5
  <2>3. o \in One(db, BadInt) => NoEmptier(db, o.db)
    BY OneOutcome DEF NoEmptier
  <2> HIDE DEF present
  <2> QED BY <2>1, <2>2, <2>3, OnTypeNoEmptier
<1>6. CASE c.op \in {"SDIFFSTORE", "SINTERSTORE", "SUNIONSTORE"}
  <2> DEFINE s == combine(db, SetOp(c), Tail(c.keys))
             d == del(db, k)
             e == setSet(d, k, s)
  <2>1. \E r : o \in One(db, r) \/ o \in One(e, r)
    BY <1>6 DEF Callback, cbSetStore
  <2>2. s \in SUBSET Val
    <3>1. c.keys \in Seq(Key) /\ c.keys # <<>> /\ Len(c.keys) \in Nat /\ Len(c.keys) >= 2
      BY <1>6, CommandArgs, EmptySeq, FirstKey DEF TwoKeys
    <3>2. Tail(c.keys) \in Seq(Key) /\ Len(Tail(c.keys)) >= 1
      BY <3>1, HeadTailProperties
    <3>3. SetOp(c) \in {"diff", "inter", "union"}
      BY DEF SetOp
    <3> QED BY <3>2, <3>3, CombineType
  <2>3. Touches(db, d, {k}) /\ ~exists(d, k)
    BY <1>1, DelTouches
  <2>4. d \in RedisDB /\ Agree(d) /\ ~notSet(d, k)
    BY <2>3 DEF Touches, notSet
  <2>5. NoEmptier(db, d)
    BY <1>1, DelBecomes, BecomesNoEmptier, NilNotEmpty
  <2> HIDE DEF d, s
  <2>6. NoEmptier(d, e)
    BY <1>1, <2>2, <2>4, SetBecomes, BecomesNoEmptier, NilNotEmpty
  <2>7. NoEmptier(db, e)
    BY <2>5, <2>6, NoEmptierTwice
  <2> HIDE DEF e
  <2> QED BY <2>1, <2>7, AnswersNoEmptier, OneOutcome
<1> QED BY <1>2, <1>3, <1>4, <1>5, <1>6

\* DEL and the flushes: a key that is not there has no list.
LEMMA GoneNoEmptier ==
    ASSUME NEW db \in RedisDB, Agree(db)
    PROVE  /\ \A ks : NoEmptier(db, delAll(db, ks))
           /\ \A k \in Key : NoEmptier(db, del(db, k))
           /\ NoEmptier(db, flush(db))
<1>1. ASSUME NEW ks PROVE NoEmptier(db, delAll(db, ks))
  <2>1. ASSUME NEW k \in Key
        PROVE  delAll(db, ks).listKeys[k] \in {Nil, db.listKeys[k]}
    <3>1. del(db, k).listKeys[k] = Nil
      BY DelTouches
    <3> QED BY <3>1 DEF delAll
  <2> QED BY <2>1, NilNotEmpty DEF NoEmptier
<1>2. ASSUME NEW k \in Key PROVE NoEmptier(db, del(db, k))
  BY DelBecomes, BecomesNoEmptier, NilNotEmpty
<1>3. NoEmptier(db, flush(db))
  <2>1. \A k \in Key : flush(db).listKeys[k] = Nil
    BY FlushWipes, UntypedApart DEF Wiped, Agree, exists, t
  <2> QED BY <2>1, NilNotEmpty DEF NoEmptier
<1> QED BY <1>1, <1>2, <1>3
\* No callback but a rename leaves a new empty list.
LEMMA CallbackNoEmptier ==
    ASSUME NEW c \in Commands, NEW db \in RedisDB, Agree(db), NEW o \in Callback(c, db),
           c.op \notin {"RENAME", "RENAMENX"}
    PROVE  NoEmptier(db, o.db)
<1>1. CASE c.op \in {"LPOP", "RPOP"}
  <2>1. K(c) \in Key
    BY <1>1, FirstKey DEF Keyless
  <2>2. o.db = db \/ \E el \in Val : Took(db, o.db, K(c), el)
    BY <1>1, XpopTakes DEF Callback
  <2> QED BY <2>1, <2>2, TakesNoEmptier DEF NoEmptier
<1>2. CASE c.op \in {"BLPOP", "BRPOP"}
  <2>1. o.db = db \/ \E k \in Key, el \in Val : Took(db, o.db, k, el)
    BY <1>2, BXpopTakes DEF Callback
  <2> QED BY <2>1, TakesNoEmptier DEF NoEmptier
<1>3. CASE c.op \in {"LPUSH", "RPUSH", "LPUSHX", "RPUSHX"}
  <2>1. K(c) \in Key /\ Len(c.vals) >= 1
    BY <1>3, FirstKey DEF Keyless, OneValue
  <2>2. \E r : \/ o \in One(db, r)
               \/ o \in One(pushed(c, db), r) /\ (~exists(db, K(c)) \/ t(db, K(c)) = "list")
    BY <1>3 DEF Callback, cbXpush, cbXpushx, OnList, PushReply
  <2> DEFINE P == ~exists(db, K(c)) \/ t(db, K(c)) = "list"
             e == pushed(c, db)
  <2>3. P => NoEmptier(db, e)
    BY <2>1, PushNoEmptier
  <2>4. \E r : o \in One(db, r) \/ (o \in One(e, r) /\ P)
    BY <2>2
  <2> HIDE DEF P, e
  <2> QED BY <2>3, <2>4, OutcomeNoEmptier
<1>4. CASE c.op \in {"RPOPLPUSH", "BRPOPLPUSH"}
  <2>1. c.keys[1] \in Key /\ c.keys[2] \in Key
    BY <1>4, FirstKey DEF Keyless, TwoKeys, K
  <2>2. \/ o.db = db
        \/ \E d \in RedisDB, el \in Val :
              Agree(d) /\ Took(db, d, c.keys[1], el) /\ Gave(d, o.db, c.keys[2], el)
    BY <1>4, RpoplpushTakes DEF Callback
  <2>3. ASSUME NEW d \in RedisDB, NEW el \in Val,
               Agree(d), Took(db, d, c.keys[1], el), Gave(d, o.db, c.keys[2], el)
        PROVE  NoEmptier(db, o.db)
    <3>1. NoEmptier(db, d) /\ NoEmptier(d, o.db)
      BY <2>1, <2>3, TakesNoEmptier
    <3> QED BY <3>1, NoEmptierTwice
  <2> QED BY <2>2, <2>3 DEF NoEmptier
<1>5. CASE c.op \in {"LINSERT", "LSET"}
  BY <1>5, EditNoEmptier
<1>6. CASE c.op \in {"LREM", "LTRIM"}
  <2> DEFINE k == K(c)
             l == listAt(db, k)
  <2>1. k \in Key /\ l \in Seq(Val) /\ c.n \in Int64 /\ c.m \in Int64
    BY <1>6, FirstKey, ListAtType, CommandArgs DEF Keyless
  <2>2. lrem(l, c.n, V(c)) \in Seq(Val) /\ slice(l, redisRange(Len(l), c.n, c.m)) \in Seq(Val)
    BY <2>1, LremType, SliceType
  <2>3. PICK m \in Seq(Val) :
           \E r : \E absent : o \in OnList(db, k, absent, One(keep(db, k, m), r))
    BY <1>6, <2>2 DEF Callback, cbLrem, cbLtrim
  <2>4. PICK r : \E absent : o \in OnList(db, k, absent, One(keep(db, k, m), r))
    BY <2>3
  <2>5. PICK absent : o \in OnList(db, k, absent, One(keep(db, k, m), r))
    BY <2>4
  <2> HIDE DEF l
  <2>6. t(db, k) = "list" => NoEmptier(db, keep(db, k, m))
    BY <2>1, KeepLeaves, LeavesNoEmptier
  <2>7. NoEmptier(db, o.db) \/ (o \in One(keep(db, k, m), r) /\ t(db, k) = "list")
    BY <2>5, OnTypeNoEmptier
  <2>8. o \in One(keep(db, k, m), r) => o.db = keep(db, k, m)
    BY OneOutcome
  <2> QED BY <2>6, <2>7, <2>8
<1>7. CASE c.op \in {"SADD", "SREM", "SMOVE", "SPOP", "SDIFFSTORE", "SINTERSTORE", "SUNIONSTORE"}
  BY <1>7, SetNoEmptier
<1>8. CASE c.op = "DEL"
  <2>1. \E r : o \in One(delAll(db, ToSet(c.keys)), r)
    BY <1>8 DEF Callback, cbDel
  <2> QED BY <2>1, GoneNoEmptier, OneOutcome
<1>9. CASE c.op = "FLUSHDB"
  BY <1>9, GoneNoEmptier, OneOutcome DEF Callback, cbFlushdb
<1>10. CASE c.op \notin {"LPOP", "RPOP", "BLPOP", "BRPOP", "LPUSH", "RPUSH", "LPUSHX", "RPUSHX",
                         "RPOPLPUSH", "BRPOPLPUSH", "LINSERT", "LREM", "LTRIM", "LSET", "SADD",
                         "SREM", "SMOVE", "SPOP", "SDIFFSTORE", "SINTERSTORE", "SUNIONSTORE",
                         "DEL", "FLUSHDB"}
  <2>1. o.db = db
    <3>1. CASE c.op \in {"LINDEX", "LLEN", "LRANGE"}
      <4>1. \E r : o \in One(db, r)
        <5>1. CASE c.op = "LINDEX"
          BY <5>1 DEF Callback, cbLindex, OnList
        <5>2. CASE c.op = "LLEN"
          BY <5>2 DEF Callback, cbLlen, OnList
        <5>3. CASE c.op = "LRANGE"
          BY <5>3 DEF Callback, cbLrange, OnList
        <5> QED BY <3>1, <5>1, <5>2, <5>3
      <4> QED BY <4>1, OneOutcome
    <3>2. CASE c.op \in {"SCARD", "SISMEMBER", "SMEMBERS", "SSCAN"}
      <4>1. \E r : o \in One(db, r)
        <5>1. CASE c.op = "SCARD"
          BY <5>1 DEF Callback, cbScard, OnSet
        <5>2. CASE c.op = "SISMEMBER"
          BY <5>2 DEF Callback, cbSismember, OnSet
        <5>3. CASE c.op = "SMEMBERS"
          BY <5>3 DEF Callback, cbSmembers, OnSet
        <5>4. CASE c.op = "SSCAN"
          BY <5>4 DEF Callback, cbSscan, OnSet
        <5> QED BY <3>2, <5>1, <5>2, <5>3, <5>4
      <4> QED BY <4>1, OneOutcome
    <3>3. CASE c.op \in {"SDIFF", "SINTER", "SUNION"}
      BY <1>10, <3>3 DEF Callback, cbSetRead, One
    <3>4. CASE c.op = "SRANDMEMBER"
      <4>1. \E r : o \in One(db, r)
        BY <1>10, <3>4 DEF Callback, cbSrandmember, OnSet, One
      <4> QED BY <4>1, OneOutcome
    <3>5. CASE c.op \in {"TYPE", "EXISTS", "KEYS", "SCAN", "RANDOMKEY", "DBSIZE"}
      <4>1. \E r : o \in One(db, r)
        <5>1. CASE c.op = "TYPE"
          BY <5>1 DEF Callback, cbType
        <5>2. CASE c.op = "EXISTS"
          BY <5>2 DEF Callback, cbExists
        <5>3. CASE c.op = "KEYS"
          BY <5>3 DEF Callback, cbKeys
        <5>4. CASE c.op = "SCAN"
          BY <5>4 DEF Callback, cbScan, cbKeys
        <5>5. CASE c.op = "RANDOMKEY"
          BY <5>5 DEF Callback, cbRandomkey, One
        <5>6. CASE c.op = "DBSIZE"
          BY <5>6 DEF Callback, cbDbsize
        <5> QED BY <3>5, <5>1, <5>2, <5>3, <5>4, <5>5, <5>6
      <4> QED BY <4>1, OneOutcome
    <3>6. CASE c.op \notin {"LINDEX", "LLEN", "LRANGE", "SCARD", "SISMEMBER", "SMEMBERS", "SSCAN",
                            "SDIFF", "SINTER", "SUNION", "SRANDMEMBER", "TYPE", "EXISTS", "KEYS",
                            "SCAN", "RANDOMKEY", "DBSIZE"}
      <4>1. o \in One(db, OK)
        BY <1>10, <3>6 DEF Callback
      <4> QED BY <4>1, OneOutcome
    <3> QED BY <3>1, <3>2, <3>3, <3>4, <3>5, <3>6
  <2> QED BY <2>1 DEF NoEmptier
<1> QED BY <1>1, <1>2, <1>3, <1>4, <1>5, <1>6, <1>7, <1>8, <1>9, <1>10

\* No method leaves a new empty list, but for Push without values.
LEMMA MethodNoEmptier ==
    ASSUME NEW c \in Commands, NEW db \in RedisDB, Agree(db), NEW o \in Method(c, db),
           c.op \in DirectMethods \ {"FlushAll"}, c.op = "Push" => c.vals # <<>>
    PROVE  NoEmptier(db, o.db)
<1> DEFINE k == K(c)
           l == listAt(db, k)
<1>1. c.op \notin {"Keys", "FlushDB"} => k \in Key
  BY FirstKey DEF Keyless, DirectMethods
<1>2. CASE c.op \in {"Lpush", "Push"}
  <2>1. k \in Key /\ l \in Seq(Val) /\ c.vals \in Seq(Val) /\ (c.op = "Lpush" => V(c) \in Val)
    BY <1>1, <1>2, ListAtType, CommandArgs, FirstKey DEF OneValue
  <2> DEFINE x == IF c.op = "Lpush" THEN <<V(c)>> ELSE c.vals
             m == IF c.op = "Lpush" THEN x \o l ELSE l \o x
  <2>2. x \in Seq(Val) /\ x # <<>>
    BY <1>2, <2>1
  <2>3. \E r : \/ o \in One(db, r)
               \/ o \in One(putList(db, k, m), r) /\ (~exists(db, k) \/ t(db, k) = "list")
    BY <1>2 DEF Method, Lpush, Push, listLpush, listPush
  <2> HIDE DEF x, l
  <2>4. m \in Seq(Val) /\ m # <<>>
    BY <2>1, <2>2, PushedNotEmpty
  <2> HIDE DEF m
  <2>5. ~exists(db, k) \/ t(db, k) = "list" => NoEmptier(db, putList(db, k, m))
    BY <2>1, <2>4, PutListBecomes, BecomesNoEmptier
  <2> DEFINE P == ~exists(db, k) \/ t(db, k) = "list"
             e == putList(db, k, m)
  <2>6. P => NoEmptier(db, e)
    BY <2>5
  <2>7. \E r : o \in One(db, r) \/ (o \in One(e, r) /\ P)
    BY <2>3
  <2> HIDE DEF P, e
  <2> QED BY <2>6, <2>7, OutcomeNoEmptier
<1>3. CASE c.op \in {"Lpop", "Pop"}
  <2>1. o.db = db \/ \E el \in Val : Took(db, o.db, k, el)
    BY <1>3, MethodPopTakes
  <2> QED BY <1>1, <1>3, <2>1, TakesNoEmptier DEF NoEmptier
<1>4. CASE c.op = "SetAdd"
  <2> DEFINE e == setAdd(db, k, vset(c))
  <2>1. \E r : o \in One(db, r) \/ (~notSet(db, k) /\ o \in One(e, r))
    BY <1>4 DEF Method, SetAdd
  <2>2. vset(c) \in SUBSET Val
    BY CommandArgs
  <2>3. ~notSet(db, k) => NoEmptier(db, e)
    BY <1>1, <1>4, <2>2, SetBecomes, BecomesNoEmptier, NilNotEmpty
  <2> HIDE DEF e
  <2> QED BY <2>1, <2>3, AnswersNoEmptier, OneOutcome
<1>5. CASE c.op = "SRem"
  <2> DEFINE e == setRem(db, k, vset(c))
  <2>1. PICK r : o \in OnSet(db, k, ErrKeyNotFound, One(e, r))
    BY <1>5 DEF Method, SRem
  <2>2. t(db, k) = "set" => NoEmptier(db, e)
    BY <1>1, <1>5, SetRemLeaves, LeavesNoEmptier
  <2> HIDE DEF e
  <2>3. NoEmptier(db, o.db) \/ (o \in One(e, r) /\ t(db, k) = "set")
    BY <2>1, OnTypeNoEmptier
  <2>4. o \in One(e, r) => o.db = e
    BY OneOutcome
  <2> QED BY <2>2, <2>3, <2>4
<1>6. CASE c.op = "Del"
  <2>1. \E r : o \in One(del(db, k), r)
    BY <1>6 DEF Method, Del
  <2> QED BY <1>1, <1>6, <2>1, GoneNoEmptier, OneOutcome
<1>7. CASE c.op = "FlushDB"
  BY <1>7, GoneNoEmptier, OneOutcome DEF Method, FlushDB
<1>8. CASE c.op \in {"List", "Members", "IsMember", "Type", "Exists", "Keys"}
  <2>1. \E r : o \in One(db, r)
    BY <1>8 DEF Method, List, Members, IsMember, Type, Exists, Keys, OnList, OnSet
  <2> QED BY <2>1, AnswersNoEmptier
<1> QED BY <1>2, <1>3, <1>4, <1>5, <1>6, <1>7, <1>8 DEF DirectMethods
-----------------------------------------------------------------------------
(* RENAME and MOVE carry one value along. *)

\* A key that does not exist gets the entries of one that does.
LEMMA CopyBecomes ==
    ASSUME NEW db \in RedisDB, NEW k \in Key, NEW d \in RedisDB, NEW j \in Key, NEW e,
           e = [bump(d, j, 1) EXCEPT !.keys[j] = db.keys[k], !.listKeys[j] = db.listKeys[k],
                                     !.setKeys[j] = db.setKeys[k]]
    PROVE  Becomes(d, e, j, db.keys[k], db.listKeys[k], db.setKeys[k])
<1> DEFINE b == bump(d, j, 1)
           v == d.keyVersion[j] + 1
<1>0. e = [b EXCEPT !.keys[j] = db.keys[k], !.listKeys[j] = db.listKeys[k],
                    !.setKeys[j] = db.setKeys[k]]
  OBVIOUS
<1>1. Puts(d, b, j, d.keys[j], d.listKeys[j], d.setKeys[j], v)
  BY PutOne
<1>2. b \in RedisDB
  BY <1>1 DEF Puts
<1>3. b.keyVersion[j] = v
  BY <1>1, PutEntries
<1> HIDE DEF b
<1>4. Puts(b, e, j, db.keys[k], db.listKeys[k], db.setKeys[k], b.keyVersion[j])
  BY <1>0, <1>2, PutMoved, DbEntries
<1>5. Puts(d, e, j, db.keys[k], db.listKeys[k], db.setKeys[k], v)
  BY <1>1, <1>3, <1>4, PutTwice
<1>6. v \in Nat
  BY DbEntries
<1> HIDE DEF v
<1> QED BY <1>5, <1>6 DEF Becomes

\* The receiving database of MOVE.
LEMMA ReceivedBecomes ==
    ASSUME NEW db \in RedisDB, Agree(db), NEW to \in RedisDB, Agree(to), NEW k \in Key,
           moves(db, k, to)
    PROVE  Becomes(to, received(db, k, to), k, db.keys[k], db.listKeys[k], db.setKeys[k])
<1>1. exists(db, k) /\ ~exists(to, k)
  BY DEF moves
<1>2. to.listKeys[k] = Nil /\ to.setKeys[k] = Nil
  BY <1>1, NoEntries
<1> DEFINE b == bump(to, k, 1)
<1>3. b.listKeys[k] = Nil /\ b.setKeys[k] = Nil
  <2>1. Puts(to, b, k, to.keys[k], to.listKeys[k], to.setKeys[k], to.keyVersion[k] + 1)
    BY PutOne
  <2> HIDE DEF b
  <2> QED BY <1>2, <2>1, PutEntries
<1>4. received(db, k, to)
         = [b EXCEPT !.keys[k] = db.keys[k],
                     !.listKeys[k] = IF t(db, k) = "list" THEN db.listKeys[k] ELSE b.listKeys[k],
                     !.setKeys[k] = IF t(db, k) = "set" THEN db.setKeys[k] ELSE b.setKeys[k]]
  BY DEF received
<1>5. /\ (IF t(db, k) = "list" THEN db.listKeys[k] ELSE b.listKeys[k]) = db.listKeys[k]
      /\ (IF t(db, k) = "set" THEN db.setKeys[k] ELSE b.setKeys[k]) = db.setKeys[k]
  BY <1>1, <1>3, MovedEntries
<1>6. received(db, k, to)
         = [b EXCEPT !.keys[k] = db.keys[k], !.listKeys[k] = db.listKeys[k],
                     !.setKeys[k] = db.setKeys[k]]
  BY <1>4, <1>5
<1> QED BY <1>6, CopyBecomes

\* rename: the target has the entries the source had, the source has none.
LEMMA RenameValues ==
    ASSUME NEW db \in RedisDB, Agree(db), NEW from \in Key, NEW to \in Key,
           exists(db, from), ~renamePanics(db, from, to)
    PROVE  LET e == rename(db, from, to) IN
           /\ from # to
           /\ e.keys[to] = db.keys[from] /\ e.listKeys[to] = db.listKeys[from]
           /\ e.setKeys[to] = db.setKeys[from]
           /\ e.listKeys[from] = Nil /\ e.setKeys[from] = Nil /\ e.keys[from] = Untyped
           /\ \A j \in Key \ {from, to} : Same(db, e, j)
<1> DEFINE d == del(db, to)
           b == bump(d, to, 1)
           e == [b EXCEPT !.keys[to] = d.keys[from], !.listKeys[to] = d.listKeys[from],
                          !.setKeys[to] = d.setKeys[from]]
           f == del(e, from)
<1>1. Touches(db, d, {to}) /\ ~exists(d, to) /\ exists(d, from)
  BY DelTouches DEF renamePanics
<1>2. d \in RedisDB /\ Agree(d) /\ from # to /\ \A j \in Key \ {to} : Same(db, d, j)
  BY <1>1, DelTouches DEF Touches
<1> HIDE DEF d
<1>3. d.listKeys[to] = Nil /\ d.setKeys[to] = Nil
  BY <1>1, <1>2, NoEntries
<1>4. b.listKeys[to] = Nil /\ b.setKeys[to] = Nil
  <2>1. Puts(d, b, to, d.keys[to], d.listKeys[to], d.setKeys[to], d.keyVersion[to] + 1)
    BY <1>2, PutOne
  <2> HIDE DEF b
  <2> QED BY <1>2, <1>3, <2>1, PutEntries
<1>5. /\ (IF t(d, from) = "list" THEN d.listKeys[from] ELSE b.listKeys[to]) = d.listKeys[from]
      /\ (IF t(d, from) = "set" THEN d.setKeys[from] ELSE b.setKeys[to]) = d.setKeys[from]
  BY <1>1, <1>2, <1>4, MovedEntries
<1>6. rename(db, from, to)
        = del([b EXCEPT
                 !.keys[to]     = d.keys[from],
                 !.listKeys[to] = IF t(d, from) = "list" THEN d.listKeys[from] ELSE b.listKeys[to],
                 !.setKeys[to]  = IF t(d, from) = "set" THEN d.setKeys[from] ELSE b.setKeys[to]],
              from)
  BY DEF rename, d
<1>7. rename(db, from, to) = f
  BY <1>5, <1>6
<1>8. Becomes(d, e, to, d.keys[from], d.listKeys[from], d.setKeys[from])
  BY <1>2, CopyBecomes
<1>9. Touches(d, e, {to})
  BY <1>1, <1>2, CopyTouches
<1> HIDE DEF e
<1>10. /\ e \in RedisDB /\ e.keys[to] = d.keys[from] /\ e.listKeys[to] = d.listKeys[from]
       /\ e.setKeys[to] = d.setKeys[from] /\ \A j \in Key \ {to} : Same(d, e, j)
  BY <1>2, <1>8, BecomesEntries
<1>11. Becomes(e, f, from, Untyped, Nil, Nil)
  BY <1>9, DelBecomes DEF Touches
<1> HIDE DEF f
<1>12. /\ f.keys[from] = Untyped /\ f.listKeys[from] = Nil /\ f.setKeys[from] = Nil
       /\ \A j \in Key \ {from} : Same(e, f, j)
  BY <1>10, <1>11, BecomesEntries
<1>13. Same(db, d, from) /\ Same(e, f, to)
  BY <1>2, <1>12
<1>14. \A j \in Key \ {from, to} : Same(db, f, j)
  BY <1>2, <1>10, <1>12 DEF Same
<1> QED BY <1>2, <1>7, <1>10, <1>12, <1>13, <1>14 DEF Same

\* One element leaves a finite set for another one.
LEMMA Exchanged ==
    ASSUME NEW E, IsFiniteSet(E), NEW F, NEW p, NEW q, F \subseteq (E \ {p}) \cup {q},
           q \in F => p \in E
    PROVE  Cardinality(F) <= Cardinality(E)
<1>1. CASE q \notin F
  <2>1. F \in SUBSET E
    BY <1>1
  <2> QED BY <2>1, FS_Subset
<1>2. CASE q \in F
  <2> DEFINE G == E \ {p}
             H == G \cup {q}
  <2>0. p \in E /\ Cardinality(E) \in Nat
    BY <1>2, FS_CardinalityType
  <2>1. IsFiniteSet(G) /\ Cardinality(G) = Cardinality(E) - 1
    BY <2>0, FS_RemoveElement
  <2> HIDE DEF G
  <2>2. /\ IsFiniteSet(H)
        /\ Cardinality(H) = IF q \in G THEN Cardinality(G) ELSE Cardinality(G) + 1
    BY <2>1, FS_AddElement
  <2>3. Cardinality(H) <= Cardinality(E) /\ Cardinality(H) \in Nat
    BY <2>0, <2>1, <2>2, FS_CardinalityType
  <2>4. F \in SUBSET H
    BY DEF G
  <2> HIDE DEF H
  <2>5. IsFiniteSet(F) /\ Cardinality(F) <= Cardinality(H)
    BY <2>2, <2>4, FS_Subset
  <2>6. Cardinality(F) \in Nat
    BY <2>5, FS_CardinalityType
  <2> QED BY <2>0, <2>3, <2>5, <2>6
<1> QED BY <1>1, <1>2
\* The empty lists are finitely many.
LEMMA EmptyListsFinite ==
    ASSUME NEW ds
    PROVE  IsFiniteSet(EmptyLists(ds))
<1>1. IsFiniteSet(DB \X Key)
  BY FS_Product, KeyAssumption, DBAssumption
<1>2. EmptyLists(ds) \in SUBSET (DB \X Key)
  BY DEF EmptyLists
<1> QED BY <1>1, <1>2, FS_Subset

\* Databases without new empty lists.
LEMMA NoEmptierCounts ==
    ASSUME NEW ds, NEW es, \A d \in DB : NoEmptier(ds[d], es[d])
    PROVE  Cardinality(EmptyLists(es)) <= Cardinality(EmptyLists(ds))
<1>1. EmptyLists(es) \in SUBSET EmptyLists(ds)
  BY DEF EmptyLists, NoEmptier
<1> QED BY <1>1, EmptyListsFinite, FS_Subset

\* A value that is carried from one place to another.
LEMMA CarriedCounts ==
    ASSUME NEW ds, NEW es, NEW d1 \in DB, NEW k1 \in Key, NEW d2 \in DB, NEW k2 \in Key,
           es[d1].listKeys[k1] = Nil,
           es[d2].listKeys[k2] = ds[d1].listKeys[k1],
           \A d \in DB, k \in Key :
              \/ (d = d1 /\ k = k1) \/ (d = d2 /\ k = k2)
              \/ es[d].listKeys[k] = ds[d].listKeys[k]
    PROVE  Cardinality(EmptyLists(es)) <= Cardinality(EmptyLists(ds))
<1> DEFINE E == EmptyLists(ds)
           F == EmptyLists(es)
           p == <<d1, k1>>
           q == <<d2, k2>>
<1>1. F \subseteq (E \ {p}) \cup {q}
  <2> SUFFICES ASSUME NEW x \in F, x # q PROVE x \in E /\ x # p
    OBVIOUS
  <2>1. PICK d \in DB, k \in Key : x = <<d, k>>
    BY DEF EmptyLists
  <2>2. es[d].listKeys[k] = <<>>
    BY <2>1 DEF EmptyLists
  <2>3. ~(d = d1 /\ k = k1) /\ ~(d = d2 /\ k = k2)
    BY <2>1, <2>2, NilNotEmpty
  <2>4. ds[d].listKeys[k] = <<>>
    BY <2>2, <2>3
  <2> QED BY <2>1, <2>3, <2>4 DEF EmptyLists
<1>2. q \in F => p \in E
  BY DEF EmptyLists
<1>3. IsFiniteSet(E)
  BY EmptyListsFinite
<1> HIDE DEF E, F, p, q
<1>4. Cardinality(F) <= Cardinality(E)
  BY <1>1, <1>2, <1>3, Exchanged
<1> QED BY <1>4 DEF E, F

\* No outcome of a command or method has more empty lists, but that of a Push of nothing.
LEMMA OutcomeEmptyLists ==
    ASSUME NEW c \in Commands, NEW sel \in DB, NEW ds, Sound(ds), NEW o \in Possible(c, sel, ds),
           c.op = "Push" => c.vals # <<>>
    PROVE  Cardinality(EmptyLists(o.dbs)) <= Cardinality(EmptyLists(ds))
<1>0. ds[sel] \in RedisDB /\ Agree(ds[sel]) /\ ds \in [DB -> RedisDB]
  BY DEF Sound
<1>1. ASSUME NEW e, NoEmptier(ds[sel], e), o.dbs = [ds EXCEPT ![sel] = e]
      PROVE  Cardinality(EmptyLists(o.dbs)) <= Cardinality(EmptyLists(ds))
  <2>1. \A d \in DB : NoEmptier(ds[d], o.dbs[d])
    BY <1>0, <1>1 DEF NoEmptier
  <2> QED BY <2>1, NoEmptierCounts
<1>2. CASE c.op \in {"FlushAll", "FLUSHALL"}
  <2>1. o.dbs = flushAll(ds)
    BY <1>2 DEF Possible, MethodOutcomes, Outcomes, DirectMethods
  <2>2. \A d \in DB : o.dbs[d] = flush(ds[d])
    BY <2>1 DEF flushAll
  <2>3. \A d \in DB : NoEmptier(ds[d], o.dbs[d])
    BY <2>2, GoneNoEmptier DEF Sound
  <2> QED BY <2>3, NoEmptierCounts
<1>3. CASE c.op \in DirectMethods \ {"FlushAll"}
  <2>1. PICK p \in Method(c, ds[sel]) : o = [dbs |-> [ds EXCEPT ![sel] = p.db], reply |-> p.reply]
    BY <1>3 DEF Possible, MethodOutcomes
  <2>2. NoEmptier(ds[sel], p.db)
    BY <1>0, <1>3, <2>1, MethodNoEmptier
  <2> QED BY <1>1, <2>1, <2>2
<1>4. CASE c.op = "MOVE"
  <2>1. o \in cbMove(c, sel, ds)
    BY <1>4 DEF Possible, DirectMethods, Outcomes
  <2>2. K(c) \in Key /\ c.n \in DB
    BY <1>4, FirstKey DEF Keyless, Commands
  <2>3. CASE sel = c.n \/ ~moves(ds[sel], K(c), ds[c.n])
    <3>1. o.dbs = ds
      BY <2>1, <2>3 DEF cbMove
    <3> QED BY <3>1, NoEmptierCounts DEF NoEmptier
  <2>4. CASE sel # c.n /\ moves(ds[sel], K(c), ds[c.n])
    <3> DEFINE x == received(ds[sel], K(c), ds[c.n])
               y == del(ds[sel], K(c))
    <3>1. o.dbs = [ds EXCEPT ![c.n] = x, ![sel] = y]
      BY <1>0, <2>1, <2>2, <2>4 DEF cbMove
    <3>2. o.dbs[c.n] = x /\ o.dbs[sel] = y /\ \A d \in DB \ {sel, c.n} : o.dbs[d] = ds[d]
      BY <1>0, <2>2, <2>4, <3>1
    <3>3. ds[c.n] \in RedisDB /\ Agree(ds[c.n])
      BY <2>2 DEF Sound
    <3>4. Becomes(ds[c.n], x, K(c), ds[sel].keys[K(c)], ds[sel].listKeys[K(c)], ds[sel].setKeys[K(c)])
      BY <1>0, <2>2, <2>4, <3>3, ReceivedBecomes
    <3>5. Becomes(ds[sel], y, K(c), Untyped, Nil, Nil)
      BY <1>0, <2>2, DelBecomes
    <3> HIDE DEF x, y
    <3>6. x.listKeys[K(c)] = ds[sel].listKeys[K(c)] /\ \A j \in Key \ {K(c)} : Same(ds[c.n], x, j)
      BY <2>2, <3>3, <3>4, BecomesEntries
    <3>7. y.listKeys[K(c)] = Nil /\ \A j \in Key \ {K(c)} : Same(ds[sel], y, j)
      BY <1>0, <2>2, <3>5, BecomesEntries
    <3>8. \A d \in DB, k \in Key : \/ (d = sel /\ k = K(c)) \/ (d = c.n /\ k = K(c))
                                   \/ o.dbs[d].listKeys[k] = ds[d].listKeys[k]
      BY <3>2, <3>6, <3>7 DEF Same
    <3>9. /\ o.dbs[sel].listKeys[K(c)] = Nil
          /\ o.dbs[c.n].listKeys[K(c)] = ds[sel].listKeys[K(c)]
      BY <3>2, <3>6, <3>7
    <3> DEFINE es == o.dbs
               k1 == K(c)
               d2 == c.n
    <3>10. /\ k1 \in Key /\ d2 \in DB
           /\ es[sel].listKeys[k1] = Nil /\ es[d2].listKeys[k1] = ds[sel].listKeys[k1]
           /\ \A d \in DB, k \in Key : \/ (d = sel /\ k = k1) \/ (d = d2 /\ k = k1)
                                       \/ es[d].listKeys[k] = ds[d].listKeys[k]
      BY <2>2, <3>8, <3>9
    <3> HIDE DEF es, k1, d2
    <3>11. Cardinality(EmptyLists(es)) <= Cardinality(EmptyLists(ds))
      BY <3>10, CarriedCounts
    <3> QED BY <3>11 DEF es
  <2> QED BY <2>3, <2>4
<1>5. CASE c.op \notin DirectMethods \cup {"MOVE", "FLUSHALL"}
  <2>1. PICK p \in Callback(c, ds[sel]) : o = [dbs |-> [ds EXCEPT ![sel] = p.db], reply |-> p.reply]
    BY <1>5 DEF Possible, Outcomes
  <2>2. CASE c.op \notin {"RENAME", "RENAMENX"}
    <3>1. NoEmptier(ds[sel], p.db)
      BY <1>0, <2>1, <2>2, CallbackNoEmptier
    <3> QED BY <1>1, <2>1, <3>1
  <2>3. CASE c.op \in {"RENAME", "RENAMENX"}
    <3> DEFINE from == c.keys[1]
               to   == c.keys[2]
               e    == rename(ds[sel], from, to)
    <3>1. from \in Key /\ to \in Key
      BY <2>3, FirstKey DEF Keyless, TwoKeys, K
    <3>2. \E r : \/ p \in One(ds[sel], r)
                 \/ /\ exists(ds[sel], from) /\ ~renamePanics(ds[sel], from, to)
                    /\ p \in One(e, r)
      BY <2>3 DEF Callback, cbRename
    <3>3. CASE \E r : p \in One(ds[sel], r)
      <4>1. NoEmptier(ds[sel], p.db)
        BY <3>3, AnswersNoEmptier
      <4> QED BY <1>1, <2>1, <4>1
    <3>4. CASE /\ exists(ds[sel], from) /\ ~renamePanics(ds[sel], from, to)
               /\ \E r : p \in One(e, r)
      <4>1. p.db = e
        BY <3>4, OneOutcome
      <4>2. /\ e.listKeys[to] = ds[sel].listKeys[from] /\ e.listKeys[from] = Nil
            /\ \A j \in Key \ {from, to} : Same(ds[sel], e, j)
        <5> HIDE DEF from, to
        <5> QED BY <1>0, <3>1, <3>4, RenameValues
      <4> HIDE DEF e, from, to
      <4>3. o.dbs[sel] = e /\ \A d \in DB \ {sel} : o.dbs[d] = ds[d]
        BY <1>0, <2>1, <4>1
      <4>4. \A d \in DB, k \in Key : \/ (d = sel /\ k = from) \/ (d = sel /\ k = to)
                                     \/ o.dbs[d].listKeys[k] = ds[d].listKeys[k]
        BY <4>2, <4>3 DEF Same
      <4> QED BY <3>1, <4>2, <4>3, <4>4, CarriedCounts
    <3> QED BY <3>2, <3>3, <3>4
  <2> QED BY <2>2, <2>3
<1> QED BY <1>2, <1>3, <1>4, <1>5

\* No command leaves a new empty list behind: not a pop of the last element, nor an LREM
\* or LTRIM of all of them, nor a rename or move of an empty list.
THEOREM NoneEmptier == Spec => []NoNewEmptyList
<1>1. IInv => NoNewEmptyList
  <2> SUFFICES ASSUME IInv, last # NoneYet, ~(Ran({"Push"}) /\ last.cmd.vals = <<>>)
               PROVE  Cardinality(EmptyLists(dbs)) <= Cardinality(EmptyLists(last.pre))
    BY DEF NoNewEmptyList
  <2> DEFINE o == [dbs |-> dbs, reply |-> last.reply]
  <2>1. /\ last.cmd \in Commands /\ last.sel \in DB /\ Sound(last.pre)
        /\ o \in Possible(last.cmd, last.sel, last.pre)
    BY DEF IInv, History, Explained
  <2>2. last.cmd.op = "Push" => last.cmd.vals # <<>>
    BY DEF Ran
  <2>3. o.dbs = dbs
    OBVIOUS
  <2> HIDE DEF o
  <2> QED BY <2>1, <2>2, <2>3, OutcomeEmptyLists
<1> QED BY <1>1, Invariance, PTL
-----------------------------------------------------------------------------
(* Counting the occurrences of a value. *)

\* A finite set and its image under a one-to-one map have the same number of elements.
LEMMA CountedTwice ==
    ASSUME NEW S, IsFiniteSet(S), NEW T, NEW f \in [S -> T],
           \A x, y \in S : f[x] = f[y] => x = y, \A y \in T : \E x \in S : f[x] = y
    PROVE  Cardinality(T) = Cardinality(S)
<1>1. f \in Bijection(S, T)
  BY DEF Bijection, Injection, Surjection, IsInjective
<1>2. ExistsBijection(S, T)
  BY <1>1 DEF ExistsBijection
<1> QED BY <1>2, FS_Bijection

\* The image of a finite set is finite.
LEMMA FiniteImage ==
    ASSUME NEW S, IsFiniteSet(S), NEW T, NEW f \in [S -> T], \A y \in T : \E x \in S : f[x] = y
    PROVE  IsFiniteSet(T)
<1>1. f \in Surjection(S, T)
  BY DEF Surjection
<1> QED BY <1>1, FS_Surjection

\* The places of a value are triples of a database, a key and a position.
LEMMA InPlaces ==
    ASSUME NEW v, NEW ds
    PROVE  /\ \A d \in DB, k \in Key : \A i :
                 <<d, k, i>> \in Places(v, ds) <=> i \in PlacesAt(v, ds[d], k)
           /\ \A x \in Places(v, ds) : \E d \in DB, k \in Key :
                 \E i \in PlacesAt(v, ds[d], k) : x = <<d, k, i>>
<1>1. ASSUME NEW d \in DB, NEW k \in Key, NEW i \in PlacesAt(v, ds[d], k)
      PROVE  <<d, k, i>> \in Places(v, ds)
  <2> DEFINE T == {<<d, k, j>> : j \in PlacesAt(v, ds[d], k)}
  <2>1. <<d, k, i>> \in T
    OBVIOUS
  <2>2. T \in {{<<x, y, j>> : j \in PlacesAt(v, ds[x], y)} : x \in DB, y \in Key}
    OBVIOUS
  <2> HIDE DEF T
  <2> QED BY <2>1, <2>2 DEF Places
<1>2. ASSUME NEW x \in Places(v, ds)
      PROVE  \E d \in DB, k \in Key : \E i \in PlacesAt(v, ds[d], k) : x = <<d, k, i>>
  BY DEF Places
<1>3. ASSUME NEW d \in DB, NEW k \in Key, NEW i, <<d, k, i>> \in Places(v, ds)
      PROVE  i \in PlacesAt(v, ds[d], k)
  <2>1. PICK d2 \in DB, k2 \in Key : \E j \in PlacesAt(v, ds[d2], k2) : <<d, k, i>> = <<d2, k2, j>>
    BY <1>2, <1>3
  <2> QED BY <2>1
<1> QED BY <1>1, <1>2, <1>3

\* The positions of a value under a key.
LEMMA InPlacesAt ==
    ASSUME NEW v, NEW db \in RedisDB, NEW k \in Key, NEW i
    PROVE  i \in PlacesAt(v, db, k) <=>
              \/ i \in 1..Len(listAt(db, k)) /\ listAt(db, k)[i] = v
              \/ i = 0 /\ v \in setAt(db, k)
<1>1. DOMAIN listAt(db, k) = 1..Len(listAt(db, k))
  BY ListAtType, LenProperties
<1> QED BY <1>1 DEF PlacesAt

\* A value is in finitely many positions under a key.
LEMMA PlacesAtFinite ==
    ASSUME NEW v, NEW db \in RedisDB, NEW k \in Key
    PROVE  IsFiniteSet(PlacesAt(v, db, k))
<1> DEFINE n == Len(listAt(db, k))
<1>1. n \in Nat
  BY ListAtType, LenProperties
<1>2. PlacesAt(v, db, k) \in SUBSET (0..n)
  BY <1>1, InPlacesAt
<1> HIDE DEF n
<1> DEFINE I == 0..n
<1>3. IsFiniteSet(I)
  BY <1>1, FS_Interval
<1> HIDE DEF I
<1> QED BY <1>2, <1>3, FS_Subset DEF I

\* A value is in finitely many places.
LEMMA PlacesFinite ==
    ASSUME NEW v, NEW ds \in [DB -> RedisDB]
    PROVE  IsFiniteSet(Places(v, ds))
<1> DEFINE At(p) == {<<p[1], p[2], i>> : i \in PlacesAt(v, ds[p[1]], p[2])}
           U == {{<<d, k, i>> : i \in PlacesAt(v, ds[d], k)} : d \in DB, k \in Key}
           f == [p \in DB \X Key |-> At(p)]
<1>1. IsFiniteSet(DB \X Key)
  BY FS_Product, KeyAssumption, DBAssumption
<1>2. ASSUME NEW T \in U PROVE IsFiniteSet(T)
  <2>1. PICK d \in DB, k \in Key : T = {<<d, k, i>> : i \in PlacesAt(v, ds[d], k)}
    OBVIOUS
  <2> DEFINE S == PlacesAt(v, ds[d], k)
             g == [i \in S |-> <<d, k, i>>]
  <2>2. IsFiniteSet(S)
    BY PlacesAtFinite
  <2>3. g \in [S -> T] /\ \A y \in T : \E x \in S : g[x] = y
    BY <2>1
  <2> HIDE DEF S, g
  <2> QED BY <2>2, <2>3, FiniteImage
<1>3. f \in [DB \X Key -> U]
  OBVIOUS
<1>4. ASSUME NEW T \in U PROVE \E p \in DB \X Key : f[p] = T
  <2>1. PICK d \in DB, k \in Key : T = {<<d, k, i>> : i \in PlacesAt(v, ds[d], k)}
    OBVIOUS
  <2>2. <<d, k>> \in DB \X Key /\ f[<<d, k>>] = T
    BY <2>1
  <2> QED BY <2>2
<1> HIDE DEF f, U
<1>5. IsFiniteSet(U)
  BY <1>1, <1>3, <1>4, FiniteImage
<1>6. IsFiniteSet(UNION U)
  BY <1>2, <1>5, FS_UNION
<1> QED BY <1>6 DEF Places, U

\* The value of one key in one database is the same.
SameValue(ds, es, d, k) ==
    listAt(es[d], k) = listAt(ds[d], k) /\ setAt(es[d], k) = setAt(ds[d], k)

\* The same values, at every other key.
OnlyAt(ds, es, d1, k1) ==
    \A d \in DB, k \in Key : (d = d1 /\ k = k1) \/ SameValue(ds, es, d, k)

\* How often v occurs in {x}.
LEMMA OnceOrNot ==
    ASSUME NEW v, NEW x
    PROVE  Cardinality({x} \cap {v}) = IF x = v THEN 1 ELSE 0
<1>1. CASE x = v
  <2>1. {x} \cap {v} = {x}
    BY <1>1
  <2> QED BY <1>1, <2>1, FS_Singleton
<1>2. CASE x # v
  <2>1. {x} \cap {v} = {}
    BY <1>2
  <2> QED BY <1>2, <2>1, FS_EmptySet
<1> QED BY <1>1, <1>2

\* x occurs once more, or is another value.
LEMMA OneMore ==
    ASSUME NEW v, NEW x, NEW S, IsFiniteSet(S), NEW p, p \notin S, NEW T,
           x = v => T = S \cup {p}, x # v => T = S
    PROVE  Cardinality(T) = Cardinality(S) + (IF x = v THEN 1 ELSE 0)
<1>1. CASE x = v
  <2>1. Cardinality(S \cup {p}) = Cardinality(S) + 1
    BY FS_AddElement
  <2> QED BY <1>1, <2>1
<1>2. CASE x # v
  BY <1>2, FS_CardinalityType
<1> QED BY <1>1, <1>2

\* The elements of a list with one more at its left or right end.
LEMMA OneLonger ==
    ASSUME NEW r \in Seq(Val), NEW el \in Val
    PROVE  /\ Len(<<el>> \o r) = Len(r) + 1 /\ (<<el>> \o r)[1] = el
           /\ \A i \in 1..Len(r) : (<<el>> \o r)[i + 1] = r[i]
           /\ Len(Append(r, el)) = Len(r) + 1 /\ Append(r, el)[Len(r) + 1] = el
           /\ \A i \in 1..Len(r) : Append(r, el)[i] = r[i]
           /\ Len(r) \in Nat
<1>1. <<el>> \in Seq(Val) /\ Len(<<el>>) = 1 /\ <<el>>[1] = el
  OBVIOUS
<1>2. Len(r) \in Nat
  BY LenProperties
<1> DEFINE s == <<el>> \o r
<1>3. Len(s) = 1 + Len(r) /\ \A i \in 1..(1 + Len(r)) : s[i] = IF i <= 1 THEN <<el>>[i] ELSE r[i - 1]
  BY <1>1, ConcatProperties
<1> HIDE DEF s
<1>4. Len(s) = Len(r) + 1 /\ s[1] = el /\ \A i \in 1..Len(r) : s[i + 1] = r[i]
  BY <1>1, <1>2, <1>3
<1> QED BY <1>2, <1>4, AppendProperties DEF s

\* A value at the left end of one list: the positions of the others shift by one.
LEMMA CountedAtHead ==
    ASSUME NEW v, NEW el \in Val, NEW ds \in [DB -> RedisDB], NEW es \in [DB -> RedisDB],
           NEW d1 \in DB, NEW k1 \in Key, OnlyAt(ds, es, d1, k1),
           listAt(ds[d1], k1) = <<el>> \o listAt(es[d1], k1),
           setAt(ds[d1], k1) = setAt(es[d1], k1)
    PROVE  Occurs(v, ds) = Occurs(v, es) + Cardinality({el} \cap {v})
<1> DEFINE A == Places(v, ds)
           S == Places(v, es)
           p == <<d1, k1, 1>>
           T == A \ {p}
           f == [x \in S |-> IF x[1] = d1 /\ x[2] = k1 /\ x[3] # 0 THEN <<d1, k1, x[3] + 1>>
                             ELSE x]
           r == listAt(es[d1], k1)
           l == listAt(ds[d1], k1)
<1>1. /\ r \in Seq(Val) /\ Len(r) \in Nat /\ Len(l) = Len(r) + 1 /\ l[1] = el
      /\ \A i \in 1..Len(r) : l[i + 1] = r[i]
  BY ListAtType, OneLonger
<1>2. \A i : /\ i \in PlacesAt(v, es[d1], k1) <=>
                   (i \in 1..Len(r) /\ r[i] = v) \/ (i = 0 /\ v \in setAt(es[d1], k1))
             /\ i \in PlacesAt(v, ds[d1], k1) <=>
                   (i \in 1..Len(l) /\ l[i] = v) \/ (i = 0 /\ v \in setAt(es[d1], k1))
  <2>1. es[d1] \in RedisDB /\ ds[d1] \in RedisDB
    OBVIOUS
  <2> QED BY <2>1, InPlacesAt
<1> HIDE DEF r, l
<1>3. \A i : /\ i \in PlacesAt(v, es[d1], k1) => i \in Nat
             /\ i \in PlacesAt(v, es[d1], k1) /\ i # 0 => i + 1 \in PlacesAt(v, ds[d1], k1)
             /\ i \in PlacesAt(v, ds[d1], k1) /\ i \notin {0, 1} =>
                   i - 1 \in PlacesAt(v, es[d1], k1) /\ i - 1 # 0 /\ (i - 1) + 1 = i
             /\ 0 \in PlacesAt(v, es[d1], k1) <=> 0 \in PlacesAt(v, ds[d1], k1)
             /\ 1 \in PlacesAt(v, ds[d1], k1) <=> el = v
  <2> DEFINE P == PlacesAt(v, es[d1], k1)
             Q == PlacesAt(v, ds[d1], k1)
             b == v \in setAt(es[d1], k1)
  <2>1. /\ \A i : i \in P <=> (i \in 1..Len(r) /\ r[i] = v) \/ (i = 0 /\ b)
        /\ \A i : i \in Q <=> (i \in 1..Len(l) /\ l[i] = v) \/ (i = 0 /\ b)
    BY <1>2
  <2> HIDE DEF P, Q, b
  <2>2. ASSUME NEW i PROVE i \in P => i \in Nat
    BY <1>1, <2>1
  <2>3. ASSUME NEW i \in P, i # 0 PROVE i + 1 \in Q
    <3>1. i \in 1..Len(r) /\ r[i] = v
      BY <2>1, <2>3
    <3>2. i + 1 \in 1..Len(l) /\ l[i + 1] = v
      BY <1>1, <3>1
    <3> QED BY <2>1, <3>2
  <2>4. ASSUME NEW i \in Q, i \notin {0, 1} PROVE i - 1 \in P /\ i - 1 # 0 /\ (i - 1) + 1 = i
    <3>1. i \in 1..Len(l) /\ l[i] = v
      BY <2>1, <2>4
    <3>2. i - 1 \in 1..Len(r) /\ (i - 1) + 1 = i /\ i - 1 # 0
      BY <1>1, <2>4, <3>1
    <3>3. r[i - 1] = v
      BY <1>1, <3>1, <3>2
    <3> QED BY <2>1, <3>2, <3>3
  <2>5. 0 \in P <=> 0 \in Q
    <3>1. 0 \notin 1..Len(r) /\ 0 \notin 1..Len(l)
      BY <1>1
    <3> QED BY <2>1, <3>1
  <2>6. 1 \in Q <=> el = v
    <3>1. 1 \in 1..Len(l) /\ 1 # 0
      BY <1>1
    <3> QED BY <1>1, <2>1, <3>1
  <2> QED BY <2>2, <2>3, <2>4, <2>5, <2>6 DEF P, Q
<1>4. ASSUME NEW d \in DB, NEW k \in Key, ~(d = d1 /\ k = k1)
      PROVE  PlacesAt(v, es[d], k) = PlacesAt(v, ds[d], k)
  <2>1. SameValue(ds, es, d, k)
    BY <1>4 DEF OnlyAt
  <2> QED BY <2>1 DEF SameValue, PlacesAt
<1>5. ASSUME NEW x \in S PROVE f[x] \in T
  <2>1. PICK d \in DB, k \in Key : \E i \in PlacesAt(v, es[d], k) : x = <<d, k, i>>
    BY InPlaces
  <2>2. PICK i \in PlacesAt(v, es[d], k) : x = <<d, k, i>>
    BY <2>1
  <2>3. CASE d = d1 /\ k = k1 /\ i # 0
    <3>1. f[x] = <<d1, k1, i + 1>> /\ i + 1 \in PlacesAt(v, ds[d1], k1) /\ i + 1 # 1
      BY <1>3, <2>2, <2>3
    <3> QED BY <3>1, InPlaces
  <2>4. CASE d = d1 /\ k = k1 /\ i = 0
    <3>1. f[x] = <<d1, k1, 0>> /\ 0 \in PlacesAt(v, ds[d1], k1)
      BY <1>3, <2>2, <2>4
    <3> QED BY <3>1, InPlaces
  <2>5. CASE ~(d = d1 /\ k = k1)
    <3>1. f[x] = <<d, k, i>> /\ i \in PlacesAt(v, ds[d], k)
      BY <1>4, <2>2, <2>5
    <3> QED BY <2>5, <3>1, InPlaces
  <2> QED BY <2>3, <2>4, <2>5
<1>6. f \in [S -> T]
  BY <1>5
<1>7. ASSUME NEW x \in S, NEW y \in S, f[x] = f[y] PROVE x = y
  <2>1. PICK d \in DB, k \in Key : \E i \in PlacesAt(v, es[d], k) : x = <<d, k, i>>
    BY InPlaces
  <2>2. PICK i \in PlacesAt(v, es[d], k) : x = <<d, k, i>>
    BY <2>1
  <2>3. PICK e \in DB, j \in Key : \E n \in PlacesAt(v, es[e], j) : y = <<e, j, n>>
    BY InPlaces
  <2>4. PICK n \in PlacesAt(v, es[e], j) : y = <<e, j, n>>
    BY <2>3
  <2>5. /\ f[x] = IF d = d1 /\ k = k1 /\ i # 0 THEN <<d1, k1, i + 1>> ELSE <<d, k, i>>
        /\ f[y] = IF e = d1 /\ j = k1 /\ n # 0 THEN <<d1, k1, n + 1>> ELSE <<e, j, n>>
    BY <2>2, <2>4
  <2>6. d = e /\ k = j
    BY <1>7, <2>5
  <2>7. CASE d = d1 /\ k = k1
    BY <1>3, <1>7, <2>2, <2>4, <2>5, <2>6, <2>7
  <2>8. CASE ~(d = d1 /\ k = k1)
    BY <1>7, <2>2, <2>4, <2>5, <2>6, <2>8
  <2> QED BY <2>7, <2>8
<1>8. ASSUME NEW y \in T PROVE \E x \in S : f[x] = y
  <2>1. PICK d \in DB, k \in Key : \E i \in PlacesAt(v, ds[d], k) : y = <<d, k, i>>
    BY InPlaces
  <2>2. PICK i \in PlacesAt(v, ds[d], k) : y = <<d, k, i>>
    BY <2>1
  <2>3. CASE d = d1 /\ k = k1 /\ i # 0
    <3>1. i # 1
      BY <2>2, <2>3
    <3>2. i - 1 \in PlacesAt(v, es[d1], k1) /\ i - 1 # 0 /\ (i - 1) + 1 = i
      BY <1>3, <2>3, <3>1
    <3>3. <<d1, k1, i - 1>> \in S
      BY <3>2, InPlaces
    <3>4. f[<<d1, k1, i - 1>>] = y
      BY <2>2, <2>3, <3>2, <3>3
    <3> QED BY <3>3, <3>4
  <2>4. CASE d = d1 /\ k = k1 /\ i = 0
    <3>1. <<d1, k1, 0>> \in S
      BY <1>3, <2>2, <2>4, InPlaces
    <3>2. f[<<d1, k1, 0>>] = y
      BY <2>2, <2>4, <3>1
    <3> QED BY <3>1, <3>2
  <2>5. CASE ~(d = d1 /\ k = k1)
    <3>1. <<d, k, i>> \in S
      BY <1>4, <2>5, InPlaces
    <3>2. f[<<d, k, i>>] = y
      BY <2>2, <2>5, <3>1
    <3> QED BY <3>1, <3>2
  <2> QED BY <2>3, <2>4, <2>5
<1>9. IsFiniteSet(S) /\ IsFiniteSet(A)
  BY PlacesFinite
<1>10. p \in A <=> el = v
  BY <1>3, InPlaces
<1> HIDE DEF f, S, A, p
<1>11. Cardinality(T) = Cardinality(S)
  <2> HIDE DEF T
  <2> QED BY <1>6, <1>7, <1>8, <1>9, CountedTwice
<1>12. IsFiniteSet(T) /\ p \notin T /\ (el = v => A = T \cup {p}) /\ (el # v => A = T)
  <2>1. IsFiniteSet(T)
    BY <1>9, FS_Subset
  <2>2. CASE el = v
    BY <1>10, <2>1, <2>2
  <2>3. CASE el # v
    BY <1>10, <2>1, <2>3
  <2> QED BY <2>2, <2>3
<1> HIDE DEF T
<1>13. Cardinality(A) = Cardinality(T) + (IF el = v THEN 1 ELSE 0)
  BY <1>12, OneMore
<1> QED BY <1>11, <1>13, OnceOrNot DEF Occurs, A, S

\* A value at the right end of one list: the positions of the others stay.
LEMMA CountedAtLast ==
    ASSUME NEW v, NEW el \in Val, NEW ds \in [DB -> RedisDB], NEW es \in [DB -> RedisDB],
           NEW d1 \in DB, NEW k1 \in Key, OnlyAt(ds, es, d1, k1),
           listAt(ds[d1], k1) = Append(listAt(es[d1], k1), el),
           setAt(ds[d1], k1) = setAt(es[d1], k1)
    PROVE  Occurs(v, ds) = Occurs(v, es) + Cardinality({el} \cap {v})
<1> DEFINE A == Places(v, ds)
           S == Places(v, es)
           r == listAt(es[d1], k1)
           l == listAt(ds[d1], k1)
           p == <<d1, k1, Len(r) + 1>>
<1>1. /\ r \in Seq(Val) /\ Len(r) \in Nat /\ Len(l) = Len(r) + 1 /\ l[Len(r) + 1] = el
      /\ \A i \in 1..Len(r) : l[i] = r[i]
  BY ListAtType, OneLonger
<1>2. \A i : /\ i \in PlacesAt(v, es[d1], k1) <=>
                   (i \in 1..Len(r) /\ r[i] = v) \/ (i = 0 /\ v \in setAt(es[d1], k1))
             /\ i \in PlacesAt(v, ds[d1], k1) <=>
                   (i \in 1..Len(l) /\ l[i] = v) \/ (i = 0 /\ v \in setAt(es[d1], k1))
  <2>1. es[d1] \in RedisDB /\ ds[d1] \in RedisDB
    OBVIOUS
  <2> QED BY <2>1, InPlacesAt
<1> HIDE DEF r, l
<1>3. /\ \A i : i # Len(r) + 1 => (i \in PlacesAt(v, es[d1], k1) <=> i \in PlacesAt(v, ds[d1], k1))
      /\ Len(r) + 1 \notin PlacesAt(v, es[d1], k1)
      /\ Len(r) + 1 \in PlacesAt(v, ds[d1], k1) <=> el = v
  <2> DEFINE P == PlacesAt(v, es[d1], k1)
             Q == PlacesAt(v, ds[d1], k1)
             b == v \in setAt(es[d1], k1)
  <2>1. /\ \A i : i \in P <=> (i \in 1..Len(r) /\ r[i] = v) \/ (i = 0 /\ b)
        /\ \A i : i \in Q <=> (i \in 1..Len(l) /\ l[i] = v) \/ (i = 0 /\ b)
    BY <1>2
  <2> HIDE DEF P, Q, b
  <2>2. /\ Len(r) + 1 \notin 1..Len(r) /\ Len(r) + 1 \in 1..Len(l) /\ Len(r) + 1 # 0
        /\ \A i : i # Len(r) + 1 => (i \in 1..Len(r) <=> i \in 1..Len(l))
    BY <1>1
  <2>3. ASSUME NEW i, i # Len(r) + 1 PROVE i \in P <=> i \in Q
    BY <1>1, <2>1, <2>2, <2>3
  <2>4. Len(r) + 1 \notin P /\ (Len(r) + 1 \in Q <=> el = v)
    BY <1>1, <2>1, <2>2
  <2> QED BY <2>3, <2>4 DEF P, Q
<1>4. ASSUME NEW d \in DB, NEW k \in Key, ~(d = d1 /\ k = k1)
      PROVE  PlacesAt(v, es[d], k) = PlacesAt(v, ds[d], k)
  <2>1. SameValue(ds, es, d, k)
    BY <1>4 DEF OnlyAt
  <2> QED BY <2>1 DEF SameValue, PlacesAt
<1>5. ASSUME NEW x, x # p PROVE x \in A <=> x \in S
  <2>1. ASSUME NEW d \in DB, NEW k \in Key, NEW i, x = <<d, k, i>> PROVE x \in A <=> x \in S
    <3>1. i \in PlacesAt(v, es[d], k) <=> i \in PlacesAt(v, ds[d], k)
      BY <1>3, <1>4, <1>5, <2>1
    <3> QED BY <2>1, <3>1, InPlaces
  <2>2. x \in A \cup S => \E d \in DB, k \in Key : \E i : x = <<d, k, i>>
    BY InPlaces
  <2> QED BY <2>1, <2>2
<1>6. IsFiniteSet(S)
  BY PlacesFinite
<1>7. (p \in A <=> el = v) /\ p \notin S
  BY <1>3, InPlaces
<1> HIDE DEF S, A, p
<1>8. (el = v => A = S \cup {p}) /\ (el # v => A = S)
  <2>1. CASE el = v
    BY <1>5, <1>7, <2>1
  <2>2. CASE el # v
    <3>1. A \subseteq S
      BY <1>5, <1>7, <2>2
    <3>2. S \subseteq A
      BY <1>5, <1>7, <2>2
    <3> QED BY <2>2, <3>1, <3>2
  <2> QED BY <2>1, <2>2
<1>9. Cardinality(A) = Cardinality(S) + (IF el = v THEN 1 ELSE 0)
  BY <1>6, <1>7, <1>8, OneMore
<1> QED BY <1>9, OnceOrNot DEF Occurs, A, S

\* The members x leave one set.
Shrunk(ds, es, d1, k1, x) ==
    /\ OnlyAt(ds, es, d1, k1) /\ x \subseteq setAt(ds[d1], k1)
    /\ listAt(es[d1], k1) = listAt(ds[d1], k1)
    /\ setAt(es[d1], k1) = setAt(ds[d1], k1) \ x

\* Some members leave one set.
LEMMA CountedInSet ==
    ASSUME NEW v, NEW ds \in [DB -> RedisDB], NEW es \in [DB -> RedisDB],
           NEW d1 \in DB, NEW k1 \in Key, NEW x, Shrunk(ds, es, d1, k1, x)
    PROVE  Occurs(v, ds) = Occurs(v, es) + Cardinality(x \cap {v})
<1> DEFINE A == Places(v, ds)
           S == Places(v, es)
           p == <<d1, k1, 0>>
<1>0. /\ OnlyAt(ds, es, d1, k1) /\ x \subseteq setAt(ds[d1], k1)
      /\ listAt(es[d1], k1) = listAt(ds[d1], k1)
      /\ setAt(es[d1], k1) = setAt(ds[d1], k1) \ x
  BY DEF Shrunk
<1>1. /\ \A i : i # 0 => (i \in PlacesAt(v, es[d1], k1) <=> i \in PlacesAt(v, ds[d1], k1))
      /\ 0 \in PlacesAt(v, ds[d1], k1) <=> v \in setAt(ds[d1], k1)
      /\ 0 \in PlacesAt(v, es[d1], k1) <=> v \in setAt(ds[d1], k1) \ x
  <2>1. es[d1] \in RedisDB /\ ds[d1] \in RedisDB
    OBVIOUS
  <2> DEFINE l == listAt(ds[d1], k1)
             s == setAt(ds[d1], k1)
  <2>2. /\ \A i : i \in PlacesAt(v, ds[d1], k1) <=> (i \in 1..Len(l) /\ l[i] = v) \/ (i = 0 /\ v \in s)
        /\ \A i : i \in PlacesAt(v, es[d1], k1) <=> (i \in 1..Len(l) /\ l[i] = v) \/ (i = 0 /\ v \in s \ x)
    BY <1>0, <2>1, InPlacesAt
  <2>3. 0 \notin 1..Len(l)
    BY <2>1, ListAtType, LenProperties
  <2> HIDE DEF l, s
  <2> QED BY <2>2, <2>3 DEF s
<1>2. ASSUME NEW d \in DB, NEW k \in Key, ~(d = d1 /\ k = k1)
      PROVE  PlacesAt(v, es[d], k) = PlacesAt(v, ds[d], k)
  <2>1. SameValue(ds, es, d, k)
    BY <1>0, <1>2 DEF OnlyAt
  <2> QED BY <2>1 DEF SameValue, PlacesAt
<1>3. ASSUME NEW y, y # p PROVE y \in A <=> y \in S
  <2>1. ASSUME NEW d \in DB, NEW k \in Key, NEW i, y = <<d, k, i>> PROVE y \in A <=> y \in S
    <3>1. i \in PlacesAt(v, es[d], k) <=> i \in PlacesAt(v, ds[d], k)
      BY <1>1, <1>2, <1>3, <2>1
    <3> QED BY <2>1, <3>1, InPlaces
  <2>2. y \in A \cup S => \E d \in DB, k \in Key : \E i : y = <<d, k, i>>
    BY InPlaces
  <2> QED BY <2>1, <2>2
<1>4. IsFiniteSet(S) /\ Cardinality(S) \in Nat
  BY PlacesFinite, FS_CardinalityType
<1>5. (p \in A <=> v \in setAt(ds[d1], k1)) /\ (p \in S <=> v \in setAt(ds[d1], k1) \ x)
  BY <1>1, InPlaces
<1> HIDE DEF S, A, p
<1>6. CASE v \in x
  <2>1. A = S \cup {p} /\ p \notin S
    BY <1>0, <1>3, <1>5, <1>6
  <2>2. Cardinality(A) = Cardinality(S) + 1
    BY <1>4, <2>1, FS_AddElement
  <2>3. x \cap {v} = {v} /\ Cardinality({v}) = 1
    BY <1>6, FS_Singleton
  <2> QED BY <2>2, <2>3 DEF Occurs, A, S
<1>7. CASE v \notin x
  <2>1. A \subseteq S /\ S \subseteq A
    BY <1>3, <1>5, <1>7
  <2>2. x \cap {v} = {} /\ Cardinality({}) = 0
    BY <1>7, FS_EmptySet
  <2>3. A = S
    BY <2>1
  <2>4. Cardinality(A) = Cardinality(S) + Cardinality(x \cap {v})
    BY <1>4, <2>2, <2>3
  <2> QED BY <2>4 DEF Occurs, A, S
<1> QED BY <1>6, <1>7

\* The value of k1 in d1 moves to k2 in d2, which had none.
Carried(ds, es, d1, k1, d2, k2) ==
    /\ d1 # d2 \/ k1 # k2
    /\ \A d \in DB, k \in Key : \/ (d = d1 /\ k = k1) \/ (d = d2 /\ k = k2)
                                \/ SameValue(ds, es, d, k)
    /\ listAt(es[d2], k2) = listAt(ds[d1], k1) /\ setAt(es[d2], k2) = setAt(ds[d1], k1)
    /\ listAt(es[d1], k1) = <<>> /\ setAt(es[d1], k1) = {}
    /\ listAt(ds[d2], k2) = <<>> /\ setAt(ds[d2], k2) = {}

\* A value that moves is the same value.
LEMMA CountedAway ==
    ASSUME NEW v, NEW ds \in [DB -> RedisDB], NEW es \in [DB -> RedisDB],
           NEW d1 \in DB, NEW k1 \in Key, NEW d2 \in DB, NEW k2 \in Key,
           Carried(ds, es, d1, k1, d2, k2)
    PROVE  Occurs(v, es) = Occurs(v, ds)
<1>0. d1 # d2 \/ k1 # k2
  BY DEF Carried
<1> DEFINE S == Places(v, ds)
           T == Places(v, es)
           f == [x \in S |-> IF x[1] = d1 /\ x[2] = k1 THEN <<d2, k2, x[3]>> ELSE x]
<1>1. PlacesAt(v, es[d2], k2) = PlacesAt(v, ds[d1], k1)
  BY DEF PlacesAt, Carried
<1>2. PlacesAt(v, es[d1], k1) = {} /\ PlacesAt(v, ds[d2], k2) = {}
  BY DEF PlacesAt, Carried
<1>3. ASSUME NEW d \in DB, NEW k \in Key, ~(d = d1 /\ k = k1), ~(d = d2 /\ k = k2)
      PROVE  PlacesAt(v, es[d], k) = PlacesAt(v, ds[d], k)
  <2>1. SameValue(ds, es, d, k)
    BY <1>3 DEF Carried
  <2> QED BY <2>1 DEF SameValue, PlacesAt
<1>4. ASSUME NEW x \in S
      PROVE  /\ f[x] \in T
             /\ \E d \in DB, k \in Key : \E i : 
                   /\ x = <<d, k, i>> /\ ~(d = d2 /\ k = k2)
                   /\ f[x] = IF d = d1 /\ k = k1 THEN <<d2, k2, i>> ELSE <<d, k, i>>
  <2>1. PICK d \in DB, k \in Key : \E i \in PlacesAt(v, ds[d], k) : x = <<d, k, i>>
    BY InPlaces
  <2>2. PICK i \in PlacesAt(v, ds[d], k) : x = <<d, k, i>>
    BY <2>1
  <2>3. ~(d = d2 /\ k = k2)
    BY <1>2
  <2>4. f[x] = IF d = d1 /\ k = k1 THEN <<d2, k2, i>> ELSE <<d, k, i>>
    BY <2>2
  <2>5. CASE d = d1 /\ k = k1
    <3>1. <<d2, k2, i>> \in T
      BY <1>1, <2>5, InPlaces
    <3> QED BY <2>2, <2>3, <2>4, <2>5, <3>1
  <2>6. CASE ~(d = d1 /\ k = k1)
    <3>1. <<d, k, i>> \in T
      BY <1>3, <2>3, <2>6, InPlaces
    <3> QED BY <2>2, <2>3, <2>4, <2>6, <3>1
  <2> QED BY <2>5, <2>6
<1>5. f \in [S -> T]
  BY <1>4
<1>6. ASSUME NEW x \in S, NEW y \in S, f[x] = f[y] PROVE x = y
  <2> HIDE DEF f, S, T
  <2>1. PICK d \in DB, k \in Key : \E i :
           /\ x = <<d, k, i>> /\ ~(d = d2 /\ k = k2)
           /\ f[x] = IF d = d1 /\ k = k1 THEN <<d2, k2, i>> ELSE <<d, k, i>>
    BY <1>4
  <2>2. PICK i :
           /\ x = <<d, k, i>>
           /\ f[x] = IF d = d1 /\ k = k1 THEN <<d2, k2, i>> ELSE <<d, k, i>>
    BY <2>1
  <2>3. PICK e \in DB, j \in Key : \E n :
           /\ y = <<e, j, n>> /\ ~(e = d2 /\ j = k2)
           /\ f[y] = IF e = d1 /\ j = k1 THEN <<d2, k2, n>> ELSE <<e, j, n>>
    BY <1>4
  <2>4. PICK n :
           /\ y = <<e, j, n>>
           /\ f[y] = IF e = d1 /\ j = k1 THEN <<d2, k2, n>> ELSE <<e, j, n>>
    BY <2>3
  <2> QED BY <1>0, <1>6, <2>1, <2>2, <2>3, <2>4
<1>7. ASSUME NEW y \in T PROVE \E x \in S : f[x] = y
  <2>1. PICK d \in DB, k \in Key : \E i \in PlacesAt(v, es[d], k) : y = <<d, k, i>>
    BY InPlaces
  <2>2. PICK i \in PlacesAt(v, es[d], k) : y = <<d, k, i>>
    BY <2>1
  <2>3. ~(d = d1 /\ k = k1)
    BY <1>2
  <2>4. CASE d = d2 /\ k = k2
    <3>1. <<d1, k1, i>> \in S
      BY <1>1, <2>4, InPlaces
    <3>2. f[<<d1, k1, i>>] = y
      BY <2>2, <2>4, <3>1
    <3> QED BY <3>1, <3>2
  <2>5. CASE ~(d = d2 /\ k = k2)
    <3>1. <<d, k, i>> \in S
      BY <1>3, <2>3, <2>5, InPlaces
    <3>2. f[<<d, k, i>>] = y
      BY <2>2, <2>3, <3>1
    <3> QED BY <3>1, <3>2
  <2> QED BY <2>4, <2>5
<1>8. IsFiniteSet(S)
  BY PlacesFinite
<1> HIDE DEF f, S, T
<1>9. Cardinality(T) = Cardinality(S)
  BY <1>5, <1>6, <1>7, <1>8, CountedTwice
<1> QED BY <1>9 DEF Occurs, S, T

\* What a pop hands to its client, by its answer.
Handed(r) == IF r[1] \notin {"bulk", "array"} THEN {} ELSE IF r[1] = "array" THEN r[2] ELSE {r[2]}

\* The set at k lost the members x.
Lost(db, e, k, x) ==
    /\ x \in SUBSET setAt(db, k)
    /\ \/ x = {} /\ e = db
       \/ t(db, k) = "set" /\ LeavesSet(db, e, k, setAt(db, k) \ x)

\* SPOP answers the members it takes.
LEMMA SpopTakes ==
    ASSUME NEW c \in Commands, NEW db \in RedisDB, Agree(db), c.op = "SPOP",
           NEW o \in cbSpop(c, db)
    PROVE  Lost(db, o.db, K(c), Handed(o.reply))
<1>1. K(c) \in Key
  BY FirstKey DEF Keyless
<1> DEFINE k == K(c)
           s == setAt(db, k)
           count == IF c.m = 1 THEN c.n ELSE 1
           size  == IF count < 0 THEN 0
                    ELSE IF count > Cardinality(s) THEN Cardinality(s) ELSE count
           Popped(x) == IF x = {} THEN db ELSE bump(setRem(db, k, x), k, Cardinality(x) - 1)
           Reply(x) == IF c.m = 1 THEN Array(x)
                       ELSE IF x = {} THEN Null ELSE Bulk(CHOOSE v \in x : TRUE)
           present == {[db |-> Popped(x), reply |-> Reply(x)] : x \in kSubset(size, s)}
           absent == IF c.m = 1 THEN Array({}) ELSE Null
<1>2. o \in One(db, BadInt) \/ o \in OnSet(db, k, absent, present)
  BY DEF cbSpop
<1>3. /\ Handed(Array({})) = {} /\ Handed(Null) = {} /\ Handed(WrongType) = {}
      /\ Handed(BadInt) = {}
  BY DEF Handed, Array, Null, WrongType, BadInt
<1>4. CASE o \in One(db, BadInt) \/ ~exists(db, k) \/ t(db, k) # "set"
  <2>1. \E r \in {Array({}), Null, WrongType, BadInt} : o \in One(db, r)
    BY <1>2, <1>4 DEF OnSet
  <2>2. o.db = db /\ Handed(o.reply) = {}
    BY <1>3, <2>1, OneOutcome
  <2> QED BY <2>2 DEF Lost
<1>5. CASE o \notin One(db, BadInt) /\ exists(db, k) /\ t(db, k) = "set"
  <2>0. o \in present
    BY <1>2, <1>5 DEF OnSet
  <2>1. s \in SUBSET Val /\ IsFiniteSet(s) /\ Cardinality(s) \in Nat
    <3>1. s \in SUBSET Val
      BY <1>1, ListAtType
    <3>2. IsFiniteSet(s)
      BY <3>1, ValAssumption, FS_Subset
    <3> QED BY <3>1, <3>2, FS_CardinalityType
  <2>2. c.m # 1 => size \in {0, 1}
    BY <2>1
  <2> HIDE DEF size
  <2>3. PICK x \in kSubset(size, s) : o = [db |-> Popped(x), reply |-> Reply(x)]
    BY <2>0
  <2>4. x \in SUBSET s /\ Cardinality(x) = size
    BY DEF kSubset
  <2>5. IsFiniteSet(x)
    BY <2>1, <2>4, FS_Subset
  <2>6. o.db = Popped(x) /\ o.reply = Reply(x)
    BY <2>3
  <2>7. Handed(Reply(x)) = x
    <3>1. CASE c.m = 1
      BY <3>1 DEF Handed, Array
    <3>2. CASE c.m # 1 /\ x = {}
      BY <1>3, <3>2
    <3>3. CASE c.m # 1 /\ x # {}
      <4>1. Cardinality(x) = 1
        BY <2>2, <2>4, <2>5, <3>3, FS_EmptySet
      <4>2. PICK w : x = {w}
        BY <2>5, <4>1, FS_Singleton
      <4>3. (CHOOSE v \in x : TRUE) \in x
        BY <4>2
      <4> DEFINE u == CHOOSE v \in x : TRUE
      <4>4. u = w /\ Reply(x) = Bulk(u)
        BY <3>3, <4>2, <4>3
      <4> HIDE DEF u
      <4>5. Handed(Bulk(u)) = {u}
        BY DEF Handed, Bulk
      <4> QED BY <4>2, <4>4, <4>5
    <3> QED BY <3>1, <3>2, <3>3
  <2>8. CASE x = {}
    BY <2>6, <2>7, <2>8 DEF Lost
  <2>9. CASE x # {}
    <3> DEFINE n == Cardinality(x) - 1
               d == setRem(db, k, x)
    <3>1. n \in Nat
      BY <2>5, <2>9, FS_CardinalityType, FS_EmptySet
    <3>2. LeavesSet(db, d, k, s \ x)
      BY <1>1, <1>5, SetRemLeaves
    <3>3. o.db = bump(d, k, n)
      BY <2>6, <2>9
    <3> HIDE DEF n, d
    <3>4. LeavesSet(db, bump(d, k, n), k, s \ x)
      BY <1>1, <3>1, <3>2, BumpBecomes DEF LeavesSet
    <3> HIDE DEF Reply
    <3> QED BY <1>5, <2>4, <2>6, <2>7, <3>3, <3>4 DEF Lost
  <2> QED BY <2>8, <2>9
<1> QED BY <1>4, <1>5

\* The same value from the same entries.
LEMMA SameEntries ==
    ASSUME NEW db, NEW e, NEW k, Same(db, e, k)
    PROVE  listAt(e, k) = listAt(db, k) /\ setAt(e, k) = setAt(db, k)
BY DEF Same, listAt, setAt

\* One database is replaced.
Stored(ds, es, sel, e) == es = [ds EXCEPT ![sel] = e]

\* One database changes at one key.
LEMMA ChangedAt ==
    ASSUME NEW ds \in [DB -> RedisDB], NEW sel \in DB, NEW e \in RedisDB, NEW k \in Key, NEW es,
           Stored(ds, es, sel, e), \A j \in Key \ {k} : Same(ds[sel], e, j)
    PROVE  /\ es \in [DB -> RedisDB] /\ es[sel] = e /\ OnlyAt(ds, es, sel, k)
           /\ \A d \in DB \ {sel} : es[d] = ds[d]
<1>1. es \in [DB -> RedisDB] /\ es[sel] = e /\ \A d \in DB \ {sel} : es[d] = ds[d]
  BY DEF Stored
<1>2. ASSUME NEW d \in DB, NEW j \in Key, ~(d = sel /\ j = k) PROVE SameValue(ds, es, d, j)
  <2>1. CASE d = sel
    <3>1. Same(ds[sel], e, j)
      BY <1>2, <2>1
    <3>2. listAt(e, j) = listAt(ds[sel], j) /\ setAt(e, j) = setAt(ds[sel], j)
      BY <3>1, SameEntries
    <3> QED BY <1>1, <2>1, <3>2 DEF SameValue
  <2>2. CASE d # sel
    <3>1. es[d] = ds[d]
      BY <1>1, <2>2
    <3> QED BY <3>1 DEF SameValue
  <2> QED BY <2>1, <2>2
<1> QED BY <1>1, <1>2 DEF OnlyAt

\* A pop of a list takes one occurrence away.
LEMMA TookCounts ==
    ASSUME NEW v, NEW ds, Sound(ds), NEW sel \in DB, NEW e, NEW k \in Key, NEW el \in Val,
           Took(ds[sel], e, k, el), NEW es, Stored(ds, es, sel, e)
    PROVE  Occurs(v, ds) = Occurs(v, es) + Cardinality({el} \cap {v})
<1>0. ds \in [DB -> RedisDB] /\ ds[sel] \in RedisDB /\ Agree(ds[sel])
  BY DEF Sound
<1>1. PICK r \in Seq(Val) : /\ Leaves(ds[sel], e, k, r)
                            /\ listAt(ds[sel], k) = <<el>> \o r \/ listAt(ds[sel], k) = Append(r, el)
  BY DEF Took
<1>2. e \in RedisDB /\ listAt(e, k) = r /\ setAt(e, k) = {} /\ \A j \in Key \ {k} : Same(ds[sel], e, j)
  BY <1>0, <1>1, LeavesValues
<1>3. es \in [DB -> RedisDB] /\ es[sel] = e /\ OnlyAt(ds, es, sel, k)
  BY <1>0, <1>2, ChangedAt
<1>4. setAt(ds[sel], k) = {}
  <2>1. Len(listAt(ds[sel], k)) = Len(r) + 1 /\ Len(r) \in Nat
    BY <1>1, OneLonger
  <2>2. listAt(ds[sel], k) # <<>>
    BY <2>1
  <2>3. ds[sel].listKeys[k] # Nil
    BY <2>2 DEF listAt
  <2> QED BY <1>0, <2>3 DEF Agree, setAt
<1>5. setAt(ds[sel], k) = setAt(es[sel], k) /\ listAt(es[sel], k) = r
  BY <1>2, <1>3, <1>4
<1>6. CASE listAt(ds[sel], k) = <<el>> \o r
  <2>1. listAt(ds[sel], k) = <<el>> \o listAt(es[sel], k)
    BY <1>5, <1>6
  <2> QED BY <1>0, <1>3, <1>5, <2>1, CountedAtHead
<1>7. CASE listAt(ds[sel], k) = Append(r, el)
  <2>1. listAt(ds[sel], k) = Append(listAt(es[sel], k), el)
    BY <1>5, <1>7
  <2> QED BY <1>0, <1>3, <1>5, <2>1, CountedAtLast
<1> QED BY <1>1, <1>6, <1>7

\* A list, or a new one, got el at its left end.
Received(db, e, k, el) == (~exists(db, k) \/ t(db, k) = "list") /\ Gave(db, e, k, el)

\* A push of a list adds one occurrence.
LEMMA GaveCounts ==
    ASSUME NEW v, NEW ds, Sound(ds), NEW sel \in DB, NEW e, NEW k \in Key, NEW el \in Val,
           Received(ds[sel], e, k, el), NEW es, Stored(ds, es, sel, e)
    PROVE  Occurs(v, es) = Occurs(v, ds) + Cardinality({el} \cap {v})
<1>0. ds \in [DB -> RedisDB] /\ ds[sel] \in RedisDB /\ Agree(ds[sel])
  BY DEF Sound
<1>1. /\ e \in RedisDB /\ e.listKeys[k] = <<el>> \o listAt(ds[sel], k) /\ e.setKeys[k] = Nil
      /\ \A j \in Key \ {k} : Same(ds[sel], e, j)
  <2> DEFINE l == <<el>> \o listAt(ds[sel], k)
  <2>1. Becomes(ds[sel], e, k, "list", l, Nil)
    BY DEF Gave, Received
  <2> HIDE DEF l
  <2>2. /\ e \in RedisDB /\ e.listKeys[k] = l /\ e.setKeys[k] = Nil
        /\ \A j \in Key \ {k} : Same(ds[sel], e, j)
    BY <1>0, <2>1, BecomesEntries
  <2> QED BY <2>2 DEF l
<1>2. es \in [DB -> RedisDB] /\ es[sel] = e /\ OnlyAt(ds, es, sel, k)
  BY <1>0, <1>1, ChangedAt
<1>3. setAt(ds[sel], k) = {}
  <2>1. t(ds[sel], k) # "set"
    BY UntypedApart DEF exists, t, Received
  <2>2. ds[sel].setKeys[k] = Nil
    BY <1>0, <2>1 DEF Agree
  <2> QED BY <2>2 DEF setAt
<1>4. listAt(e, k) = <<el>> \o listAt(ds[sel], k)
  <2>1. listAt(ds[sel], k) \in Seq(Val) /\ <<el>> \in Seq(Val)
    BY <1>0, ListAtType
  <2>2. <<el>> \o listAt(ds[sel], k) \in Seq(Val)
    BY <2>1, ConcatProperties
  <2>3. e.listKeys[k] # Nil
    BY <1>1, <2>2, NotNil
  <2> QED BY <1>1, <2>3 DEF listAt
<1>5. setAt(es[sel], k) = setAt(ds[sel], k) /\ listAt(es[sel], k) = <<el>> \o listAt(ds[sel], k)
  BY <1>1, <1>2, <1>3, <1>4 DEF setAt
<1>6. OnlyAt(es, ds, sel, k)
  BY <1>2 DEF OnlyAt, SameValue
<1> QED BY <1>0, <1>2, <1>5, <1>6, CountedAtHead

\* How often v occurs in the set x.
Times(v, x) == Cardinality(x \cap {v})

\* Members that leave a set.
LEMMA LostCounts ==
    ASSUME NEW v, NEW ds, Sound(ds), NEW sel \in DB, NEW e, NEW k \in Key, NEW x,
           Lost(ds[sel], e, k, x), NEW es, Stored(ds, es, sel, e)
    PROVE  Occurs(v, ds) = Occurs(v, es) + Times(v, x)
<1>0. ds \in [DB -> RedisDB] /\ ds[sel] \in RedisDB /\ Agree(ds[sel])
  BY DEF Sound
<1> DEFINE db == ds[sel]
           s == setAt(db, k)
<1>1. x \in SUBSET s
  BY DEF Lost
<1>2. /\ e \in RedisDB /\ listAt(e, k) = listAt(db, k) /\ setAt(e, k) = s \ x
      /\ \A j \in Key \ {k} : Same(db, e, j)
  <2>1. CASE x = {} /\ e = db
    BY <1>0, <2>1 DEF Same
  <2>2. CASE t(db, k) = "set" /\ LeavesSet(db, e, k, s \ x)
    <3>1. PICK a, m : /\ Becomes(db, e, k, a, Nil, m)
                      /\ m = IF s \ x = {} THEN Nil ELSE s \ x
      BY <2>2 DEF LeavesSet
    <3>2. /\ e \in RedisDB /\ e.listKeys[k] = Nil /\ e.setKeys[k] = m
          /\ \A j \in Key \ {k} : Same(db, e, j)
      BY <1>0, <3>1, BecomesEntries
    <3>3. db.listKeys[k] = Nil
      BY <1>0, <2>2 DEF Agree
    <3>4. s \in SUBSET Val
      BY <1>0, ListAtType
    <3>5. setAt(e, k) = s \ x
      <4> HIDE DEF s
      <4>1. s \ x # Nil
        BY <3>4, NotNil
      <4> QED BY <3>1, <3>2, <4>1 DEF setAt
    <3> QED BY <3>2, <3>3, <3>5 DEF listAt
  <2> QED BY <2>1, <2>2 DEF Lost
<1>3. es \in [DB -> RedisDB] /\ es[sel] = e /\ OnlyAt(ds, es, sel, k)
  BY <1>0, <1>2, ChangedAt
<1>4. listAt(es[sel], k) = listAt(ds[sel], k) /\ setAt(es[sel], k) = setAt(ds[sel], k) \ x
  BY <1>2, <1>3
<1>5. Shrunk(ds, es, sel, k, x)
  BY <1>1, <1>3, <1>4 DEF Shrunk
<1>6. Occurs(v, ds) = Occurs(v, es) + Cardinality(x \cap {v})
  <2> HIDE DEF s
  <2> QED BY <1>0, <1>3, <1>5, CountedInSet
<1> QED BY <1>6 DEF Times

\* Nothing changes, nothing is handed out.
LEMMA NothingLost ==
    ASSUME NEW v, NEW ds \in [DB -> RedisDB]
    PROVE  Occurs(v, ds) = Occurs(v, ds) + Times(v, {})
<1>1. Occurs(v, ds) \in Nat
  BY PlacesFinite, FS_CardinalityType DEF Occurs
<1>2. {} \cap {v} = {} /\ Cardinality({}) = 0
  BY FS_EmptySet
<1> QED BY <1>1, <1>2 DEF Times

\* A value that two steps take and give back.
LEMMA TookAndGave ==
    ASSUME NEW v, NEW ds, Sound(ds), NEW sel \in DB, NEW d, NEW e, NEW k \in Key, NEW j \in Key,
           NEW el \in Val, d \in RedisDB, Agree(d),
           Took(ds[sel], d, k, el), Received(d, e, j, el), NEW es, Stored(ds, es, sel, e)
    PROVE  Occurs(v, ds) = Occurs(v, es)
<1> DEFINE ms == [ds EXCEPT ![sel] = d]
<1>1. Occurs(v, ds) = Occurs(v, ms) + Cardinality({el} \cap {v})
  <2> HIDE DEF ms
  <2>1. Stored(ds, ms, sel, d)
    BY DEF ms, Stored
  <2> QED BY <2>1, TookCounts
<1>2. Sound(ms) /\ ms[sel] = d /\ Stored(ms, es, sel, e)
  BY DEF Sound, Stored
<1> HIDE DEF ms
<1>3. Occurs(v, es) = Occurs(v, ms) + Cardinality({el} \cap {v})
  <2>1. Received(ms[sel], e, j, el)
    BY <1>2
  <2> QED BY <1>2, <2>1, GaveCounts
<1> QED BY <1>1, <1>3

\* The databases after a RENAMENX that finds the target absent.
Renamed(ds, es, sel, from, to) ==
    /\ exists(ds[sel], from) /\ ~exists(ds[sel], to) /\ ~renamePanics(ds[sel], from, to)
    /\ rename(ds[sel], from, to) \in RedisDB
    /\ es = [ds EXCEPT ![sel] = rename(ds[sel], from, to)]

\* RENAMENX.
LEMMA RenameCounts ==
    ASSUME NEW v, NEW ds, Sound(ds), NEW sel \in DB, NEW from \in Key, NEW to \in Key,
           NEW es, Renamed(ds, es, sel, from, to)
    PROVE  Occurs(v, es) = Occurs(v, ds)
<1>0. ds \in [DB -> RedisDB] /\ ds[sel] \in RedisDB /\ Agree(ds[sel])
  BY DEF Sound
<1> DEFINE e == rename(ds[sel], from, to)
<1>1. /\ from # to /\ e.listKeys[to] = ds[sel].listKeys[from]
      /\ e.setKeys[to] = ds[sel].setKeys[from] /\ e.listKeys[from] = Nil /\ e.setKeys[from] = Nil
      /\ \A j \in Key \ {from, to} : Same(ds[sel], e, j)
  BY <1>0, RenameValues DEF Renamed
<1> HIDE DEF e
<1>2. es \in [DB -> RedisDB] /\ es[sel] = e /\ \A d \in DB \ {sel} : es[d] = ds[d]
  BY <1>0 DEF e, Renamed
<1>3. ds[sel].listKeys[to] = Nil /\ ds[sel].setKeys[to] = Nil
  BY <1>0, NoEntries DEF Renamed
<1>4. /\ listAt(es[sel], to) = listAt(ds[sel], from) /\ setAt(es[sel], to) = setAt(ds[sel], from)
      /\ listAt(es[sel], from) = <<>> /\ setAt(es[sel], from) = {}
      /\ listAt(ds[sel], to) = <<>> /\ setAt(ds[sel], to) = {}
  BY <1>1, <1>2, <1>3 DEF listAt, setAt
<1>5. ASSUME NEW d \in DB, NEW k \in Key, ~(d = sel /\ k = from), ~(d = sel /\ k = to)
      PROVE  SameValue(ds, es, d, k)
  <2>1. CASE d = sel
    <3>1. Same(ds[sel], e, k)
      BY <1>1, <1>5, <2>1
    <3>2. listAt(e, k) = listAt(ds[sel], k) /\ setAt(e, k) = setAt(ds[sel], k)
      BY <3>1, SameEntries
    <3> QED BY <1>2, <2>1, <3>2 DEF SameValue
  <2>2. CASE d # sel
    <3>1. es[d] = ds[d]
      BY <1>2, <2>2
    <3> QED BY <3>1 DEF SameValue
  <2> QED BY <2>1, <2>2
<1>6. Carried(ds, es, sel, from, sel, to)
  BY <1>1, <1>4, <1>5 DEF Carried
<1> QED BY <1>0, <1>2, <1>6, CountedAway

\* The databases after a MOVE that finds the target absent.
Moved(ds, es, sel, d2, k) ==
    /\ sel # d2 /\ moves(ds[sel], k, ds[d2])
    /\ es = [ds EXCEPT ![d2] = received(ds[sel], k, ds[d2]), ![sel] = del(ds[sel], k)]

\* MOVE.
LEMMA MoveCounts ==
    ASSUME NEW v, NEW ds, Sound(ds), NEW sel \in DB, NEW d2 \in DB, NEW k \in Key, NEW es,
           Moved(ds, es, sel, d2, k)
    PROVE  Occurs(v, es) = Occurs(v, ds)
<1>0. /\ ds \in [DB -> RedisDB] /\ ds[sel] \in RedisDB /\ Agree(ds[sel])
      /\ ds[d2] \in RedisDB /\ Agree(ds[d2])
  BY DEF Sound
<1> DEFINE x == received(ds[sel], k, ds[d2])
           y == del(ds[sel], k)
<1>1. Becomes(ds[d2], x, k, ds[sel].keys[k], ds[sel].listKeys[k], ds[sel].setKeys[k])
  BY <1>0, ReceivedBecomes DEF Moved
<1>2. Becomes(ds[sel], y, k, Untyped, Nil, Nil)
  BY <1>0, DelBecomes
<1>3. ds[d2].listKeys[k] = Nil /\ ds[d2].setKeys[k] = Nil
  BY <1>0, NoEntries DEF moves, Moved
<1>4. es = [ds EXCEPT ![d2] = x, ![sel] = y] /\ sel # d2
  BY DEF Moved
<1> HIDE DEF x, y
<1>5. /\ x \in RedisDB /\ x.listKeys[k] = ds[sel].listKeys[k] /\ x.setKeys[k] = ds[sel].setKeys[k]
      /\ \A j \in Key \ {k} : Same(ds[d2], x, j)
  BY <1>0, <1>1, BecomesEntries
<1>6. /\ y \in RedisDB /\ y.listKeys[k] = Nil /\ y.setKeys[k] = Nil
      /\ \A j \in Key \ {k} : Same(ds[sel], y, j)
  BY <1>0, <1>2, BecomesEntries
<1>7. /\ es \in [DB -> RedisDB] /\ es[sel] = y /\ es[d2] = x
      /\ \A d \in DB \ {sel, d2} : es[d] = ds[d]
  BY <1>0, <1>4, <1>5, <1>6
<1>8. /\ listAt(es[d2], k) = listAt(ds[sel], k) /\ setAt(es[d2], k) = setAt(ds[sel], k)
      /\ listAt(es[sel], k) = <<>> /\ setAt(es[sel], k) = {}
      /\ listAt(ds[d2], k) = <<>> /\ setAt(ds[d2], k) = {}
  BY <1>3, <1>5, <1>6, <1>7 DEF listAt, setAt
<1>9. ASSUME NEW d \in DB, NEW j \in Key, ~(d = sel /\ j = k), ~(d = d2 /\ j = k)
      PROVE  SameValue(ds, es, d, j)
  <2>1. CASE d = sel
    <3>1. Same(ds[sel], y, j)
      BY <1>6, <1>9, <2>1
    <3>2. listAt(y, j) = listAt(ds[sel], j) /\ setAt(y, j) = setAt(ds[sel], j)
      BY <3>1, SameEntries
    <3> QED BY <1>7, <2>1, <3>2 DEF SameValue
  <2>2. CASE d = d2
    <3>1. Same(ds[d2], x, j)
      BY <1>5, <1>9, <2>2
    <3>2. listAt(x, j) = listAt(ds[d2], j) /\ setAt(x, j) = setAt(ds[d2], j)
      BY <3>1, SameEntries
    <3> QED BY <1>7, <2>2, <3>2 DEF SameValue
  <2>3. CASE d # sel /\ d # d2
    <3>1. es[d] = ds[d]
      BY <1>7, <2>3
    <3> QED BY <3>1 DEF SameValue
  <2> QED BY <2>1, <2>2, <2>3
<1>10. Carried(ds, es, sel, k, d2, k)
  BY <1>4, <1>8, <1>9 DEF Carried
<1> QED BY <1>0, <1>7, <1>10, CountedAway

\* What command c hands to its client, by its answer.
HandedBy(c, r) ==
    IF c.op \notin PopOps \/ r[1] \notin {"bulk", "array"} THEN {}
    ELSE IF c.op \in {"BLPOP", "BRPOP"} THEN {r[2][2]} ELSE Handed(r)

MovingOps == {"RPOPLPUSH", "BRPOPLPUSH", "RENAMENX", "MOVE"}

\* A list gave the element of x away, or x is empty.
TookOrNot(db, e, k, x) ==
    \/ e = db /\ x = {}
    \/ \E el \in Val : Took(db, e, k, el) /\ x = {el}

\* A pop of a list that answers what it takes, or takes nothing.
LEMMA PopCounts ==
    ASSUME NEW v, NEW ds, Sound(ds), NEW sel \in DB, NEW e, NEW k \in Key, NEW x,
           TookOrNot(ds[sel], e, k, x), NEW es, Stored(ds, es, sel, e)
    PROVE  Occurs(v, ds) = Occurs(v, es) + Times(v, x)
<1>1. CASE e = ds[sel] /\ x = {}
  <2>1. es = ds /\ ds \in [DB -> RedisDB]
    BY <1>1 DEF Stored, Sound
  <2> QED BY <1>1, <2>1, NothingLost
<1>2. ASSUME NEW el \in Val, Took(ds[sel], e, k, el), x = {el}
      PROVE  Occurs(v, ds) = Occurs(v, es) + Times(v, x)
  <2>1. Occurs(v, ds) = Occurs(v, es) + Cardinality({el} \cap {v})
    BY <1>2, TookCounts
  <2> QED BY <1>2, <2>1 DEF Times
<1> QED BY <1>1, <1>2 DEF TookOrNot

\* What the bulk, array and other answers hand out.
LEMMA HandedCases ==
    ASSUME NEW c, NEW r
    PROVE  /\ c.op \notin PopOps \/ r[1] \notin {"bulk", "array"} => HandedBy(c, r) = {}
           /\ c.op \in PopOps \ {"BLPOP", "BRPOP"} => HandedBy(c, r) = Handed(r)
           /\ \A el : r = Bulk(el) => Handed(r) = {el}
           /\ \A k, el : c.op \in {"BLPOP", "BRPOP"} /\ r = Array(<<k, el>>) => HandedBy(c, r) = {el}
BY DEF HandedBy, Handed, PopOps, Bulk, Array

\* The elements before are those after, and those handed out.
LEMMA OutcomeConserves ==
    ASSUME NEW v, NEW c \in Commands, NEW sel \in DB, NEW ds, Sound(ds),
           NEW o \in Possible(c, sel, ds), c.op \in PopOps \cup MovingOps
    PROVE  Occurs(v, ds) = Occurs(v, o.dbs) + Times(v, HandedBy(c, o.reply))
<1> DEFINE es == o.dbs
           x == HandedBy(c, o.reply)
           db == ds[sel]
<1> SUFFICES Occurs(v, ds) = Occurs(v, es) + Times(v, x)
  OBVIOUS
<1>0. ds \in [DB -> RedisDB] /\ db \in RedisDB /\ Agree(db)
  BY DEF Sound
<1>1. c.op \in MovingOps => x = {}
  BY HandedCases DEF MovingOps, PopOps
<1>2. ASSUME es = ds, x = {} PROVE Occurs(v, ds) = Occurs(v, es) + Times(v, x)
  <2> HIDE DEF es, x
  <2> QED BY <1>0, <1>2, NothingLost
<1>3. ASSUME Occurs(v, es) = Occurs(v, ds), x = {}
      PROVE  Occurs(v, ds) = Occurs(v, es) + Times(v, x)
  <2> HIDE DEF es, x
  <2> QED BY <1>0, <1>3, NothingLost
<1>4. CASE c.op = "MOVE"
  <2>1. o \in cbMove(c, sel, ds)
    BY <1>4 DEF Possible, DirectMethods, Outcomes
  <2>2. K(c) \in Key /\ c.n \in DB
    BY <1>4, FirstKey DEF Keyless, Commands
  <2>3. CASE sel = c.n \/ ~moves(db, K(c), ds[c.n])
    <3>1. es = ds
      BY <2>1, <2>3 DEF cbMove
    <3> QED BY <1>1, <1>2, <1>4, <3>1 DEF MovingOps
  <2>4. CASE sel # c.n /\ moves(db, K(c), ds[c.n])
    <3>1. es = [ds EXCEPT ![c.n] = received(db, K(c), ds[c.n]), ![sel] = del(db, K(c))]
      BY <1>0, <2>1, <2>2, <2>4 DEF cbMove
    <3>2. Occurs(v, es) = Occurs(v, ds)
      <4> DEFINE k == K(c)
                 d2 == c.n
      <4>1. k \in Key /\ d2 \in DB /\ Moved(ds, es, sel, d2, k)
        BY <2>2, <2>4, <3>1 DEF Moved
      <4> HIDE DEF k, d2, es
      <4> QED BY <4>1, MoveCounts
    <3> QED BY <1>1, <1>3, <1>4, <3>2 DEF MovingOps
  <2> QED BY <2>3, <2>4
<1>5. CASE c.op \in {"Lpop", "Pop"}
  <2>1. PICK p \in Method(c, db) : o = [dbs |-> [ds EXCEPT ![sel] = p.db], reply |-> p.reply]
    BY <1>5 DEF Possible, MethodOutcomes, DirectMethods
  <2>2. Stored(ds, es, sel, p.db) /\ o.reply = p.reply
    BY <2>1 DEF Stored
  <2>3. \/ p.db = db /\ p.reply[1] \notin {"bulk", "array"}
        \/ \E el \in Val : Took(db, p.db, K(c), el) /\ p.reply = Bulk(el)
    BY <1>0, <1>5, MethodPopTakes
  <2>4. K(c) \in Key /\ TookOrNot(db, p.db, K(c), x)
    <3>1. x = Handed(p.reply) /\ (p.reply[1] \notin {"bulk", "array"} => x = {})
      BY <1>5, <2>2, HandedCases DEF PopOps
    <3>2. K(c) \in Key
      BY <1>5, FirstKey DEF Keyless
    <3> QED BY <2>3, <3>1, <3>2, HandedCases DEF TookOrNot
  <2> HIDE DEF x, es
  <2> QED BY <2>2, <2>4, PopCounts
<1>6. ASSUME c.op \notin DirectMethods \cup {"MOVE", "FLUSHALL"}
      PROVE  Occurs(v, ds) = Occurs(v, es) + Times(v, x)
  <2>1. PICK p \in Callback(c, db) : o = [dbs |-> [ds EXCEPT ![sel] = p.db], reply |-> p.reply]
    BY <1>6 DEF Possible, Outcomes
  <2>2. Stored(ds, es, sel, p.db) /\ o.reply = p.reply
    BY <2>1 DEF Stored
  <2>3. CASE c.op \in {"LPOP", "RPOP"}
    <3>1. \/ p.db = db /\ p.reply[1] \notin {"bulk", "array"}
          \/ \E el \in Val : Took(db, p.db, K(c), el) /\ p.reply = Bulk(el)
      BY <1>0, <2>3, XpopTakes DEF Callback
    <3>2. x = Handed(p.reply) /\ (p.reply[1] \notin {"bulk", "array"} => x = {})
      BY <2>2, <2>3, HandedCases DEF PopOps
    <3>3. K(c) \in Key
      BY <2>3, FirstKey DEF Keyless
    <3>4. TookOrNot(db, p.db, K(c), x)
      BY <3>1, <3>2, HandedCases DEF TookOrNot
    <3> HIDE DEF x, es
    <3> QED BY <2>2, <3>3, <3>4, PopCounts
  <2>4. CASE c.op \in {"BLPOP", "BRPOP"}
    <3>1. \/ p.db = db /\ p.reply[1] \notin {"bulk", "array"}
          \/ \E k \in Key, el \in Val : Took(db, p.db, k, el) /\ p.reply = Array(<<k, el>>)
      BY <1>0, <2>4, BXpopTakes DEF Callback
    <3>2. CASE p.db = db /\ p.reply[1] \notin {"bulk", "array"}
      <4>1. es = ds /\ x = {}
        BY <2>2, <3>2, HandedCases DEF Stored, Sound
      <4> QED BY <1>2, <4>1
    <3>3. ASSUME NEW k \in Key, NEW el \in Val, Took(db, p.db, k, el), p.reply = Array(<<k, el>>)
          PROVE  Occurs(v, ds) = Occurs(v, es) + Times(v, x)
      <4>0. x = {el}
        BY <2>2, <2>4, <3>3, HandedCases
      <4>1. TookOrNot(db, p.db, k, x)
        BY <3>3, <4>0 DEF TookOrNot
      <4> HIDE DEF x, es
      <4> QED BY <2>2, <3>3, <4>1, PopCounts
    <3> QED BY <3>1, <3>2, <3>3
  <2>5. CASE c.op = "SPOP"
    <3>1. Lost(db, p.db, K(c), Handed(p.reply))
      BY <1>0, <2>5, SpopTakes DEF Callback
    <3>2. x = Handed(p.reply)
      BY <2>2, <2>5, HandedCases DEF PopOps
    <3>3. K(c) \in Key
      BY <2>5, FirstKey DEF Keyless
    <3> HIDE DEF x, es
    <3> QED BY <2>2, <3>1, <3>2, <3>3, LostCounts
  <2>6. CASE c.op \in {"RPOPLPUSH", "BRPOPLPUSH"}
    <3>1. \/ p.db = db
          \/ \E d \in RedisDB, el \in Val :
                /\ Agree(d)
                /\ ~exists(d, c.keys[2]) \/ t(d, c.keys[2]) = "list"
                /\ Took(db, d, c.keys[1], el) /\ Gave(d, p.db, c.keys[2], el)
      BY <1>0, <2>6, RpoplpushTakes DEF Callback
    <3>2. x = {} /\ c.keys[1] \in Key /\ c.keys[2] \in Key
      BY <1>1, <2>6, FirstKey DEF MovingOps, Keyless, TwoKeys, K
    <3>3. CASE p.db = db
      <4>1. es = ds
        BY <2>2, <3>3 DEF Stored, Sound
      <4> QED BY <1>2, <3>2, <4>1
    <3>4. ASSUME NEW d \in RedisDB, NEW el \in Val, Agree(d),
                 ~exists(d, c.keys[2]) \/ t(d, c.keys[2]) = "list",
                 Took(db, d, c.keys[1], el), Gave(d, p.db, c.keys[2], el)
          PROVE  Occurs(v, ds) = Occurs(v, es) + Times(v, x)
      <4> DEFINE k == c.keys[1]
                 j == c.keys[2]
      <4>1. k \in Key /\ j \in Key /\ Took(ds[sel], d, k, el) /\ Received(d, p.db, j, el)
        BY <3>2, <3>4 DEF Received
      <4>2. Occurs(v, ds) = Occurs(v, es)
        <5> HIDE DEF k, j, es, x
        <5> QED BY <2>2, <3>4, <4>1, TookAndGave
      <4> QED BY <1>3, <3>2, <4>2
    <3> QED BY <3>1, <3>3, <3>4
  <2>7. CASE c.op = "RENAMENX"
    <3> DEFINE from == c.keys[1]
               to   == c.keys[2]
               e    == rename(db, from, to)
    <3>1. from \in Key /\ to \in Key /\ x = {}
      BY <1>1, <2>7, FirstKey DEF MovingOps, Keyless, TwoKeys, K
    <3>2. \E r : \/ p \in One(db, r)
                 \/ /\ exists(db, from) /\ ~exists(db, to) /\ ~renamePanics(db, from, to)
                    /\ p \in One(e, r)
      BY <2>7 DEF Callback, cbRename
    <3>3. CASE \E r : p \in One(db, r)
      <4>1. p.db = db
        BY <3>3, OneOutcome
      <4>2. es = ds
        BY <2>2, <4>1 DEF Stored, Sound
      <4> QED BY <1>2, <3>1, <4>2
    <3>4. CASE /\ exists(db, from) /\ ~exists(db, to) /\ ~renamePanics(db, from, to)
               /\ \E r : p \in One(e, r)
      <4>1. p.db = e
        BY <3>4, OneOutcome
      <4>2. p.db \in RedisDB
        <5>1. Kept(c, sel, ds, o)
          BY <1>6, KeptByCommands DEF Possible
        <5>2. Sound(o.dbs) /\ o.dbs[sel] = p.db
          BY <1>0, <2>1, <5>1 DEF Kept
        <5> QED BY <5>2 DEF Sound
      <4>3. Occurs(v, es) = Occurs(v, ds)
        <5>1. Renamed(ds, es, sel, from, to)
          BY <2>2, <3>4, <4>1, <4>2 DEF Stored, Renamed
        <5> HIDE DEF es, from, to, e
        <5> QED BY <3>1, <5>1, RenameCounts
      <4> QED BY <1>3, <3>1, <4>3
    <3> QED BY <3>2, <3>3, <3>4
  <2> QED BY <1>6, <2>3, <2>4, <2>5, <2>6, <2>7 DEF PopOps, MovingOps, DirectMethods
<1> QED BY <1>4, <1>5, <1>6 DEF PopOps, MovingOps, DirectMethods

\* Moving conserves the elements: a pop, also of several keys or members, removes from the
\* keyspace exactly what it answers; RPOPLPUSH of a list to itself too, RENAMENX and MOVE
\* lose and duplicate nothing.
THEOREM ElementsConserved == Spec => []Conserved
<1>1. IInv => Conserved
  <2> SUFFICES ASSUME IInv, Ran(PopOps \cup MovingOps), NEW v \in Val
               PROVE  Occurs(v, last.pre) = Occurs(v, dbs) + Cardinality(Returned \cap {v})
    BY DEF Conserved, MovingOps
  <2> DEFINE o == [dbs |-> dbs, reply |-> last.reply]
  <2>1. /\ last.cmd \in Commands /\ last.sel \in DB /\ Sound(last.pre)
        /\ o \in Possible(last.cmd, last.sel, last.pre) /\ last # NoneYet
    BY DEF IInv, History, Explained, Ran
  <2>2. last.cmd.op \in PopOps \cup MovingOps
    BY DEF Ran
  <2>3. o.dbs = dbs /\ Returned = HandedBy(last.cmd, o.reply)
    BY <2>1 DEF Returned, HandedBy, Handed, Ran
  <2> HIDE DEF o
  <2>4. Occurs(v, last.pre) = Occurs(v, dbs) + Times(v, Returned)
    BY <2>1, <2>2, <2>3, OutcomeConserves
  <2> QED BY <2>4 DEF Times
<1> QED BY <1>1, Invariance, PTL

-----------------------------------------------------------------------------
(* What the list algorithms answer. *)

\* The only member of a set.
LEMMA TheOnly ==
    ASSUME NEW S, NEW j, NEW x, {i \in S : Cardinality({y \in S : y <= i}) = j} = {x}
    PROVE  Nth(S, j) = x
<1>1. (CHOOSE i \in {x} : TRUE) = x
  OBVIOUS
<1> QED BY <1>1 DEF Nth

\* The elements at an interval of positions.
LEMMA PickInterval ==
    ASSUME NEW D, NEW l \in Seq(D), NEW a \in Nat, NEW b \in Nat, a <= b, b <= Len(l)
    PROVE  Pick(l, (a + 1)..b) = SubSeq(l, a + 1, b)
<1> DEFINE S == (a + 1)..b
           r == SubSeq(l, a + 1, b)
<1>1. Cardinality(S) = b - a
  <2>1. a + 1 \in Int /\ b \in Int
    OBVIOUS
  <2>2. Cardinality(S) = IF a + 1 > b THEN 0 ELSE b - (a + 1) + 1
    BY <2>1, FS_Interval
  <2> HIDE DEF S
  <2> QED BY <2>2
<1>2. ASSUME NEW j \in 1..(b - a) PROVE Nth(S, j) = a + j
  <2>1. ASSUME NEW i \in S PROVE Cardinality({y \in S : y <= i}) = i - a
    <3>1. {y \in S : y <= i} = (a + 1)..i
      OBVIOUS
    <3>2. Cardinality((a + 1)..i) = i - a
      BY FS_Interval
    <3> QED BY <3>1, <3>2
  <2>2. \A i \in S : Cardinality({y \in S : y <= i}) = j <=> i = a + j
    BY <2>1
  <2>3. a + j \in S
    OBVIOUS
  <2> HIDE DEF S
  <2>4. {i \in S : Cardinality({y \in S : y <= i}) = j} = {a + j}
    BY <2>2, <2>3
  <2> DEFINE x == a + j
  <2>5. {i \in S : Cardinality({y \in S : y <= i}) = j} = {x}
    BY <2>4
  <2> HIDE DEF x
  <2>6. Nth(S, j) = x
    BY <2>5, TheOnly
  <2> QED BY <2>6 DEF x
<1>3. \A i \in (a + 1)..b : l[i] \in D
  BY LenProperties, ElementOfSeq
<1>4. /\ r \in Seq(D) /\ Len(r) = b - a
      /\ \A i \in 1..(b - a) : r[i] = l[a + i]
  <2>1. a + 1 \in Int /\ b \in Int
    OBVIOUS
  <2>2. /\ r \in Seq(D) /\ Len(r) = (IF a + 1 <= b THEN b - (a + 1) + 1 ELSE 0)
        /\ \A i \in 1..(b - (a + 1) + 1) : r[i] = l[(a + 1) + i - 1]
    BY <1>3, <2>1, SubSeqProperties
  <2> HIDE DEF r
  <2> QED BY <2>2
<1> HIDE DEF r, S
<1>5. r = [i \in 1..(b - a) |-> r[i]]
  BY <1>4, LenProperties
<1>6. Pick(l, S) = [i \in 1..(b - a) |-> l[a + i]]
  BY <1>1, <1>2 DEF Pick
<1>7. r = Pick(l, S)
  BY <1>4, <1>5, <1>6
<1> QED BY <1>7 DEF r, S

\* No positions, no elements.
LEMMA PickNothing == \A l : Pick(l, {}) = <<>>
<1>1. Cardinality({}) = 0
  BY FS_EmptySet
<1> QED BY <1>1 DEF Pick

\* redisRange is the range that Redis documents.
LEMMA SliceIsRange ==
    ASSUME NEW D, NEW l \in Seq(D), Len(l) <= MaxInt, NEW n \in Int64, NEW m \in Int64
    PROVE  slice(l, redisRange(Len(l), n, m)) = IF m = MaxInt THEN <<>> ELSE RangeOf(l, n, m)
<1> DEFINE L == Len(l)
           s0 == IF n < 0 THEN (IF L + n < 0 THEN 0 ELSE L + n) ELSE n
           s  == IF s0 > L THEN L ELSE s0
           e0 == increment(IF m < 0 THEN (IF L + m < 0 THEN -1 ELSE L + m) ELSE m)
           e  == IF e0 > L THEN L ELSE e0
           S  == {i \in DOMAIN l : InRange(l, n, m, i)}
<1>1. redisRange(L, n, m) = IF e < s THEN <<0, 0>> ELSE <<s, e>>
  BY DEF redisRange
<1>2. L \in Nat /\ L <= MaxInt /\ DOMAIN l = 1..L
  BY LenProperties
<1>3. n \in Int /\ m \in Int /\ m <= MaxInt /\ m >= -MaxInt - 1 /\ MaxInt \in Nat
  BY MaxIntAssumption DEF Int64, MinInt
<1>4. s \in Nat /\ s <= L
  BY <1>2, <1>3
<1>5. \A i \in 1..L : InRange(l, n, m, i) <=>
         /\ (IF n < 0 THEN L + n ELSE n) <= i - 1
         /\ i - 1 <= (IF m < 0 THEN L + m ELSE m)
  BY DEF InRange
<1>6. ASSUME e < s PROVE slice(l, redisRange(L, n, m)) = <<>>
  <2>1. redisRange(L, n, m) = <<0, 0>>
    BY <1>1, <1>6
  <2>2. SubSeq(l, 1, 0) = <<>>
    BY SubSeqEmpty
  <2> QED BY <2>1, <2>2 DEF slice
<1>7. CASE m = MaxInt
  <2>1. e < s
    BY <1>2, <1>3, <1>4, <1>7 DEF increment, MinInt
  <2> QED BY <1>6, <1>7, <2>1
<1>8. CASE m # MaxInt
  <2>1. e0 = (IF m < 0 THEN (IF L + m < 0 THEN -1 ELSE L + m) ELSE m) + 1
    BY <1>2, <1>3, <1>8 DEF increment
  <2>2. CASE e < s
    <3>1. \A i \in 1..L : ~InRange(l, n, m, i)
      <4> HIDE DEF L
      <4> QED BY <1>2, <1>3, <1>5, <2>1, <2>2
    <3>2. S = {}
      BY <1>2, <3>1
    <3>3. RangeOf(l, n, m) = <<>>
      BY <3>2, PickNothing DEF RangeOf
    <3> QED BY <1>6, <1>8, <2>2, <3>3
  <2>3. CASE ~(e < s)
    <3>1. e \in Nat /\ s <= e /\ e <= L
      <4> HIDE DEF L
      <4> QED BY <1>2, <1>3, <1>4, <2>1, <2>3
    <3>2. \A i \in 1..L : InRange(l, n, m, i) <=> s + 1 <= i /\ i <= e
      <4> HIDE DEF L
      <4> QED BY <1>2, <1>3, <1>5, <2>1, <2>3
    <3>3. redisRange(L, n, m) = <<s, e>>
      BY <1>1, <2>3
    <3> HIDE DEF s, e
    <3>4. S = (s + 1)..e
      BY <1>2, <1>4, <3>1, <3>2
    <3>5. Pick(l, (s + 1)..e) = SubSeq(l, s + 1, e)
      <4>1. s \in Nat /\ e \in Nat /\ s <= e /\ e <= Len(l)
        BY <1>4, <3>1
      <4> HIDE DEF L, S, s0, e0
      <4> QED BY <4>1, PickInterval
    <3>6. slice(l, redisRange(L, n, m)) = SubSeq(l, s + 1, e)
      BY <1>4, <3>1, <3>3 DEF slice
    <3> QED BY <1>8, <3>4, <3>5, <3>6 DEF RangeOf
  <2> QED BY <2>2, <2>3
<1> QED BY <1>7, <1>8

\* The last command, when it is one with a callback.
LEMMA LastCallback ==
    ASSUME IInv, last # NoneYet, last.cmd.op \notin DirectMethods \cup {"MOVE", "FLUSHALL"}
    PROVE  /\ last.cmd \in Commands /\ last.sel \in DB
           /\ last.pre[last.sel] \in RedisDB /\ Agree(last.pre[last.sel])
           /\ \A k \in Key : Len(listAt(last.pre[last.sel], k)) <= MaxInt
           /\ \E p \in Callback(last.cmd, last.pre[last.sel]) :
                 p.db = dbs[last.sel] /\ p.reply = last.reply
<1> DEFINE o == [dbs |-> dbs, reply |-> last.reply]
           c == last.cmd
           sel == last.sel
           ds == last.pre
<1>1. /\ c \in Commands /\ sel \in DB /\ Sound(ds) /\ ds \in Start /\ o \in Possible(c, sel, ds)
  BY DEF IInv, History, Explained
<1>2. ds \in [DB -> RedisDB] /\ ds[sel] \in RedisDB /\ Agree(ds[sel])
  BY <1>1 DEF Sound
<1>3. \A k \in Key : Len(listAt(ds[sel], k)) <= MaxInt
  BY <1>1, CommandAssumption
<1>4. o.dbs = dbs /\ o.reply = last.reply
  OBVIOUS
<1>5. c.op \notin DirectMethods \cup {"MOVE", "FLUSHALL"}
  OBVIOUS
<1> HIDE DEF o, c, sel, ds
<1>6. PICK p \in Callback(c, ds[sel]) : o = [dbs |-> [ds EXCEPT ![sel] = p.db], reply |-> p.reply]
  BY <1>1, <1>5 DEF Possible, Outcomes
<1>7. o.dbs[sel] = p.db /\ o.reply = p.reply
  BY <1>1, <1>2, <1>6
<1> QED BY <1>1, <1>2, <1>3, <1>4, <1>6, <1>7 DEF c, sel, ds

\* What LRANGE answers and LTRIM leaves of a list.
LEMMA RangeOutcome ==
    ASSUME NEW c \in Commands, NEW db \in RedisDB, Agree(db), t(db, K(c)) = "list",
           c.op \in {"LRANGE", "LTRIM"}, Len(listAt(db, K(c))) <= MaxInt,
           NEW p \in Callback(c, db)
    PROVE  LET l == listAt(db, K(c))
               picked == IF c.m = MaxInt THEN <<>> ELSE RangeOf(l, c.n, c.m)
           IN  /\ c.op = "LRANGE" => p.reply = Array(picked)
               /\ c.op = "LTRIM" => listAt(p.db, K(c)) = picked
<1> DEFINE k == K(c)
           l == listAt(db, k)
           picked == IF c.m = MaxInt THEN <<>> ELSE RangeOf(l, c.n, c.m)
           r == slice(l, redisRange(Len(l), c.n, c.m))
<1>1. k \in Key /\ c.n \in Int64 /\ c.m \in Int64 /\ l \in Seq(Val)
  BY FirstKey, CommandArgs, ListAtType DEF Keyless
<1>2. r = picked /\ r \in Seq(Val)
  <2> HIDE DEF l
  <2>1. Len(l) <= MaxInt
    BY DEF l
  <2> QED BY <1>1, <2>1, SliceIsRange, SliceType
<1>3. exists(db, k)
  BY UntypedApart DEF exists, t
<1>4. CASE c.op = "LRANGE"
  <2>1. p \in One(db, Array(r))
    BY <1>3, <1>4 DEF Callback, cbLrange, OnList
  <2> HIDE DEF r, picked
  <2>2. p.reply = Array(r)
    BY <2>1, OneOutcome
  <2> QED BY <1>2, <1>4, <2>2 DEF picked
<1>5. CASE c.op = "LTRIM"
  <2>1. p \in One(keep(db, k, r), OK)
    BY <1>3, <1>5 DEF Callback, cbLtrim, OnList
  <2> HIDE DEF r, picked
  <2>2. p.db = keep(db, k, r)
    BY <2>1, OneOutcome
  <2>3. Leaves(db, p.db, k, r)
    BY <1>1, <1>2, <2>2, KeepLeaves
  <2>4. listAt(p.db, k) = r
    BY <1>1, <1>2, <2>3, LeavesValues
  <2> QED BY <1>2, <1>5, <2>4 DEF picked
<1> QED BY <1>4, <1>5

\* LRANGE answers and LTRIM keeps the elements whose positions are in the range, both ends
\* included, for every list and every pair of ints but the largest int as the end.
THEOREM RangesExact == Spec => []RangeExact
<1>1. IInv => RangeExact
  <2> SUFFICES ASSUME IInv PROVE RangeExact
    OBVIOUS
  <2>1. CASE RanOnList({"LRANGE", "LTRIM"})
    <3> DEFINE c == last.cmd
               db == last.pre[last.sel]
    <3>1. last # NoneYet /\ c.op \in {"LRANGE", "LTRIM"} /\ t(db, K(c)) = "list"
      BY <2>1 DEF RanOnList, Ran
    <3>2. PICK p \in Callback(c, db) : p.db = dbs[last.sel] /\ p.reply = last.reply
      BY <3>1, LastCallback DEF DirectMethods
    <3>3. c \in Commands /\ db \in RedisDB /\ Agree(db) /\ \A k \in Key : Len(listAt(db, k)) <= MaxInt
      BY <3>1, LastCallback DEF DirectMethods
    <3>4. Len(listAt(db, K(c))) <= MaxInt
      BY <3>1, <3>3, FirstKey DEF Keyless
    <3> DEFINE picked == IF c.m = MaxInt THEN <<>> ELSE RangeOf(listAt(db, K(c)), c.n, c.m)
    <3>5. /\ c.op = "LRANGE" => p.reply = Array(picked)
          /\ c.op = "LTRIM" => listAt(p.db, K(c)) = picked
      <4> HIDE DEF c, db
      <4> QED BY <3>1, <3>2, <3>3, <3>4, RangeOutcome
    <3> QED BY <3>2, <3>5 DEF RangeExact, RanOnList, Ran, Before, After
  <2>2. CASE ~RanOnList({"LRANGE", "LTRIM"})
    BY <2>2 DEF RangeExact, RanOnList, Ran
  <2> QED BY <2>1, <2>2
<1> QED BY <1>1, Invariance, PTL

\* The positions of S up to x, and those of rank j.
Upto(S, x)   == {y \in S : y <= x}
Ranked(S, j) == {x \in S : Cardinality(Upto(S, x)) = j}

\* The same positions of the rank.
LEMMA SameRank ==
    ASSUME NEW S, NEW j, NEW T, NEW i, Ranked(S, j) = Ranked(T, i)
    PROVE  Nth(S, j) = Nth(T, i)
BY DEF Ranked, Upto, Nth

\* One position of the rank.
LEMMA OnlyRank ==
    ASSUME NEW S, NEW j, NEW x, Ranked(S, j) = {x}
    PROVE  Nth(S, j) = x
BY TheOnly DEF Ranked, Upto

\* The number of positions up to one of them.
LEMMA UptoCounts ==
    ASSUME NEW S, IsFiniteSet(S), S \subseteq Nat, NEW x \in S
    PROVE  /\ IsFiniteSet(Upto(S, x)) /\ Cardinality(Upto(S, x)) \in Nat
           /\ 1 <= Cardinality(Upto(S, x)) /\ Cardinality(Upto(S, x)) <= Cardinality(S)
<1>1. Upto(S, x) \in SUBSET S /\ x \in Upto(S, x)
  BY DEF Upto
<1>2. IsFiniteSet(Upto(S, x)) /\ Cardinality(Upto(S, x)) <= Cardinality(S)
  BY <1>1, FS_Subset
<1>3. Cardinality(Upto(S, x)) \in Nat /\ Cardinality(Upto(S, x)) # 0
  BY <1>1, <1>2, FS_CardinalityType, FS_EmptySet
<1> QED BY <1>2, <1>3

\* What Pick answers, when it is known to be a list.
LEMMA PickList ==
    ASSUME NEW D, NEW l \in Seq(D), NEW S, IsFiniteSet(S), Pick(l, S) \in Seq(D)
    PROVE  /\ Cardinality(S) \in Nat /\ Len(Pick(l, S)) = Cardinality(S)
           /\ \A j \in 1..Cardinality(S) : Pick(l, S)[j] = l[Nth(S, j)]
<1> DEFINE c == Cardinality(S)
           r == Pick(l, S)
<1>1. c \in Nat
  BY FS_CardinalityType
<1>2. DOMAIN r = 1..c /\ \A j \in 1..c : r[j] = l[Nth(S, j)]
  BY DEF Pick
<1> HIDE DEF r, c
<1>3. Len(r) = c
  BY <1>1, <1>2, LenProperties DEF r
<1> QED BY <1>1, <1>2, <1>3 DEF r, c

\* The positions of S and m.
Plus(S, m) == S \cup {m}

\* A position beyond all others.
LEMMA PickLast ==
    ASSUME NEW D, NEW l \in Seq(D), NEW S, IsFiniteSet(S), S \subseteq Nat, NEW m \in Nat,
           \A y \in S : y < m, Pick(l, S) \in Seq(D), l[m] \in D
    PROVE  Pick(l, Plus(S, m)) = Append(Pick(l, S), l[m])
<1> DEFINE c == Cardinality(S)
           T == S \cup {m}
           r == Pick(l, S)
<1>1. c \in Nat /\ Len(r) = c /\ \A j \in 1..c : r[j] = l[Nth(S, j)]
  BY PickList
<1>2. m \notin S
  OBVIOUS
<1>3. IsFiniteSet(T) /\ Cardinality(T) = c + 1
  BY <1>2, FS_AddElement
<1>4. \A x \in S : Upto(T, x) = Upto(S, x)
  BY DEF Upto
<1>5. Upto(T, m) = T
  <2>1. \A y \in T : y <= m
    OBVIOUS
  <2> HIDE DEF T
  <2> QED BY <2>1 DEF Upto
<1> HIDE DEF T
<1>6. ASSUME NEW j \in 1..c PROVE Nth(T, j) = Nth(S, j)
  <2>1. Ranked(T, j) \subseteq Ranked(S, j)
    <3>1. m \notin Ranked(T, j)
      <4>1. Cardinality(Upto(T, m)) = c + 1 /\ c + 1 # j
        BY <1>1, <1>3, <1>5
      <4> HIDE DEF T, c
      <4> QED BY <4>1 DEF Ranked
    <3>2. \A x \in Ranked(T, j) : x \in T /\ Cardinality(Upto(T, x)) = j
      BY DEF Ranked
    <3> QED BY <1>4, <3>1, <3>2 DEF Ranked, T
  <2>2. Ranked(S, j) \subseteq Ranked(T, j)
    BY <1>4 DEF Ranked, T
  <2> HIDE DEF T
  <2>3. Ranked(T, j) = Ranked(S, j)
    BY <2>1, <2>2
  <2> QED BY <2>3, SameRank
<1>7. Nth(T, c + 1) = m
  <2>1. ASSUME NEW x \in S PROVE x \notin Ranked(T, c + 1)
    <3>1. Cardinality(Upto(T, x)) <= c /\ Cardinality(Upto(T, x)) \in Nat
      BY <1>4, UptoCounts
    <3> QED BY <1>1, <3>1 DEF Ranked
  <2>2. m \in Ranked(T, c + 1)
    BY <1>3, <1>5 DEF Ranked, T
  <2>3. Ranked(T, c + 1) \subseteq T
    BY DEF Ranked
  <2>4. Ranked(T, c + 1) = {m}
    BY <2>1, <2>2, <2>3 DEF T
  <2> DEFINE j == c + 1
  <2>5. Ranked(T, j) = {m}
    BY <2>4
  <2> HIDE DEF T, j
  <2>6. Nth(T, j) = m
    BY <2>5, OnlyRank
  <2> QED BY <2>6 DEF j
<1> DEFINE q == Pick(l, T)
<1>8. q = [j \in 1..(c + 1) |-> l[Nth(T, j)]]
  BY <1>3 DEF Pick
<1> HIDE DEF T, c, r, q
<1>9. r \in Seq(D)
  BY DEF r
<1> DEFINE a == Append(r, l[m])
<1>10. /\ a \in Seq(D) /\ Len(a) = c + 1 /\ \A j \in 1..c : a[j] = r[j]
       /\ a[c + 1] = l[m]
  BY <1>1, <1>9, AppendProperties
<1> HIDE DEF a
<1>11. a = [j \in 1..(c + 1) |-> a[j]]
  BY <1>1, <1>10, LenProperties
<1>12. \A j \in 1..(c + 1) : a[j] = l[Nth(T, j)]
  BY <1>1, <1>6, <1>7, <1>10
<1>13. a = q
  BY <1>8, <1>11, <1>12
<1> QED BY <1>13 DEF a, q, T, r, Plus

\* A position before all others.
LEMMA PickFirst ==
    ASSUME NEW D, NEW l \in Seq(D), NEW S, IsFiniteSet(S), S \subseteq Nat, NEW m \in Nat,
           \A y \in S : m < y, Pick(l, S) \in Seq(D), l[m] \in D
    PROVE  Pick(l, Plus(S, m)) = <<l[m]>> \o Pick(l, S)
<1> DEFINE c == Cardinality(S)
           T == S \cup {m}
           r == Pick(l, S)
<1>1. c \in Nat /\ Len(r) = c /\ \A j \in 1..c : r[j] = l[Nth(S, j)]
  BY PickList
<1>2. m \notin S
  OBVIOUS
<1>3. IsFiniteSet(T) /\ Cardinality(T) = c + 1
  BY <1>2, FS_AddElement
<1>4. ASSUME NEW x \in S
      PROVE  /\ Cardinality(Upto(T, x)) = Cardinality(Upto(S, x)) + 1
             /\ Cardinality(Upto(S, x)) \in Nat /\ 1 <= Cardinality(Upto(S, x))
  <2>1. Upto(T, x) = Upto(S, x) \cup {m} /\ m \notin Upto(S, x)
    BY DEF Upto
  <2>2. IsFiniteSet(Upto(S, x)) /\ Cardinality(Upto(S, x)) \in Nat /\ 1 <= Cardinality(Upto(S, x))
    BY UptoCounts
  <2> QED BY <2>1, <2>2, FS_AddElement
<1>5. Cardinality(Upto(T, m)) = 1
  <2>1. \A y \in T : y <= m <=> y = m
    OBVIOUS
  <2>2. m \in T
    OBVIOUS
  <2> HIDE DEF T
  <2>3. Upto(T, m) = {m}
    BY <2>1, <2>2 DEF Upto
  <2> QED BY <2>3, FS_Singleton
<1> HIDE DEF T
<1>6. ASSUME NEW j \in 1..c PROVE Nth(T, j + 1) = Nth(S, j)
  <2> DEFINE i == j + 1
  <2>1. Ranked(T, i) \subseteq Ranked(S, j)
    <3>1. m \notin Ranked(T, i)
      <4>1. i # 1
        OBVIOUS
      <4> HIDE DEF T, i
      <4> QED BY <1>5, <4>1 DEF Ranked
    <3>2. \A x \in Ranked(T, i) : x \in T /\ Cardinality(Upto(T, x)) = i
      BY DEF Ranked
    <3>3. ASSUME NEW x \in Ranked(T, i) PROVE x \in Ranked(S, j)
      <4>1. x \in S /\ Cardinality(Upto(T, x)) = i
        BY <3>1, <3>2 DEF T
      <4>2. Cardinality(Upto(S, x)) = j
        BY <1>4, <4>1
      <4> QED BY <4>1, <4>2 DEF Ranked
    <3> QED BY <3>3
  <2>2. ASSUME NEW x \in Ranked(S, j) PROVE x \in Ranked(T, i)
    <3>1. x \in S /\ x \in T /\ Cardinality(Upto(S, x)) = j
      BY DEF Ranked, T
    <3>2. Cardinality(Upto(T, x)) = i
      BY <1>4, <3>1
    <3> QED BY <3>1, <3>2 DEF Ranked
  <2> HIDE DEF T, i
  <2>3. Ranked(T, i) = Ranked(S, j)
    BY <2>1, <2>2
  <2>4. Nth(T, i) = Nth(S, j)
    BY <2>3, SameRank
  <2> QED BY <2>4 DEF i
<1>7. Nth(T, 1) = m
  <2>1. ASSUME NEW x \in S PROVE x \notin Ranked(T, 1)
    <3>1. Cardinality(Upto(T, x)) # 1
      BY <1>4
    <3> QED BY <3>1 DEF Ranked
  <2>2. m \in Ranked(T, 1)
    <3>1. m \in T
      BY DEF T
    <3> HIDE DEF T
    <3> QED BY <1>5, <3>1 DEF Ranked
  <2>3. Ranked(T, 1) \subseteq T
    BY DEF Ranked
  <2>4. Ranked(T, 1) = {m}
    BY <2>1, <2>2, <2>3 DEF T
  <2> QED BY <2>4, OnlyRank
<1> DEFINE q == Pick(l, T)
           z == <<l[m]>>
           a == z \o r
<1>8. q = [j \in 1..(c + 1) |-> l[Nth(T, j)]]
  BY <1>3 DEF Pick
<1>9. z \in Seq(D) /\ Len(z) = 1 /\ z[1] = l[m] /\ r \in Seq(D)
  OBVIOUS
<1> HIDE DEF T, c, r, q, z
<1>10. /\ a \in Seq(D) /\ Len(a) = c + 1
       /\ \A j \in 1..(c + 1) : a[j] = IF j <= 1 THEN z[j] ELSE r[j - 1]
  <2>1. /\ a \in Seq(D) /\ Len(a) = Len(z) + Len(r)
        /\ \A j \in 1..(Len(z) + Len(r)) : a[j] = IF j <= Len(z) THEN z[j] ELSE r[j - Len(z)]
    BY <1>9, ConcatProperties
  <2> HIDE DEF a
  <2> QED BY <1>1, <1>9, <2>1
<1> HIDE DEF a
<1>11. a = [j \in 1..(c + 1) |-> a[j]]
  BY <1>1, <1>10, LenProperties
<1>12. ASSUME NEW j \in 1..(c + 1) PROVE a[j] = l[Nth(T, j)]
  <2>1. CASE j = 1
    BY <1>7, <1>9, <1>10, <2>1
  <2>2. CASE j # 1
    <3>1. j - 1 \in 1..c /\ (j - 1) + 1 = j /\ ~(j <= 1)
      BY <1>1, <2>2
    <3>2. Nth(T, j) = Nth(S, j - 1)
      BY <1>6, <3>1
    <3> QED BY <1>1, <1>10, <3>1, <3>2
  <2> QED BY <2>1, <2>2
<1>13. a = q
  BY <1>8, <1>11, <1>12
<1> QED BY <1>13 DEF a, q, z, T, r, Plus

\* How many of the first i elements are x, and how many of those from i on.
CountIn(l, x, I) == Cardinality({h \in I : l[h] = x})
CountL(l, x, i)  == CountIn(l, x, 1..i)
CountR(l, x, i)  == CountIn(l, x, i..Len(l))

\* The occurrences at some of finitely many positions.
LEMMA CountType ==
    ASSUME NEW l, NEW x, NEW I, IsFiniteSet(I)
    PROVE  /\ IsFiniteSet({h \in I : l[h] = x})
           /\ CountIn(l, x, I) \in Nat /\ CountIn(l, x, I) <= Cardinality(I)
<1> DEFINE S == {h \in I : l[h] = x}
<1>1. S \in SUBSET I
  OBVIOUS
<1> HIDE DEF S
<1>2. IsFiniteSet(S) /\ Cardinality(S) <= Cardinality(I) /\ Cardinality(S) \in Nat
  BY <1>1, FS_Subset, FS_CardinalityType
<1> QED BY <1>2 DEF S, CountIn

\* Counting one more position.
LEMMA CountMore ==
    ASSUME NEW l, NEW x, NEW I, IsFiniteSet(I), NEW J, NEW m, m \notin I,
           \A h : h \in J <=> h \in I \/ h = m
    PROVE  /\ l[m] = x => CountIn(l, x, J) = CountIn(l, x, I) + 1
           /\ l[m] # x => CountIn(l, x, J) = CountIn(l, x, I)
<1> DEFINE S == {h \in I : l[h] = x}
           T == {h \in J : l[h] = x}
<1>1. IsFiniteSet(S)
  BY CountType
<1>2. m \notin S /\ \A h : h \in T <=> (h \in S \/ (h = m /\ l[m] = x))
  OBVIOUS
<1>3. CountIn(l, x, I) = Cardinality(S) /\ CountIn(l, x, J) = Cardinality(T)
  BY DEF CountIn
<1> HIDE DEF S, T
<1>4. ASSUME l[m] # x PROVE T = S
  BY <1>2, <1>4
<1>5. ASSUME l[m] = x PROVE Cardinality(T) = Cardinality(S) + 1
  <2>1. T = S \cup {m}
    BY <1>2, <1>5
  <2> QED BY <1>1, <1>2, <2>1, FS_AddElement
<1> QED BY <1>3, <1>4, <1>5

\* Counting from the left.
LEMMA CountLeft ==
    ASSUME NEW l, NEW x
    PROVE  /\ CountL(l, x, 0) = 0
           /\ \A i \in Nat : CountL(l, x, i) \in Nat /\ CountL(l, x, i) <= i
<1>1. CountL(l, x, 0) = 0
  <2>1. {h \in 1..0 : l[h] = x} = {}
    OBVIOUS
  <2> QED BY <2>1, FS_EmptySet DEF CountL, CountIn
<1>2. ASSUME NEW i \in Nat
      PROVE  CountL(l, x, i) \in Nat /\ CountL(l, x, i) <= i
  <2> DEFINE I == 1..i
  <2>1. IsFiniteSet(I) /\ Cardinality(I) = i
    BY FS_Interval
  <2> HIDE DEF I
  <2>2. CountIn(l, x, I) \in Nat /\ CountIn(l, x, I) <= i
    BY <2>1, CountType
  <2> QED BY <2>2 DEF I, CountL
<1> QED BY <1>1, <1>2

\* One more element from the left.
LEMMA CountLeftStep ==
    ASSUME NEW l, NEW x, NEW i \in Nat, NEW m \in Nat, m = i + 1
    PROVE  /\ l[m] = x => CountL(l, x, m) = CountL(l, x, i) + 1
           /\ l[m] # x => CountL(l, x, m) = CountL(l, x, i)
<1> DEFINE I == 1..i
           J == 1..m
<1>0. IsFiniteSet(I)
  BY FS_Interval
<1>1. m \notin I /\ \A h : h \in J <=> h \in I \/ h = m
  OBVIOUS
<1> HIDE DEF I, J
<1>2. /\ l[m] = x => CountIn(l, x, J) = CountIn(l, x, I) + 1
      /\ l[m] # x => CountIn(l, x, J) = CountIn(l, x, I)
  BY <1>0, <1>1, CountMore
<1> QED BY <1>2 DEF I, J, CountL

\* Counting from the right.
LEMMA CountRight ==
    ASSUME NEW l, NEW x, Len(l) \in Nat
    PROVE  /\ CountR(l, x, Len(l) + 1) = 0
           /\ \A i \in 1..(Len(l) + 1) : CountR(l, x, i) \in Nat
<1> DEFINE L == Len(l)
<1>1. CountR(l, x, L + 1) = 0
  <2>1. {h \in (L + 1)..L : l[h] = x} = {}
    OBVIOUS
  <2> QED BY <2>1, FS_EmptySet DEF CountR, CountIn
<1>2. ASSUME NEW i \in 1..(L + 1) PROVE CountR(l, x, i) \in Nat
  <2> DEFINE I == i..L
  <2>1. IsFiniteSet(I)
    BY FS_Interval
  <2> HIDE DEF I
  <2>2. CountIn(l, x, I) \in Nat
    BY <2>1, CountType
  <2> QED BY <2>2 DEF I, CountR
<1> QED BY <1>1, <1>2

\* One more element from the right.
LEMMA CountRightStep ==
    ASSUME NEW l, NEW x, Len(l) \in Nat, NEW m \in 1..Len(l), NEW i \in Nat, i = m + 1
    PROVE  /\ l[m] = x => CountR(l, x, m) = CountR(l, x, i) + 1
           /\ l[m] # x => CountR(l, x, m) = CountR(l, x, i)
<1> DEFINE I == i..Len(l)
           J == m..Len(l)
<1>0. IsFiniteSet(I)
  BY FS_Interval
<1>1. m \notin I /\ \A h : h \in J <=> h \in I \/ h = m
  OBVIOUS
<1> HIDE DEF I, J
<1>2. /\ l[m] = x => CountIn(l, x, J) = CountIn(l, x, I) + 1
      /\ l[m] # x => CountIn(l, x, J) = CountIn(l, x, I)
  BY <1>0, <1>1, CountMore
<1> QED BY <1>2 DEF I, J, CountR

\* What a loop that deletes at most n occurrences of x spares of the first i elements.
SparedL(l, x, n, i) == {j \in 1..i : l[j] # x \/ CountL(l, x, j) > n}

\* One more element is spared, or not.
LEMMA SparedStep ==
    ASSUME NEW D, NEW l \in Seq(D), NEW x, NEW n, NEW i \in Nat, NEW m \in Nat, m = i + 1
    PROVE  /\ SparedL(l, x, n, i) \subseteq Nat /\ IsFiniteSet(SparedL(l, x, n, i))
           /\ \A y \in SparedL(l, x, n, i) : y < m
           /\ l[m] # x \/ CountL(l, x, m) > n
                 => SparedL(l, x, n, m) = Plus(SparedL(l, x, n, i), m)
           /\ ~(l[m] # x \/ CountL(l, x, m) > n)
                 => SparedL(l, x, n, m) = SparedL(l, x, n, i)
<1> DEFINE S == SparedL(l, x, n, i)
           T == SparedL(l, x, n, m)
           b == l[m] # x \/ CountL(l, x, m) > n
<1>2. S \subseteq 1..i
  BY DEF SparedL
<1>3. IsFiniteSet(S)
  <2> DEFINE I == 1..i
  <2>1. IsFiniteSet(I) /\ S \in SUBSET I
    BY <1>2, FS_Interval
  <2> HIDE DEF I, S
  <2> QED BY <2>1, FS_Subset
<1>4. \A h : h \in 1..m <=> h \in 1..i \/ h = m
  OBVIOUS
<1>5. \A h : h \in T <=> (h \in S \/ (h = m /\ b))
  BY <1>4 DEF SparedL
<1>6. S \subseteq Nat /\ \A y \in S : y < m
  BY <1>2
<1> HIDE DEF S, T, b
<1>7. ASSUME b PROVE T = Plus(S, m)
  BY <1>5, <1>7 DEF Plus
<1>8. ASSUME ~b PROVE T = S
  BY <1>5, <1>8
<1> QED BY <1>3, <1>6, <1>7, <1>8 DEF S, T, b

\* The loop of LREM: its new list are the elements it spares, and it counts down.
LEMMA LoopSpares ==
    ASSUME NEW D, NEW l \in Seq(D), NEW x, NEW n \in Nat
    PROVE  dropFirst(l, x, n) = Pick(l, SparedL(l, x, n, Len(l)))
<1> DEFINE L == Len(l)
           f == lremLoop(l, x, n)
           C(i) == CountL(l, x, i)
           S(i) == SparedL(l, x, n, i)
           Good == {i \in 0..L : /\ f[i].newL = Pick(l, S(i))
                                 /\ f[i].left = IF C(i) >= n THEN 0 ELSE n - C(i)}
<1>1. L \in Nat /\ \A i \in 1..L : l[i] \in D
  BY LenProperties, ElementOfSeq
<1>2. /\ f \in [0..L -> [newL : Seq(D), left : Int]]
      /\ f[0] = [newL |-> <<>>, left |-> n]
      /\ \A i \in 1..L : f[i] = IF l[i] = x /\ f[i - 1].left > 0
                                THEN [newL |-> f[i - 1].newL, left |-> f[i - 1].left - 1]
                                ELSE [newL |-> Append(f[i - 1].newL, l[i]), left |-> f[i - 1].left]
  BY LoopType
<1> HIDE DEF f
<1>3. 0 \in Good
  <2>1. C(0) = 0
    BY CountLeft
  <2>2. S(0) = {}
    BY DEF SparedL
  <2>3. Pick(l, S(0)) = <<>>
    BY <2>2, PickNothing
  <2> HIDE DEF C, S
  <2> QED BY <1>1, <1>2, <2>1, <2>3
<1>4. ASSUME NEW i \in 0..(L - 1), i \in Good PROVE i + 1 \in Good
  <2> DEFINE m == i + 1
             acc == f[i]
  <2>1. i \in Nat /\ m \in 1..L /\ m - 1 = i /\ i \in 0..L
    BY <1>1
  <2>2. /\ acc.newL \in Seq(D) /\ acc.newL = Pick(l, S(i))
        /\ acc.left = IF C(i) >= n THEN 0 ELSE n - C(i)
    BY <1>2, <1>4, <2>1
  <2>3. f[m] = IF l[m] = x /\ acc.left > 0
               THEN [newL |-> acc.newL, left |-> acc.left - 1]
               ELSE [newL |-> Append(acc.newL, l[m]), left |-> acc.left]
    BY <1>2, <2>1
  <2>4. C(i) \in Nat /\ C(m) = C(i) + (IF l[m] = x THEN 1 ELSE 0)
    <3>1. CountL(l, x, i) \in Nat
      BY <2>1, CountLeft
    <3>2. m = i + 1 /\ m \in Nat
      BY <2>1
    <3> HIDE DEF m
    <3>3. /\ l[m] = x => CountL(l, x, m) = CountL(l, x, i) + 1
          /\ l[m] # x => CountL(l, x, m) = CountL(l, x, i)
      BY <2>1, <3>2, CountLeftStep
    <3> QED BY <3>1, <3>3
  <2>5. /\ S(i) \subseteq Nat /\ IsFiniteSet(S(i)) /\ \A y \in S(i) : y < m
        /\ l[m] # x \/ C(m) > n => S(m) = Plus(S(i), m)
        /\ ~(l[m] # x \/ C(m) > n) => S(m) = S(i)
    <3>1. m = i + 1 /\ m \in Nat
      BY <2>1
    <3> HIDE DEF L, m
    <3> QED BY <2>1, <3>1, SparedStep
  <2>6. Pick(l, Plus(S(i), m)) = Append(Pick(l, S(i)), l[m])
    <3> DEFINE U == S(i)
    <3>1. /\ IsFiniteSet(U) /\ U \subseteq Nat /\ m \in Nat /\ \A y \in U : y < m
          /\ Pick(l, U) \in Seq(D) /\ l[m] \in D
      BY <1>1, <2>1, <2>2, <2>5
    <3> HIDE DEF U, m
    <3>2. Pick(l, Plus(U, m)) = Append(Pick(l, U), l[m])
      BY <3>1, PickLast
    <3> QED BY <3>2 DEF U
  <2> HIDE DEF C, S, acc
  <2>7. CASE l[m] = x /\ acc.left > 0
    <3>1. C(i) < n /\ acc.left = n - C(i) /\ C(m) = C(i) + 1
      BY <2>2, <2>4, <2>7
    <3>2. S(m) = S(i)
      BY <2>4, <2>5, <2>7, <3>1
    <3>3. f[m].newL = acc.newL /\ f[m].left = acc.left - 1
      BY <2>3, <2>7
    <3>4. f[m].newL = Pick(l, S(m))
      BY <2>2, <3>2, <3>3
    <3>5. f[m].left = IF C(m) >= n THEN 0 ELSE n - C(m)
      <4> HIDE DEF m
      <4> QED BY <2>4, <3>1, <3>3
    <3> QED BY <2>1, <3>4, <3>5
  <2>8. CASE ~(l[m] = x /\ acc.left > 0)
    <3>1. f[m].newL = Append(acc.newL, l[m]) /\ f[m].left = acc.left
      BY <2>3, <2>8
    <3>2. l[m] # x \/ C(m) > n
      <4> HIDE DEF m
      <4> QED BY <2>2, <2>4, <2>8
    <3>3. f[m].newL = Pick(l, S(m))
      BY <2>2, <2>5, <2>6, <3>1, <3>2
    <3>4. f[m].left = IF C(m) >= n THEN 0 ELSE n - C(m)
      <4> HIDE DEF m
      <4> QED BY <2>2, <2>4, <2>8, <3>1
    <3> QED BY <2>1, <3>3, <3>4
  <2> QED BY <2>7, <2>8
<1>5. \A i \in 0..L : i \in Good
  <2> HIDE DEF Good
  <2> QED BY <1>1, <1>3, <1>4, UpTo
<1>6. f[L].newL = Pick(l, S(L))
  BY <1>1, <1>5
<1> QED BY <1>6 DEF dropFirst, f

\* What a loop from the right spares of the elements from i on.
SparedR(l, x, n, i) == {j \in i..Len(l) : l[j] # x \/ CountR(l, x, j) > n}

\* One more element from the right is spared, or not.
LEMMA SparedBack ==
    ASSUME NEW l, NEW x, NEW n, Len(l) \in Nat,
           NEW m \in 1..Len(l), NEW i \in Nat, i = m + 1
    PROVE  /\ SparedR(l, x, n, i) \subseteq Nat /\ IsFiniteSet(SparedR(l, x, n, i))
           /\ \A y \in SparedR(l, x, n, i) : m < y
           /\ l[m] # x \/ CountR(l, x, m) > n
                 => SparedR(l, x, n, m) = Plus(SparedR(l, x, n, i), m)
           /\ ~(l[m] # x \/ CountR(l, x, m) > n)
                 => SparedR(l, x, n, m) = SparedR(l, x, n, i)
<1> DEFINE S == SparedR(l, x, n, i)
           T == SparedR(l, x, n, m)
           b == l[m] # x \/ CountR(l, x, m) > n
<1>2. S \subseteq i..Len(l)
  BY DEF SparedR
<1>3. IsFiniteSet(S)
  <2> DEFINE I == i..Len(l)
  <2>1. IsFiniteSet(I) /\ S \in SUBSET I
    BY <1>2, FS_Interval
  <2> HIDE DEF I, S
  <2> QED BY <2>1, FS_Subset
<1>4. \A h : h \in m..Len(l) <=> h \in i..Len(l) \/ h = m
  OBVIOUS
<1>5. \A h : h \in T <=> (h \in S \/ (h = m /\ b))
  BY <1>4 DEF SparedR
<1>6. S \subseteq Nat /\ \A y \in S : m < y
  BY <1>2
<1> HIDE DEF S, T, b
<1>7. ASSUME b PROVE T = Plus(S, m)
  BY <1>5, <1>7 DEF Plus
<1>8. ASSUME ~b PROVE T = S
  BY <1>5, <1>8
<1> QED BY <1>3, <1>6, <1>7, <1>8 DEF S, T, b

\* Reversing a longer list.
LEMMA ReverseAppend ==
    ASSUME NEW D, NEW s \in Seq(D), NEW e \in D
    PROVE  Reverse(Append(s, e)) = <<e>> \o Reverse(s)
<1> DEFINE n == Len(s)
           a == Append(s, e)
           z == <<e>>
           r == Reverse(s)
           q == z \o r
<1>1. /\ n \in Nat /\ a \in Seq(D) /\ Len(a) = n + 1
      /\ a[n + 1] = e /\ \A i \in 1..n : a[i] = s[i]
  BY LenProperties, AppendProperties
<1>2. r = [i \in 1..n |-> s[(n - i) + 1]] /\ r \in Seq(D)
  BY ReverseType DEF Reverse
<1> HIDE DEF r
<1>3. Len(r) = n
  BY <1>1, <1>2, LenProperties
<1>4. z \in Seq(D) /\ Len(z) = 1 /\ z[1] = e
  OBVIOUS
<1>40. r \in Seq(D)
  BY <1>2
<1> HIDE DEF z, n, a
<1>5. /\ q \in Seq(D) /\ Len(q) = Len(z) + Len(r)
      /\ \A j \in 1..(Len(z) + Len(r)) : q[j] = IF j <= Len(z) THEN z[j] ELSE r[j - Len(z)]
  BY <1>4, <1>40, ConcatProperties
<1> HIDE DEF q
<1>6. /\ Len(q) = n + 1
      /\ \A j \in 1..(n + 1) : q[j] = IF j <= 1 THEN z[j] ELSE r[j - 1]
  BY <1>1, <1>3, <1>4, <1>5
<1>7. ASSUME NEW j \in 1..(n + 1) PROVE q[j] = a[((n + 1) - j) + 1]
  <2>1. CASE j = 1
    BY <1>1, <1>4, <1>6, <2>1
  <2>2. CASE j # 1
    <3>1. j - 1 \in 1..n /\ ~(j <= 1) /\ ((n + 1) - j) + 1 \in 1..n
          /\ (n - (j - 1)) + 1 = ((n + 1) - j) + 1
      BY <1>1, <2>2
    <3>2. r[j - 1] = s[(n - (j - 1)) + 1]
      BY <1>2, <3>1
    <3> QED BY <1>1, <1>6, <3>1, <3>2
  <2> QED BY <2>1, <2>2
<1>8. q = [j \in 1..(n + 1) |-> q[j]]
  BY <1>1, <1>5, <1>6, LenProperties
<1>9. Reverse(a) = [j \in 1..(n + 1) |-> a[((n + 1) - j) + 1]]
  BY <1>1 DEF Reverse
<1>10. q = Reverse(a)
  BY <1>7, <1>8, <1>9
<1> QED BY <1>10 DEF q, a, z, r

\* The loop of LREM over the reversed list.
LEMMA LoopSparesBack ==
    ASSUME NEW D, NEW l \in Seq(D), NEW x, NEW n \in Nat
    PROVE  Reverse(dropFirst(Reverse(l), x, n)) = Pick(l, SparedR(l, x, n, 1))
<1> DEFINE L == Len(l)
           k == Reverse(l)
           f == lremLoop(k, x, n)
           C(i) == CountR(l, x, i)
           S(i) == SparedR(l, x, n, i)
           At(i) == (L - i) + 1
           Good == {i \in 0..L : /\ Reverse(f[i].newL) = Pick(l, S(At(i)))
                                 /\ f[i].left = IF C(At(i)) >= n THEN 0 ELSE n - C(At(i))}
<1>1. L \in Nat /\ \A i \in 1..L : l[i] \in D
  BY LenProperties, ElementOfSeq
<1>2. k \in Seq(D) /\ Len(k) = L /\ \A i \in 1..L : k[i] = l[At(i)]
  <2>1. k \in Seq(D) /\ k = [i \in 1..L |-> l[(L - i) + 1]]
    BY ReverseType DEF Reverse
  <2> HIDE DEF k
  <2> QED BY <1>1, <2>1, LenProperties
<1> HIDE DEF k
<1>3. /\ f \in [0..L -> [newL : Seq(D), left : Int]]
      /\ f[0] = [newL |-> <<>>, left |-> n]
      /\ \A i \in 1..L : f[i] = IF k[i] = x /\ f[i - 1].left > 0
                                THEN [newL |-> f[i - 1].newL, left |-> f[i - 1].left - 1]
                                ELSE [newL |-> Append(f[i - 1].newL, k[i]), left |-> f[i - 1].left]
  BY <1>2, LoopType
<1> HIDE DEF f
<1>4. 0 \in Good
  <2>1. At(0) = L + 1
    BY <1>1
  <2>2. C(L + 1) = 0
    BY <1>1, CountRight
  <2>3. S(L + 1) = {}
    BY <1>1 DEF SparedR
  <2>4. Pick(l, S(L + 1)) = <<>>
    BY <2>3, PickNothing
  <2>5. Reverse(<<>>) = <<>>
    BY DEF Reverse
  <2> HIDE DEF C, S, At
  <2> QED BY <1>1, <1>3, <2>1, <2>2, <2>4, <2>5
<1>5. ASSUME NEW i \in 0..(L - 1), i \in Good PROVE i + 1 \in Good
  <2> DEFINE j == i + 1
             m == At(j)
             p == At(i)
             acc == f[i]
  <2>1. /\ i \in Nat /\ j \in 1..L /\ j - 1 = i /\ i \in 0..L
        /\ m \in 1..L /\ p \in Nat /\ p = m + 1 /\ p \in 1..(L + 1)
    BY <1>1
  <2>2. /\ acc.newL \in Seq(D) /\ Reverse(acc.newL) = Pick(l, S(p))
        /\ acc.left = IF C(p) >= n THEN 0 ELSE n - C(p)
    BY <1>3, <1>5, <2>1
  <2>3. f[j] = IF l[m] = x /\ acc.left > 0
               THEN [newL |-> acc.newL, left |-> acc.left - 1]
               ELSE [newL |-> Append(acc.newL, l[m]), left |-> acc.left]
    BY <1>2, <1>3, <2>1
  <2> HIDE DEF m, p
  <2>4. C(p) \in Nat /\ C(m) = C(p) + (IF l[m] = x THEN 1 ELSE 0)
    <3>1. CountR(l, x, p) \in Nat
      BY <1>1, <2>1, CountRight
    <3>3. /\ l[m] = x => CountR(l, x, m) = CountR(l, x, p) + 1
          /\ l[m] # x => CountR(l, x, m) = CountR(l, x, p)
      BY <1>1, <2>1, CountRightStep
    <3> QED BY <3>1, <3>3
  <2>5. /\ S(p) \subseteq Nat /\ IsFiniteSet(S(p)) /\ \A y \in S(p) : m < y
        /\ l[m] # x \/ C(m) > n => S(m) = Plus(S(p), m)
        /\ ~(l[m] # x \/ C(m) > n) => S(m) = S(p)
    BY <1>1, <2>1, SparedBack
  <2>6. Pick(l, Plus(S(p), m)) = <<l[m]>> \o Pick(l, S(p))
    <3> DEFINE U == S(p)
    <3>0. Reverse(acc.newL) \in Seq(D)
      BY <2>2, ReverseType
    <3>1. /\ IsFiniteSet(U) /\ U \subseteq Nat /\ m \in Nat /\ \A y \in U : m < y
          /\ Pick(l, U) \in Seq(D) /\ l[m] \in D
      BY <1>1, <2>1, <2>2, <2>5, <3>0
    <3> HIDE DEF U
    <3>2. Pick(l, Plus(U, m)) = <<l[m]>> \o Pick(l, U)
      BY <3>1, PickFirst
    <3> QED BY <3>2 DEF U
  <2> HIDE DEF C, S, acc, j, At
  <2>7. CASE l[m] = x /\ acc.left > 0
    <3>1. C(p) < n /\ acc.left = n - C(p) /\ C(m) = C(p) + 1
      BY <2>2, <2>4, <2>7
    <3>2. S(m) = S(p)
      BY <2>4, <2>5, <2>7, <3>1
    <3>3. f[j].newL = acc.newL /\ f[j].left = acc.left - 1
      BY <2>3, <2>7
    <3>4. Reverse(f[j].newL) = Pick(l, S(m))
      BY <2>2, <3>2, <3>3
    <3>5. f[j].left = IF C(m) >= n THEN 0 ELSE n - C(m)
      BY <2>4, <3>1, <3>3
    <3> QED BY <2>1, <3>4, <3>5 DEF m, j
  <2>8. CASE ~(l[m] = x /\ acc.left > 0)
    <3>1. f[j].newL = Append(acc.newL, l[m]) /\ f[j].left = acc.left
      BY <2>3, <2>8
    <3>2. l[m] # x \/ C(m) > n
      BY <2>2, <2>4, <2>8
    <3>3. l[m] \in D
      BY <1>1, <2>1
    <3>4. Reverse(Append(acc.newL, l[m])) = <<l[m]>> \o Reverse(acc.newL)
      BY <2>2, <3>3, ReverseAppend
    <3>5. Reverse(f[j].newL) = Pick(l, S(m))
      BY <2>2, <2>5, <2>6, <3>1, <3>2, <3>4
    <3>6. f[j].left = IF C(m) >= n THEN 0 ELSE n - C(m)
      BY <2>2, <2>4, <2>8, <3>1
    <3> QED BY <2>1, <3>5, <3>6 DEF m, j
  <2> QED BY <2>7, <2>8
<1>6. \A i \in 0..L : i \in Good
  <2> HIDE DEF Good
  <2> QED BY <1>1, <1>4, <1>5, UpTo
<1>7. At(L) = 1 /\ L \in 0..L
  BY <1>1
<1>8. Reverse(f[L].newL) = Pick(l, S(1))
  BY <1>6, <1>7
<1> QED BY <1>2, <1>8 DEF dropFirst, f, k

\* The loop of LREM with nothing to delete.
LEMMA LoopKeeps ==
    ASSUME NEW D, NEW l \in Seq(D), NEW x, NEW n \in Int, n <= 0
    PROVE  dropFirst(l, x, n) = l
<1> DEFINE L == Len(l)
           f == lremLoop(l, x, n)
           Good == {i \in 0..L : /\ Len(f[i].newL) = i /\ f[i].left = n
                                 /\ \A j \in 1..i : f[i].newL[j] = l[j]}
<1>1. L \in Nat /\ \A i \in 1..L : l[i] \in D
  BY LenProperties, ElementOfSeq
<1>2. /\ f \in [0..L -> [newL : Seq(D), left : Int]]
      /\ f[0] = [newL |-> <<>>, left |-> n]
      /\ \A i \in 1..L : f[i] = IF l[i] = x /\ f[i - 1].left > 0
                                THEN [newL |-> f[i - 1].newL, left |-> f[i - 1].left - 1]
                                ELSE [newL |-> Append(f[i - 1].newL, l[i]), left |-> f[i - 1].left]
  BY LoopType
<1> HIDE DEF f
<1>3. 0 \in Good
  BY <1>1, <1>2
<1>4. ASSUME NEW i \in 0..(L - 1), i \in Good PROVE i + 1 \in Good
  <2> DEFINE m == i + 1
             s == f[i].newL
  <2>1. i \in Nat /\ m \in 1..L /\ m - 1 = i /\ i \in 0..L
    BY <1>1
  <2>2. s \in Seq(D) /\ Len(s) = i /\ f[i].left = n /\ \A j \in 1..i : s[j] = l[j]
    BY <1>2, <1>4, <2>1
  <2>3. f[m] = IF l[m] = x /\ f[i].left > 0
               THEN [newL |-> s, left |-> f[i].left - 1]
               ELSE [newL |-> Append(s, l[m]), left |-> f[i].left]
    BY <1>2, <2>1
  <2>4. ~ (f[i].left > 0)
    BY <2>2
  <2>5. f[m] = [newL |-> Append(s, l[m]), left |-> n]
    BY <2>2, <2>3, <2>4
  <2>6. l[m] \in D
    BY <1>1, <2>1
  <2> HIDE DEF s
  <2>7. /\ Len(Append(s, l[m])) = m /\ Append(s, l[m])[m] = l[m]
        /\ \A j \in 1..i : Append(s, l[m])[j] = l[j]
    BY <2>1, <2>2, <2>6, AppendProperties
  <2>8. \A j \in 1..m : j = m \/ j \in 1..i
    BY <2>1
  <2>9. m \in 0..L
    BY <1>1, <2>1
  <2> DEFINE g == Append(s, l[m])
  <2>10. f[m].newL = g /\ f[m].left = n
    BY <2>5
  <2>11. Len(g) = m /\ g[m] = l[m] /\ \A j \in 1..i : g[j] = l[j]
    BY <2>7
  <2> HIDE DEF m, g
  <2>12. \A j \in 1..m : g[j] = l[j]
    BY <2>8, <2>11
  <2>13. Len(f[m].newL) = m /\ \A j \in 1..m : f[m].newL[j] = l[j]
    BY <2>10, <2>11, <2>12
  <2>14. m \in Good
    BY <2>9, <2>10, <2>13, Zenon
  <2> QED BY <2>14 DEF m
<1>5. \A i \in 0..L : i \in Good
  <2> HIDE DEF Good
  <2> QED BY <1>1, <1>3, <1>4, UpTo
<1>6. L \in 0..L
  BY <1>1
<1>7. /\ f[L].newL \in Seq(D) /\ Len(f[L].newL) = Len(l)
      /\ \A j \in 1..Len(l) : f[L].newL[j] = l[j]
  BY <1>2, <1>5, <1>6
<1> DEFINE s == f[L].newL
<1>8. s = l
  <2>1. s \in Seq(D) /\ Len(s) = Len(l) /\ \A j \in 1..Len(l) : s[j] = l[j]
    BY <1>7
  <2> HIDE DEF s
  <2> QED BY <2>1, SeqEqual
<1> QED BY <1>8 DEF dropFirst, f

\* Reversed twice, a list is itself.
LEMMA ReverseTwice ==
    ASSUME NEW D, NEW l \in Seq(D)
    PROVE  Reverse(Reverse(l)) = l
<1> DEFINE r == Reverse(l)
           z == Reverse(r)
<1>1. Len(l) \in Nat
  BY LenProperties
<1>2. r \in Seq(D) /\ r = [i \in 1..Len(l) |-> l[(Len(l) - i) + 1]]
  BY ReverseType DEF Reverse
<1> HIDE DEF r
<1>3. Len(r) = Len(l)
  BY <1>1, <1>2, LenProperties
<1>4. z \in Seq(D) /\ z = [i \in 1..Len(r) |-> r[(Len(r) - i) + 1]]
  BY <1>2, ReverseType DEF Reverse
<1> HIDE DEF z
<1>5. Len(z) = Len(l)
  BY <1>1, <1>3, <1>4, LenProperties
<1>6. ASSUME NEW i \in 1..Len(l) PROVE z[i] = l[i]
  <2>1. (Len(l) - i) + 1 \in 1..Len(l) /\ (Len(l) - ((Len(l) - i) + 1)) + 1 = i
    BY <1>1
  <2> QED BY <1>2, <1>3, <1>4, <2>1
<1>7. z = l
  BY <1>4, <1>5, <1>6, SeqEqual
<1> QED BY <1>7 DEF z, r

\* LREM deletes what the reference says, for every count.
LEMMA LremIsWithout ==
    ASSUME NEW D, NEW l \in Seq(D), NEW n \in Int64, NEW x
    PROVE  lrem(l, n, x) = Without(l, n, x)
<1>4. CASE n = MinInt
  <2>1. n < 0 /\ toDelete(l, n) = n /\ n \in Int /\ n <= 0
    BY <1>4, MaxIntAssumption DEF toDelete, negate, MinInt
  <2>2. lrem(l, n, x) = Reverse(dropFirst(Reverse(l), x, n))
    BY <2>1 DEF lrem
  <2>3. Reverse(l) \in Seq(D)
    BY ReverseType
  <2>4. dropFirst(Reverse(l), x, n) = Reverse(l)
    BY <2>1, <2>3, LoopKeeps
  <2> QED BY <1>4, <2>2, <2>4, ReverseTwice DEF Without
<1> SUFFICES ASSUME n # MinInt PROVE lrem(l, n, x) = Without(l, n, x)
  BY <1>4
<1> DEFINE N == toDelete(l, n)
<1>0. DOMAIN l = 1..Len(l)
  BY LenProperties
<1>1. /\ Len(l) \in Nat /\ N \in Nat
      /\ n < 0 => N = -n
      /\ n > 0 => N = n
      /\ n = 0 => N = Len(l)
  BY LenProperties, MaxIntAssumption DEF toDelete, negate, Int64, MinInt
<1>2. CASE n < 0
  <2>1. \A i : Rank(l, n, x, i) = CountR(l, x, i)
    BY <1>2 DEF Rank, CountR, CountIn
  <2>2. Spared(l, n, x) = SparedR(l, x, N, 1)
    <3> HIDE DEF N
    <3> QED BY <1>0, <1>1, <1>2, <2>1 DEF Spared, SparedR
  <2>3. lrem(l, n, x) = Reverse(dropFirst(Reverse(l), x, N))
    BY <1>2 DEF lrem
  <2> HIDE DEF N
  <2>4. Reverse(dropFirst(Reverse(l), x, N)) = Pick(l, SparedR(l, x, N, 1))
    BY <1>1, LoopSparesBack
  <2> QED BY <2>2, <2>3, <2>4 DEF Without
<1>3. CASE ~(n < 0)
  <2>1. \A i : Rank(l, n, x, i) = CountL(l, x, i)
    BY <1>3 DEF Rank, CountL, CountIn
  <2>2. Spared(l, n, x) = SparedL(l, x, N, Len(l))
    <3> HIDE DEF N
    <3>1. ASSUME NEW i \in 1..Len(l)
          PROVE  (n # 0 /\ Rank(l, n, x, i) > (IF n < 0 THEN -n ELSE n))
                    <=> CountL(l, x, i) > N
      <4> DEFINE c == CountL(l, x, i)
      <4>0. i \in Nat /\ i <= Len(l)
        BY <1>1
      <4>1. c \in Nat /\ c <= i
        BY <4>0, CountLeft
      <4>2. Rank(l, n, x, i) = c
        BY <2>1
      <4>9. n \in Int
        BY MaxIntAssumption DEF Int64, MinInt
      <4>3. n \in Nat /\ (n # 0 => N = n) /\ (n = 0 => N = Len(l))
        BY <1>1, <1>3, <4>9
      <4> HIDE DEF c
      <4>4. (n # 0 /\ c > n) <=> c > N
        BY <1>1, <4>0, <4>1, <4>3
      <4> QED BY <1>3, <4>2, <4>4 DEF c
    <3> DEFINE P(i) == n # 0 /\ Rank(l, n, x, i) > (IF n < 0 THEN -n ELSE n)
               Q(i) == CountL(l, x, i) > N
    <3>2. \A i \in 1..Len(l) : P(i) <=> Q(i)
      BY <3>1
    <3>3. /\ Spared(l, n, x) = {i \in 1..Len(l) : l[i] # x \/ P(i)}
          /\ SparedL(l, x, N, Len(l)) = {i \in 1..Len(l) : l[i] # x \/ Q(i)}
      BY <1>0 DEF Spared, SparedL
    <3> HIDE DEF P, Q
    <3> QED BY <3>2, <3>3
  <2>3. lrem(l, n, x) = dropFirst(l, x, N)
    BY <1>3 DEF lrem
  <2> HIDE DEF N
  <2>4. dropFirst(l, x, N) = Pick(l, SparedL(l, x, N, Len(l)))
    BY <1>1, LoopSpares
  <2> QED BY <2>2, <2>3, <2>4 DEF Without
<1> QED BY <1>2, <1>3

\* The elements of a part of a list.
LEMMA PartOf ==
    ASSUME NEW D, NEW l \in Seq(D), NEW a \in Nat, 1 <= a, NEW b \in Nat, b <= Len(l),
           a <= b + 1, NEW n \in Nat, n = (b + 1) - a
    PROVE  /\ SubSeq(l, a, b) \in Seq(D) /\ Len(SubSeq(l, a, b)) = n
           /\ \A j \in 1..n : SubSeq(l, a, b)[j] = l[(a + j) - 1]
<1>1. Len(l) \in Nat
  BY LenProperties
<1>2. \A i \in a..b : l[i] \in D
  BY <1>1, ElementOfSeq
<1> DEFINE s == SubSeq(l, a, b)
<1>3. /\ s \in Seq(D) /\ Len(s) = IF a <= b THEN b - a + 1 ELSE 0
      /\ \A i \in 1..(b - a + 1) : s[i] = l[a + i - 1]
  BY <1>2, SubSeqProperties
<1> HIDE DEF s
<1>4. Len(s) = n /\ \A j \in 1..n : s[j] = l[(a + j) - 1]
  BY <1>3
<1> QED BY <1>3, <1>4 DEF s

\* Inserting an element shifts those behind it, and removing it gives the list back.
LEMMA InsertShape ==
    ASSUME NEW D, NEW l \in Seq(D), NEW v \in D, NEW p \in Nat, 1 <= p, p <= Len(l) + 1
    PROVE  /\ InsertAt(l, p, v) \in Seq(D)
           /\ Len(InsertAt(l, p, v)) = Len(l) + 1
           /\ InsertAt(l, p, v)[p] = v
           /\ \A j \in 1..(p - 1) : InsertAt(l, p, v)[j] = l[j]
           /\ \A j \in p..Len(l) : InsertAt(l, p, v)[j + 1] = l[j]
<1> DEFINE L == Len(l)
           n == p - 1
           m == (L + 1) - p
           x == SubSeq(l, 1, n)
           y == SubSeq(l, p, L)
           z == <<v>>
           w == x \o z
           a == w \o y
<1>1. L \in Nat /\ n \in Nat /\ m \in Nat /\ n <= L
  BY LenProperties
<1>2. x \in Seq(D) /\ Len(x) = n /\ \A j \in 1..n : x[j] = l[(1 + j) - 1]
  <2>1. 1 \in Nat /\ 1 <= n + 1 /\ n = (n + 1) - 1
    BY <1>1
  <2> HIDE DEF n
  <2> QED BY <1>1, <2>1, PartOf
<1>3. y \in Seq(D) /\ Len(y) = m /\ \A j \in 1..m : y[j] = l[(p + j) - 1]
  <2>1. p <= L + 1 /\ L <= Len(l) /\ m = (L + 1) - p
    BY <1>1
  <2> HIDE DEF m, L
  <2> QED BY <1>1, <2>1, PartOf
<1>4. z \in Seq(D) /\ Len(z) = 1 /\ z[1] = v
  OBVIOUS
<1>5. a = InsertAt(l, p, v)
  BY DEF InsertAt
<1> HIDE DEF x, y, z
<1>6. /\ w \in Seq(D) /\ Len(w) = Len(x) + Len(z)
      /\ \A j \in 1..(Len(x) + Len(z)) : w[j] = IF j <= Len(x) THEN x[j] ELSE z[j - Len(x)]
  BY <1>2, <1>4, ConcatProperties
<1> HIDE DEF w
<1>66. w \in Seq(D) /\ y \in Seq(D)
  BY <1>3, <1>6
<1>7. /\ a \in Seq(D) /\ Len(a) = Len(w) + Len(y)
      /\ \A j \in 1..(Len(w) + Len(y)) : a[j] = IF j <= Len(w) THEN w[j] ELSE y[j - Len(w)]
  BY <1>66, ConcatProperties
<1> HIDE DEF a
<1>8. Len(w) = p /\ (\A j \in 1..n : w[j] = l[j]) /\ w[p] = v
  <2>1. Len(w) = p
    BY <1>1, <1>2, <1>4, <1>6
  <2>2. ASSUME NEW j \in 1..n PROVE w[j] = l[j]
    <3>1. w[j] = x[j] /\ (1 + j) - 1 = j
      BY <1>1, <1>2, <1>4, <1>6
    <3> QED BY <1>2, <3>1
  <2>3. w[p] = z[1]
    BY <1>1, <1>2, <1>4, <1>6
  <2> QED BY <1>4, <2>1, <2>2, <2>3
<1>9. Len(a) = L + 1
  BY <1>1, <1>3, <1>7, <1>8
<1>10. a[p] = v /\ \A j \in 1..n : a[j] = l[j]
  <2>1. \A j \in 1..p : a[j] = w[j]
    BY <1>1, <1>3, <1>7, <1>8
  <2> QED BY <1>1, <1>8, <2>1
<1>11. ASSUME NEW j \in p..L PROVE a[j + 1] = l[j]
  <2> DEFINE i == (j + 1) - p
  <2>1. i \in 1..m /\ (p + i) - 1 = j
    BY <1>1
  <2>2. a[j + 1] = y[i]
    BY <1>1, <1>3, <1>7, <1>8
  <2>3. y[i] = l[(p + i) - 1]
    <3> HIDE DEF i, m
    <3> QED BY <1>3, <2>1
  <2> QED BY <2>1, <2>2, <2>3
<1> QED BY <1>5, <1>7, <1>9, <1>10, <1>11

\* Removing the element that was inserted.
LEMMA InsertRemove ==
    ASSUME NEW D, NEW l \in Seq(D), NEW v \in D, NEW p \in Nat, 1 <= p, p <= Len(l) + 1
    PROVE  RemoveAt(InsertAt(l, p, v), p) = l
<1> DEFINE L == Len(l)
           a == InsertAt(l, p, v)
           n == p - 1
           m == (L + 1) - p
           x == SubSeq(a, 1, n)
           y == SubSeq(a, p + 1, L + 1)
           q == x \o y
<1>1. L \in Nat /\ n \in Nat /\ m \in Nat
  BY LenProperties
<1>2. /\ a \in Seq(D) /\ Len(a) = L + 1
      /\ \A j \in 1..n : a[j] = l[j]
      /\ \A j \in p..L : a[j + 1] = l[j]
  BY InsertShape
<1>3. q = RemoveAt(a, p)
  BY <1>2 DEF RemoveAt
<1> HIDE DEF a
<1>4. x \in Seq(D) /\ Len(x) = n /\ \A j \in 1..n : x[j] = a[(1 + j) - 1]
  <2>1. 1 \in Nat /\ 1 <= n + 1 /\ n = (n + 1) - 1 /\ n <= Len(a)
    BY <1>1, <1>2
  <2> HIDE DEF n
  <2> QED BY <1>1, <1>2, <2>1, PartOf
<1>5. y \in Seq(D) /\ Len(y) = m /\ \A j \in 1..m : y[j] = a[((p + 1) + j) - 1]
  <2> DEFINE s == p + 1
             e == L + 1
  <2>1. s <= e + 1 /\ e <= Len(a) /\ m = (e + 1) - s /\ s \in Nat /\ 1 <= s /\ e \in Nat
    BY <1>1, <1>2
  <2> HIDE DEF m, L, s, e
  <2>2. /\ SubSeq(a, s, e) \in Seq(D) /\ Len(SubSeq(a, s, e)) = m
        /\ \A j \in 1..m : SubSeq(a, s, e)[j] = a[(s + j) - 1]
    BY <1>1, <1>2, <2>1, PartOf
  <2> QED BY <2>2 DEF s, e
<1> HIDE DEF x, y
<1>6. /\ q \in Seq(D) /\ Len(q) = Len(x) + Len(y)
      /\ \A j \in 1..(Len(x) + Len(y)) : q[j] = IF j <= Len(x) THEN x[j] ELSE y[j - Len(x)]
  BY <1>4, <1>5, ConcatProperties
<1> HIDE DEF q
<1>7. Len(q) = L
  BY <1>1, <1>4, <1>5, <1>6
<1>8. ASSUME NEW j \in 1..L PROVE q[j] = l[j]
  <2>0. q[j] = IF j <= n THEN x[j] ELSE y[j - n]
    <3>1. Len(x) + Len(y) = L /\ Len(x) = n
      BY <1>1, <1>4, <1>5
    <3> QED BY <1>6, <3>1
  <2>1. CASE j <= n
    <3>1. (1 + j) - 1 = j /\ j \in 1..n
      BY <1>1, <2>1
    <3> QED BY <1>2, <1>4, <2>0, <2>1, <3>1
  <2>2. CASE ~(j <= n)
    <3> DEFINE i == j - n
    <3>1. i \in 1..m /\ ((p + 1) + i) - 1 = j + 1 /\ j \in p..L
      BY <1>1, <2>2
    <3>2. y[i] = a[((p + 1) + i) - 1]
      <4> HIDE DEF i, m
      <4> QED BY <1>5, <3>1
    <3> QED BY <1>2, <2>0, <2>2, <3>1, <3>2
  <2> QED BY <2>1, <2>2
<1>9. q = l
  <2> HIDE DEF L
  <2>1. Len(q) = Len(l) /\ \A j \in 1..Len(q) : q[j] = l[j]
    BY <1>7, <1>8 DEF L
  <2> QED BY <1>6, <2>1, SeqEqual
<1> QED BY <1>3, <1>9 DEF a

\* The position of the pivot: the first one, if there is any.
LEMMA PivotFirst ==
    ASSUME NEW D, NEW l \in Seq(D), NEW pivot
    PROVE  /\ pivotAt(l, pivot) = 0 <=> pivot \notin ToSet(l)
           /\ pivotAt(l, pivot) # 0 =>
                 /\ pivotAt(l, pivot) \in 1..Len(l)
                 /\ l[pivotAt(l, pivot)] = pivot
                 /\ \A j \in 1..Len(l) : j < pivotAt(l, pivot) => l[j] # pivot
<1> DEFINE I == {j \in 1..Len(l) : l[j] = pivot}
           i == pivotAt(l, pivot)
<1>1. Len(l) \in Nat /\ DOMAIN l = 1..Len(l)
  BY LenProperties
<1>2. i = IF I # {} THEN Min(I) ELSE 0
  BY DEF pivotAt, SelectInSeq
<1>3. pivot \in ToSet(l) <=> I # {}
  BY <1>1 DEF ToSet
<1>4. I \in SUBSET (1..Len(l)) /\ I \subseteq Nat
  OBVIOUS
<1>5. ASSUME I # {} PROVE Min(I) \in I /\ \A y \in I : Min(I) <= y
  <2> HIDE DEF I
  <2>1. \E x \in I : \A y \in I : x =< y
    BY <1>4, <1>5, LeastNat
  <2> QED BY <2>1, Zenon DEF Min
<1>6. ASSUME I # {} PROVE i \in 1..Len(l) /\ l[i] = pivot /\ i # 0 /\ \A y \in I : i <= y
  BY <1>2, <1>5, <1>6
<1>7. ASSUME I # {} PROVE \A j \in 1..Len(l) : j < i => l[j] # pivot
  <2>1. i \in 1..Len(l) /\ \A y \in I : i <= y
    BY <1>6, <1>7
  <2> HIDE DEF i
  <2> QED BY <1>1, <2>1
<1> HIDE DEF I
<1> QED BY <1>2, <1>3, <1>6, <1>7

\* LREM leaves what the reference says and answers how many it deleted.
LEMMA LremOutcome ==
    ASSUME NEW c \in Commands, NEW db \in RedisDB, Agree(db), t(db, K(c)) = "list",
           c.op = "LREM", NEW p \in Callback(c, db)
    PROVE  /\ listAt(p.db, K(c)) = Without(listAt(db, K(c)), c.n, V(c))
           /\ p.reply = IntReply(Len(listAt(db, K(c))) - Len(listAt(p.db, K(c))))
<1> DEFINE k == K(c)
           l == listAt(db, k)
           r == lrem(l, c.n, V(c))
<1>1. k \in Key /\ c.n \in Int64 /\ l \in Seq(Val)
  BY FirstKey, CommandArgs, ListAtType DEF Keyless
<1>2. r = Without(l, c.n, V(c)) /\ r \in Seq(Val)
  <2> HIDE DEF l
  <2> QED BY <1>1, LremIsWithout, LremType
<1>3. exists(db, k)
  BY UntypedApart DEF exists, t
<1>4. p \in One(keep(db, k, r), IntReply(Len(l) - Len(r)))
  BY <1>3 DEF Callback, cbLrem, OnList
<1> HIDE DEF r
<1>5. p.db = keep(db, k, r) /\ p.reply = IntReply(Len(l) - Len(r))
  BY <1>4, OneOutcome
<1>6. Leaves(db, p.db, k, r)
  BY <1>1, <1>2, <1>5, KeepLeaves
<1>7. listAt(p.db, k) = r
  BY <1>1, <1>2, <1>6, LeavesValues
<1> QED BY <1>2, <1>5, <1>7

\* A list that replaces a list, read again.
LEMMA RelistReads ==
    ASSUME NEW db \in RedisDB, Agree(db), NEW k \in Key, NEW l \in Seq(Val), t(db, k) = "list",
           NEW e, e = bump([db EXCEPT !.listKeys[k] = l], k, 1)
    PROVE  listAt(e, k) = l /\ t(e, k) = "list" /\ exists(e, k)
<1>1. Becomes(db, e, k, "list", l, Nil)
  BY RelistBecomes
<1>2. e.keys[k] = "list" /\ e.listKeys[k] = l
  BY <1>1, BecomesEntries
<1> QED BY <1>2, NotNil, UntypedApart DEF listAt, t, exists

\* The new element of LINSERT is before or after the first occurrence of the pivot.
InsertedAt(a, b, n, pivot, v, i) ==
    LET p == IF n < 0 THEN i + 1 ELSE i - 1 IN
    /\ RemoveAt(a, i) = b
    /\ a[i] = v
    /\ p \in DOMAIN a /\ a[p] = pivot
    /\ \A j \in 1..(p - 1) : j # i => a[j] # pivot

\* What linsert makes of a list with the pivot.
LEMMA LinsertShape ==
    ASSUME NEW D, NEW l \in Seq(D), NEW n \in Int, NEW pivot, NEW v \in D,
           pivotAt(l, pivot) # 0
    PROVE  /\ linsert(l, n, pivot, v) \in Seq(D)
           /\ Len(linsert(l, n, pivot, v)) = Len(l) + 1
           /\ \E i \in DOMAIN linsert(l, n, pivot, v) :
                 InsertedAt(linsert(l, n, pivot, v), l, n, pivot, v, i)
<1> DEFINE q == pivotAt(l, pivot)
           i == IF n < 0 THEN q ELSE q + 1
           a == InsertAt(l, i, v)
           p == IF n < 0 THEN i + 1 ELSE i - 1
<1>1. Len(l) \in Nat
  BY LenProperties
<1>2. q \in 1..Len(l) /\ l[q] = pivot /\ \A j \in 1..Len(l) : j < q => l[j] # pivot
  BY PivotFirst
<1>3. a = linsert(l, n, pivot, v)
  BY DEF linsert
<1> HIDE DEF q
<1>4. i \in Nat /\ 1 <= i /\ i <= Len(l) + 1
  BY <1>1, <1>2
<1>5. /\ a \in Seq(D) /\ Len(a) = Len(l) + 1 /\ a[i] = v
      /\ \A j \in 1..(i - 1) : a[j] = l[j]
      /\ \A j \in i..Len(l) : a[j + 1] = l[j]
  <2> HIDE DEF i
  <2>1. l \in Seq(D) /\ v \in D
    OBVIOUS
  <2> QED BY <2>1, <1>4, InsertShape, SMTT(30)
<1>6. RemoveAt(a, i) = l
  <2> HIDE DEF i
  <2> QED BY <1>4, InsertRemove
<1> HIDE DEF a
<1>7. DOMAIN a = 1..(Len(l) + 1)
  BY <1>5, LenProperties
<1>8. /\ p \in 1..(Len(l) + 1) /\ a[p] = pivot
      /\ \A j \in 1..(p - 1) : j # i => a[j] # pivot
  <2>1. CASE n < 0
    <3>1. i = q /\ p = q + 1
      BY <2>1
    <3>2. a[q + 1] = l[q]
      BY <1>1, <1>2, <1>5, <3>1
    <3>3. ASSUME NEW j \in 1..q, j # q PROVE a[j] # pivot
      <4>1. j \in 1..(q - 1) /\ j \in 1..Len(l) /\ j < q
        BY <1>1, <1>2, <3>3
      <4>2. a[j] = l[j]
        BY <1>5, <3>1, <4>1
      <4> QED BY <1>2, <4>1, <4>2
    <3>4. p \in 1..(Len(l) + 1) /\ p - 1 = q
      BY <1>1, <1>2, <3>1
    <3> HIDE DEF i, p
    <3> QED BY <1>2, <3>1, <3>2, <3>3, <3>4
  <2>2. CASE ~(n < 0)
    <3>1. i = q + 1 /\ p = q
      BY <1>2, <2>2
    <3>2. a[q] = l[q]
      BY <1>1, <1>2, <1>5, <3>1
    <3>3. ASSUME NEW j \in 1..(q - 1) PROVE a[j] # pivot
      <4>1. j \in 1..(i - 1) /\ j \in 1..Len(l) /\ j < q
        BY <1>1, <1>2, <3>1
      <4>2. a[j] = l[j]
        BY <1>5, <4>1
      <4> QED BY <1>2, <4>1, <4>2
    <3>4. p \in 1..(Len(l) + 1)
      BY <1>1, <1>2, <3>1
    <3> HIDE DEF i, p
    <3> QED BY <1>2, <3>1, <3>2, <3>3, <3>4
  <2> QED BY <2>1, <2>2
<1>9. i \in 1..(Len(l) + 1)
  BY <1>1, <1>4
<1>10. InsertedAt(a, l, n, pivot, v, i)
  BY <1>5, <1>6, <1>7, <1>8 DEF InsertedAt
<1> HIDE DEF i
<1> QED BY <1>3, <1>5, <1>7, <1>9, <1>10

\* LINSERT.
LEMMA LinsertOutcome ==
    ASSUME NEW c \in Commands, NEW db \in RedisDB, Agree(db), t(db, K(c)) = "list",
           c.op = "LINSERT", NEW p \in Callback(c, db)
    PROVE  LET a == listAt(p.db, K(c))
               b == listAt(db, K(c))
           IN  /\ a # b => \E i \in DOMAIN a : InsertedAt(a, b, c.n, c.vals[1], c.vals[2], i)
               /\ a = b <=> c.vals[1] \notin ToSet(b)
<1> DEFINE k == K(c)
           l == listAt(db, k)
           pivot == c.vals[1]
           v == c.vals[2]
           m == linsert(l, c.n, pivot, v)
           e == bump([db EXCEPT !.listKeys[k] = m], k, 1)
<1>1. k \in Key /\ c.n \in Int /\ l \in Seq(Val) /\ v \in Val
  BY FirstKey, CommandArgs, ListAtType, MaxIntAssumption DEF Keyless, Int64, MinInt
<1>2. exists(db, k)
  BY UntypedApart DEF exists, t
<1>3. p \in IF pivotAt(l, pivot) = 0 THEN One(db, IntReply(-1)) ELSE One(e, IntReply(Len(l) + 1))
  BY <1>2 DEF Callback, cbLinsert, OnList
<1>4. pivotAt(l, pivot) = 0 <=> pivot \notin ToSet(l)
  BY <1>1, PivotFirst
<1>5. CASE pivotAt(l, pivot) = 0
  <2>1. p.db = db
    BY <1>3, <1>5, OneOutcome
  <2> QED BY <1>4, <1>5, <2>1
<1>6. CASE pivotAt(l, pivot) # 0
  <2>1. p.db = e
    BY <1>3, <1>6, OneOutcome
  <2>2. /\ m \in Seq(Val) /\ Len(m) = Len(l) + 1
        /\ \E i \in DOMAIN m : InsertedAt(m, l, c.n, pivot, v, i)
    <3> HIDE DEF l, pivot, v
    <3> QED BY <1>1, <1>6, LinsertShape
  <2>3. listAt(e, k) = m
    <3>1. e = bump([db EXCEPT !.listKeys[k] = m], k, 1)
      OBVIOUS
    <3>2. m \in Seq(Val) /\ k \in Key /\ t(db, k) = "list"
      BY <1>1, <2>2
    <3> HIDE DEF m, e, k
    <3> QED BY <3>1, <3>2, RelistReads
  <2>4. m # l
    BY <1>1, <2>2, LenProperties
  <2> HIDE DEF m, e, l, k, pivot, v
  <2>5. /\ listAt(p.db, k) # l /\ pivot \in ToSet(l)
        /\ \E i \in DOMAIN listAt(p.db, k) : InsertedAt(listAt(p.db, k), l, c.n, pivot, v, i)
    BY <1>4, <1>6, <2>1, <2>2, <2>3, <2>4
  <2> DEFINE a == listAt(p.db, k)
             b == l
  <2>6. /\ a # b => \E i \in DOMAIN a : InsertedAt(a, b, c.n, pivot, v, i)
        /\ a = b <=> pivot \notin ToSet(b)
    BY <2>5
  <2> QED BY <2>6 DEF l, k, pivot, v
<1> QED BY <1>5, <1>6

\* LSET changes the one element LINDEX answers, or refuses the index.
LEMMA LsetOutcome ==
    ASSUME NEW c \in Commands, NEW db \in RedisDB, Agree(db), t(db, K(c)) = "list",
           c.op = "LSET", NEW p \in Callback(c, db)
    PROVE  LET a == listAt(p.db, K(c))
               b == listAt(db, K(c))
           IN  /\ p.reply = OK =>
                     /\ Len(a) = Len(b)
                     /\ cbLindex(c, p.db) = One(p.db, Bulk(V(c)))
                     /\ Cardinality({i \in DOMAIN a : a[i] # b[i]}) <= 1
               /\ p.reply = OK <=> c.n \in (-Len(b))..(Len(b) - 1)
<1> DEFINE k == K(c)
           l == listAt(db, k)
           L == Len(l)
           v == V(c)
           n == c.n
           q == position(l, n)
           i == q + 1
           m == [db.listKeys[k] EXCEPT ![i] = v]
           e == bump([db EXCEPT !.listKeys[k][i] = v], k, 1)
<1>1. /\ k \in Key /\ n \in Int /\ l \in Seq(Val) /\ v \in Val /\ L \in Nat /\ l = db.listKeys[k]
  BY FirstKey, CommandArgs, ListAtType, ListEntryAt, LenProperties, MaxIntAssumption
     DEF Keyless, OneValue, Int64, MinInt
<1>2. exists(db, k)
  BY UntypedApart DEF exists, t
<1>3. p \in IF outOfRange(l, q) THEN One(db, <<"error", "out of range">>) ELSE One(e, OK)
  BY <1>2 DEF Callback, cbLset, OnList
<1>4. outOfRange(l, q) <=> n \notin (-L)..(L - 1)
  BY <1>1 DEF outOfRange, position
<1>5. CASE outOfRange(l, q)
  <2> DEFINE r == <<"error", "out of range">>
  <2>1. p \in One(db, r) /\ r[1] = "error"
    BY <1>3, <1>5
  <2> HIDE DEF r
  <2>2. p.reply[1] = "error"
    BY <2>1, OneOutcome
  <2>3. p.reply # OK
    BY <2>2, ReplyKinds
  <2> QED BY <1>4, <1>5, <2>3
<1>6. CASE ~outOfRange(l, q)
  <2>1. p.db = e /\ p.reply = OK
    BY <1>3, <1>6, OneOutcome
  <2>2. i \in 1..L /\ q \in Int
    BY <1>1, <1>6 DEF position, outOfRange
  <2>3. /\ m \in Seq(Val) /\ Len(m) = L
        /\ \A j \in 1..L : m[j] = IF j = i THEN v ELSE l[j]
    BY <1>1, <2>2, ExceptSeq
  <2>4. e = bump([db EXCEPT !.listKeys[k] = m], k, 1)
    OBVIOUS
  <2> HIDE DEF m, e
  <2>5. listAt(e, k) = m /\ t(e, k) = "list" /\ exists(e, k)
    BY <1>1, <2>3, <2>4, RelistReads
  <2>6. position(m, n) = q /\ ~outOfRange(m, q) /\ m[q + 1] = v
    <3>1. position(m, n) = q /\ ~outOfRange(m, q)
      BY <1>6, <2>3 DEF position, outOfRange
    <3>2. m[i] = v
      <4> HIDE DEF i
      <4> QED BY <2>2, <2>3
    <3> QED BY <3>1, <3>2
  <2> HIDE DEF q
  <2>7. cbLindex(c, e) = One(e, Bulk(v))
    BY <2>5, <2>6 DEF cbLindex, OnList
  <2> DEFINE T == {j \in DOMAIN m : m[j] # l[j]}
  <2>8. T \in SUBSET {i}
    <3>1. DOMAIN m = 1..L
      BY <2>3, LenProperties
    <3> HIDE DEF i
    <3> QED BY <2>3, <3>1
  <2>9. Cardinality(T) <= 1
    <3> HIDE DEF T
    <3> DEFINE I == {i}
    <3>1. IsFiniteSet(I) /\ Cardinality(I) = 1
      BY FS_Singleton
    <3>2. T \in SUBSET I
      BY <2>8
    <3> HIDE DEF I
    <3> QED BY <3>1, <3>2, FS_Subset
  <2> HIDE DEF T
  <2>10. n \in (-L)..(L - 1)
    BY <1>4, <1>6 DEF q
  <2> DEFINE a == listAt(p.db, k)
  <2>11. /\ Len(a) = L /\ cbLindex(c, p.db) = One(p.db, Bulk(v))
         /\ Cardinality({j \in DOMAIN a : a[j] # l[j]}) <= 1
    BY <2>1, <2>3, <2>5, <2>7, <2>9 DEF T
  <2> QED BY <2>1, <2>10, <2>11
<1> QED BY <1>5, <1>6

\* LREM, LINSERT and LSET change exactly the positions they name, on every list.
THEOREM EditsAreExact == Spec => []EditsExact
<1>1. IInv => EditsExact
  <2> SUFFICES ASSUME IInv PROVE EditsExact
    OBVIOUS
  <2> DEFINE ops == {"LREM", "LINSERT", "LSET"}
             c == last.cmd
             db == last.pre[last.sel]
             e == dbs[last.sel]
             a == listAt(e, K(c))
             b == listAt(db, K(c))
  <2>1. CASE RanOnList(ops)
    <3>1. last # NoneYet /\ c.op \in ops /\ t(db, K(c)) = "list"
      BY <2>1 DEF RanOnList, Ran
    <3>2. PICK p \in Callback(c, db) : p.db = e /\ p.reply = last.reply
      BY <3>1, LastCallback DEF DirectMethods
    <3>3. c \in Commands /\ db \in RedisDB /\ Agree(db)
      BY <3>1, LastCallback DEF DirectMethods
    <3> HIDE DEF c, db, e
    <3>4. c.op = "LREM" =>
             a = Without(b, c.n, V(c)) /\ last.reply = IntReply(Len(b) - Len(a))
      BY <3>1, <3>2, <3>3, LremOutcome
    <3>5. c.op = "LINSERT" =>
             /\ a # b => \E i \in DOMAIN a : InsertedAt(a, b, c.n, c.vals[1], c.vals[2], i)
             /\ a = b <=> c.vals[1] \notin ToSet(b)
      BY <3>1, <3>2, <3>3, LinsertOutcome
    <3>6. c.op = "LSET" =>
             /\ last.reply = OK =>
                   /\ Len(a) = Len(b)
                   /\ cbLindex(c, e) = One(e, Bulk(V(c)))
                   /\ Cardinality({i \in DOMAIN a : a[i] # b[i]}) <= 1
             /\ last.reply = OK <=> c.n \in (-Len(b))..(Len(b) - 1)
      BY <3>1, <3>2, <3>3, LsetOutcome
    <3>7. Before = b /\ After = a
      BY DEF Before, After, c, db, e
    <3>8. RanOnList({"LREM"}) =>
             /\ After = Without(Before, last.cmd.n, V(last.cmd))
             /\ last.reply = IntReply(Len(Before) - Len(After))
      BY <3>4, <3>7 DEF RanOnList, Ran, c
    <3>9. RanOnList({"LINSERT"}) /\ After # Before =>
             \E i \in DOMAIN After :
                InsertedAt(After, Before, last.cmd.n, last.cmd.vals[1], last.cmd.vals[2], i)
      BY <3>5, <3>7 DEF RanOnList, Ran, c
    <3>10. RanOnList({"LINSERT"}) =>
              (After = Before <=> last.cmd.vals[1] \notin ToSet(Before))
      BY <3>5, <3>7 DEF RanOnList, Ran, c
    <3>11. RanOnList({"LSET"}) /\ last.reply = OK =>
              /\ Len(After) = Len(Before)
              /\ cbLindex(last.cmd, dbs[last.sel]) = One(dbs[last.sel], Bulk(V(last.cmd)))
              /\ Cardinality({i \in DOMAIN After : After[i] # Before[i]}) <= 1
      BY <3>6, <3>7 DEF RanOnList, Ran, c, e
    <3>12. RanOnList({"LSET"}) =>
              (last.reply = OK <=> last.cmd.n \in (-Len(Before))..(Len(Before) - 1))
      BY <3>6, <3>7 DEF RanOnList, Ran, c
    <3> QED BY <3>8, <3>9, <3>10, <3>11, <3>12, Zenon DEF EditsExact, InsertedAt
  <2>2. CASE ~RanOnList(ops)
    <3>1. ~RanOnList({"LREM"}) /\ ~RanOnList({"LINSERT"}) /\ ~RanOnList({"LSET"})
      BY <2>2 DEF RanOnList, Ran
    <3> QED BY <3>1 DEF EditsExact
  <2> QED BY <2>1, <2>2
<1> QED BY <1>1, Invariance, PTL

\* Every key is in the sequence of all keys.
LEMMA AllKeysListed == ToSet(SetToSeq(Key)) = Key
<1> DEFINE n == Cardinality(Key)
           I == 1..n
           f == SetToSeq(Key)
<1>1. n \in Nat /\ ExistsBijection(I, Key)
  BY KeyAssumption, FS_CardinalityType
<1>2. IsFiniteSet(I) /\ Cardinality(I) = n
  BY <1>1, FS_Interval
<1>3. \E g \in [I -> Key] : IsInjective(g)
  <2>1. PICK g : g \in Bijection(I, Key)
    BY <1>1 DEF ExistsBijection
  <2>2. g \in [I -> Key] /\ \A a, b \in I : g[a] = g[b] => a = b
    BY <2>1 DEF Bijection, Injection, IsInjective
  <2> QED BY <2>2 DEF IsInjective
<1>4. f \in [I -> Key] /\ IsInjective(f)
  BY <1>3, Zenon DEF SetToSeq
<1> HIDE DEF f, I
<1>5. f \in Injection(I, Key)
  BY <1>4 DEF Injection, IsInjective
<1>6. f \in Surjection(I, Key)
  BY <1>2, <1>5, KeyAssumption, FS_Injection
<1>7. \A k \in Key : \E i \in I : f[i] = k
  BY <1>6 DEF Surjection
<1>8. {f[i] : i \in DOMAIN f} = Key
  BY <1>4, <1>7
<1> QED BY <1>8 DEF ToSet, f

\* The whole list is its range from 0 to -1.
LEMMA WholeRange ==
    ASSUME NEW D, NEW l \in Seq(D), Len(l) <= MaxInt
    PROVE  slice(l, redisRange(Len(l), 0, -1)) = l
<1> DEFINE L == Len(l)
           r == redisRange(L, 0, -1)
<1>1. L \in Nat
  BY LenProperties
<1>2. r = <<0, L>>
  BY <1>1, MaxIntAssumption DEF redisRange, increment, MinInt
<1>3. r[1] + 1 = 1 /\ r[2] = L
  BY <1>2
<1> HIDE DEF r
<1>4. slice(l, r) = SubSeq(l, 1, L)
  BY <1>3 DEF slice
<1> QED BY <1>4, SubSeqFull DEF r

\* The outcome of a command, and that of the method it stands for.
Alike(db, k, o, p) ==
    /\ \A j \in Key : value(p.db, j) = value(o.db, j)
    /\ p.reply = o.reply \/ ~exists(db, k)

\* The same outcome, or the same database with another answer about an absent key.
LEMMA AlikeOne ==
    ASSUME NEW db, NEW k, NEW e, NEW r, NEW s, NEW M, NEW C, M = One(e, r), C = One(e, s),
           r = s \/ ~exists(db, k)
    PROVE  \A o \in M : \E p \in C : Alike(db, k, o, p)
<1> SUFFICES ASSUME NEW o \in M PROVE \E p \in C : Alike(db, k, o, p)
  OBVIOUS
<1> DEFINE p == [db |-> e, reply |-> s]
<1>1. p \in C /\ p.db = e /\ p.reply = s
  BY DEF One
<1>2. o.db = e /\ o.reply = r
  BY OneOutcome
<1> HIDE DEF p
<1> QED BY <1>1, <1>2 DEF Alike

\* Two databases that hold the same values.
LEMMA AlikeValues ==
    ASSUME NEW db, NEW k, NEW d, NEW e, NEW r, NEW M, NEW C, M = One(d, r), C = One(e, r),
           \A j \in Key : value(e, j) = value(d, j)
    PROVE  \A o \in M : \E p \in C : Alike(db, k, o, p)
<1> SUFFICES ASSUME NEW o \in M PROVE \E p \in C : Alike(db, k, o, p)
  OBVIOUS
<1> DEFINE p == [db |-> e, reply |-> r]
<1>1. p \in C /\ p.db = e /\ p.reply = r
  BY DEF One
<1>2. o.db = d /\ o.reply = r
  BY OneOutcome
<1> HIDE DEF p
<1> QED BY <1>1, <1>2 DEF Alike

\* The common preambles, which differ in their answer about an absent key only.
LEMMA AlikeOnType ==
    ASSUME NEW db, NEW k, NEW a, NEW b, NEW present
    PROVE  /\ \A o \in OnList(db, k, a, present) :
                 \E p \in OnList(db, k, b, present) : Alike(db, k, o, p)
           /\ \A o \in OnSet(db, k, a, present) :
                 \E p \in OnSet(db, k, b, present) : Alike(db, k, o, p)
<1>1. \A o : Alike(db, k, o, o)
  BY DEF Alike
<1>2. CASE exists(db, k)
  BY <1>1, <1>2 DEF OnList, OnSet
<1>3. CASE ~exists(db, k)
  <2>1. \A o \in One(db, a) : \E p \in One(db, b) : Alike(db, k, o, p)
    BY <1>3, AlikeOne
  <2> QED BY <1>3, <2>1 DEF OnList, OnSet
<1> QED BY <1>2, <1>3

\* Two changes of one key to the same entries hold the same values.
LEMMA BecomeAlike ==
    ASSUME NEW db \in RedisDB, NEW d, NEW e, NEW k \in Key, NEW a, NEW l, NEW s,
           Becomes(db, d, k, a, l, s), Becomes(db, e, k, a, l, s)
    PROVE  \A j \in Key : value(e, j) = value(d, j)
<1>1. /\ d.keys[k] = a /\ d.listKeys[k] = l /\ d.setKeys[k] = s
      /\ \A j \in Key \ {k} : Same(db, d, j)
  BY BecomesEntries
<1>2. /\ e.keys[k] = a /\ e.listKeys[k] = l /\ e.setKeys[k] = s
      /\ \A j \in Key \ {k} : Same(db, e, j)
  BY BecomesEntries
<1>3. \A j \in Key : /\ e.keys[j] = d.keys[j] /\ e.listKeys[j] = d.listKeys[j]
                     /\ e.setKeys[j] = d.setKeys[j]
  BY <1>1, <1>2 DEF Same
<1> QED BY <1>3 DEF value, t, listAt, setAt

\* What the command of a method is given.
LEMMA TwinArgs ==
    ASSUME NEW c
    PROVE  /\ Twin(c).n = 0 /\ Twin(c).m = -1
           /\ c.op # "Keys" => Twin(c).keys = <<K(c)>> /\ K(Twin(c)) = K(c)
           /\ c.op # "Lpush" => Twin(c).vals = c.vals /\ vset(Twin(c)) = vset(c)
                                /\ V(Twin(c)) = V(c)
           /\ c.op = "Keys" => Twin(c).keys = SetToSeq(Key)
           /\ c.op = "Lpush" => Twin(c).vals = <<V(c)>>
BY DEF Twin, K, V, vset

\* The command of a method.
LEMMA TwinOp ==
    ASSUME NEW c
    PROVE  /\ c.op = "List" => Twin(c).op = "LRANGE"
           /\ c.op = "Lpush" => Twin(c).op = "LPUSH"
           /\ c.op = "Push" => Twin(c).op = "RPUSH"
           /\ c.op = "Lpop" => Twin(c).op = "LPOP"
           /\ c.op = "Pop" => Twin(c).op = "RPOP"
           /\ c.op = "SetAdd" => Twin(c).op = "SADD"
           /\ c.op = "SRem" => Twin(c).op = "SREM"
           /\ c.op = "Members" => Twin(c).op = "SMEMBERS"
           /\ c.op = "Del" => Twin(c).op = "DEL"
           /\ c.op = "IsMember" => Twin(c).op = "SISMEMBER"
           /\ c.op = "Type" => Twin(c).op = "TYPE"
           /\ c.op = "Exists" => Twin(c).op = "EXISTS"
           /\ c.op = "Keys" => Twin(c).op = "KEYS"
           /\ c.op = "FlushDB" => Twin(c).op = "FLUSHDB"
           /\ c.op = "FlushAll" => Twin(c).op = "FLUSHALL"
BY DEF Twin

\* A method and its command, for every outcome of the method.
LikeTwin(c, db) ==
    \A o \in Method(c, db) : \E p \in Callback(Twin(c), db) : Alike(db, K(c), o, p)

\* List, and the methods that differ from their command in the answer about an absent
\* key only.
LEMMA ReadsLikeTwin ==
    ASSUME NEW c \in Commands, NEW db \in RedisDB, Agree(db),
           c.op \in {"List", "Lpop", "Pop", "SetAdd", "SRem", "Members", "IsMember"},
           Len(listAt(db, K(c))) <= MaxInt
    PROVE  LikeTwin(c, db)
<1> DEFINE k == K(c)
           l == listAt(db, k)
           T == Twin(c)
<1>1. k \in Key /\ l \in Seq(Val)
  BY FirstKey, ListAtType DEF Keyless
<1>2. T.n = 0 /\ T.m = -1 /\ K(T) = k /\ vset(T) = vset(c) /\ V(T) = V(c)
  BY TwinArgs
<1>3. CASE c.op = "List"
  <2>1. T.op = "LRANGE"
    BY <1>3, TwinOp
  <2> HIDE DEF T
  <2>2. slice(l, redisRange(Len(l), T.n, T.m)) = l
    <3> HIDE DEF l
    <3>1. Len(l) <= MaxInt
      BY DEF l
    <3> QED BY <1>1, <1>2, <3>1, WholeRange
  <2>3. Callback(T, db) = OnList(db, k, Array(<<>>), One(db, Array(l)))
    BY <1>2, <2>1, <2>2 DEF Callback, cbLrange
  <2>4. Method(c, db) = OnList(db, k, ErrKeyNotFound, One(db, Array(l)))
    BY <1>3 DEF Method, List
  <2> HIDE DEF k, l
  <2>5. \A o \in Method(c, db) : \E p \in Callback(T, db) : Alike(db, k, o, p)
    <3>1. \A o \in OnList(db, k, ErrKeyNotFound, One(db, Array(l))) :
             \E p \in OnList(db, k, Array(<<>>), One(db, Array(l))) : Alike(db, k, o, p)
      BY AlikeOnType
    <3> QED BY <2>3, <2>4, <3>1
  <2> QED BY <2>5 DEF LikeTwin, T, k
<1>4. CASE c.op \in {"Lpop", "Pop"}
  <2> DEFINE e == IF c.op = "Lpop" THEN listLpop(db, k) ELSE listPop(db, k)
             el == IF c.op = "Lpop" THEN Head(l) ELSE l[Len(l)]
             present == IF popPanics(db, k) THEN One(db, Panicked) ELSE One(e, Bulk(el))
  <2>1. T.op = IF c.op = "Lpop" THEN "LPOP" ELSE "RPOP"
    BY <1>4, TwinOp
  <2> HIDE DEF T
  <2>2. Callback(T, db) = OnList(db, k, Null, present)
    BY <1>2, <1>4, <2>1 DEF Callback, cbXpop, popFrom, popped
  <2>3. Method(c, db) = OnList(db, k, ErrKeyNotFound, present)
    BY <1>4 DEF Method, Lpop, Pop, PopWith
  <2> HIDE DEF k, present
  <2>4. \A o \in Method(c, db) : \E p \in Callback(T, db) : Alike(db, k, o, p)
    <3>1. \A o \in OnList(db, k, ErrKeyNotFound, present) :
             \E p \in OnList(db, k, Null, present) : Alike(db, k, o, p)
      BY AlikeOnType
    <3> QED BY <2>2, <2>3, <3>1
  <2> QED BY <2>4 DEF LikeTwin, T, k
<1>5. CASE c.op = "SetAdd"
  <2>1. T.op = "SADD"
    BY <1>5, TwinOp
  <2> HIDE DEF T
  <2>2. Callback(T, db) = Method(c, db)
    BY <1>2, <1>5, <2>1 DEF Callback, cbSadd, Method, SetAdd, ErrWrongType
  <2>3. \A o : Alike(db, k, o, o)
    BY DEF Alike
  <2> QED BY <2>2, <2>3 DEF LikeTwin, T, k
<1>6. CASE c.op = "SRem"
  <2> DEFINE present == One(setRem(db, k, vset(c)), IntReply(Cardinality(vset(c) \cap setAt(db, k))))
  <2>1. T.op = "SREM"
    BY <1>6, TwinOp
  <2> HIDE DEF T
  <2>2. Callback(T, db) = OnSet(db, k, IntReply(0), present)
    BY <1>2, <2>1 DEF Callback, cbSrem
  <2>3. Method(c, db) = OnSet(db, k, ErrKeyNotFound, present)
    BY <1>6 DEF Method, SRem
  <2> HIDE DEF k, present
  <2>4. \A o \in Method(c, db) : \E p \in Callback(T, db) : Alike(db, k, o, p)
    <3>1. \A o \in OnSet(db, k, ErrKeyNotFound, present) :
             \E p \in OnSet(db, k, IntReply(0), present) : Alike(db, k, o, p)
      BY AlikeOnType
    <3> QED BY <2>2, <2>3, <3>1
  <2> QED BY <2>4 DEF LikeTwin, T, k
<1>7. CASE c.op = "Members"
  <2> DEFINE present == One(db, Array(setAt(db, k)))
             none == Array({})
  <2>1. T.op = "SMEMBERS"
    BY <1>7, TwinOp
  <2> HIDE DEF T
  <2>2. Callback(T, db) = OnSet(db, k, none, present)
    BY <1>2, <2>1 DEF Callback, cbSmembers
  <2>3. Method(c, db) = OnSet(db, k, ErrKeyNotFound, present)
    BY <1>7 DEF Method, Members
  <2> HIDE DEF k, present, none
  <2>4. \A o \in Method(c, db) : \E p \in Callback(T, db) : Alike(db, k, o, p)
    <3>1. \A o \in OnSet(db, k, ErrKeyNotFound, present) :
             \E p \in OnSet(db, k, none, present) : Alike(db, k, o, p)
      BY AlikeOnType
    <3> QED BY <2>2, <2>3, <3>1
  <2> QED BY <2>4 DEF LikeTwin, T, k
<1>8. CASE c.op = "IsMember"
  <2> DEFINE present == One(db, IntReply(IF setIsMember(db, k, V(c)) THEN 1 ELSE 0))
  <2>1. T.op = "SISMEMBER"
    BY <1>8, TwinOp
  <2> HIDE DEF T
  <2>2. Callback(T, db) = OnSet(db, k, IntReply(0), present)
    BY <1>2, <2>1 DEF Callback, cbSismember
  <2>3. Method(c, db) = OnSet(db, k, ErrKeyNotFound, present)
    BY <1>8 DEF Method, IsMember, Bool
  <2> HIDE DEF k, present
  <2>4. \A o \in Method(c, db) : \E p \in Callback(T, db) : Alike(db, k, o, p)
    <3>1. \A o \in OnSet(db, k, ErrKeyNotFound, present) :
             \E p \in OnSet(db, k, IntReply(0), present) : Alike(db, k, o, p)
      BY AlikeOnType
    <3> QED BY <2>2, <2>3, <3>1
  <2> QED BY <2>4 DEF LikeTwin, T, k
<1> QED BY <1>3, <1>4, <1>5, <1>6, <1>7, <1>8

\* Lpush and Push, which bump the version once where the commands bump it per value.
LEMMA PushLikeTwin ==
    ASSUME NEW c \in Commands, NEW db \in RedisDB, Agree(db), c.op \in {"Lpush", "Push"},
           c.op = "Push" => c.vals # <<>>
    PROVE  LikeTwin(c, db)
<1> DEFINE k == K(c)
           l == listAt(db, k)
           T == Twin(c)
           vs == IF c.op = "Lpush" THEN <<V(c)>> ELSE c.vals
           m == IF c.op = "Lpush" THEN <<V(c)>> \o l ELSE l \o c.vals
           d == putList(db, k, m)
           e == bump(d, k, Len(vs) - 1)
           r == IntReply(Len(l) + Len(vs))
<1>1. k \in Key /\ l \in Seq(Val) /\ Len(l) \in Nat
  BY FirstKey, ListAtType, LenProperties DEF Keyless
<1>2. vs \in Seq(Val) /\ Len(vs) \in Nat /\ Len(vs) - 1 \in Nat
  <2>1. CASE c.op = "Lpush"
    <3>1. V(c) \in Val
      BY <2>1, FirstKey DEF OneValue
    <3> QED BY <2>1, <3>1
  <2>2. CASE c.op = "Push"
    <3>1. c.vals \in Seq(Val) /\ c.vals # <<>>
      BY <2>2, CommandArgs
    <3>2. Len(c.vals) \in Nat /\ Len(c.vals) # 0
      BY <3>1, LenProperties, EmptySeq
    <3> QED BY <2>2, <3>1, <3>2
  <2> QED BY <2>1, <2>2
<1>3. m \in Seq(Val) /\ Len(m) = Len(l) + Len(vs)
  <2>1. m = IF c.op = "Lpush" THEN vs \o l ELSE l \o vs
    OBVIOUS
  <2> HIDE DEF m, vs, l
  <2> QED BY <1>1, <1>2, <2>1, ConcatProperties
<1>4. K(T) = k /\ T.vals = vs /\ T.op = IF c.op = "Lpush" THEN "LPUSH" ELSE "RPUSH"
  BY TwinArgs, TwinOp
<1>5. pushed(T, db) = e
  <2>1. c.op = "Lpush" => Reverse(vs) = vs
    BY DEF Reverse
  <2> HIDE DEF T
  <2>2. /\ c.op = "Lpush" => T.op = "LPUSH" /\ m = vs \o l
        /\ c.op # "Lpush" => T.op = "RPUSH" /\ m = l \o vs
    BY <1>4
  <2> HIDE DEF vs, m, l
  <2> QED BY <1>4, <2>1, <2>2 DEF pushed, l
<1>6. /\ Callback(T, db) = IF exists(db, k) /\ t(db, k) # "list" THEN One(db, WrongType)
                           ELSE One(e, IntReply(Len(listAt(e, k))))
  <2> HIDE DEF T, e
  <2> QED BY <1>4, <1>5 DEF Callback, cbXpush, PushReply
<1>7. Method(c, db) = IF exists(db, k) /\ t(db, k) # "list" THEN One(db, WrongType)
                      ELSE One(d, r)
  <2>1. c.op = "Lpush" => d = listLpush(db, k, V(c)) /\ Len(vs) = 1
    BY DEF listLpush
  <2>2. c.op = "Push" => d = listPush(db, k, c.vals) /\ vs = c.vals
    BY DEF listPush
  <2> HIDE DEF d, vs
  <2> QED BY <2>1, <2>2 DEF Method, Lpush, Push, ErrWrongType
<1> HIDE DEF T, vs, m
<1>8. CASE exists(db, k) /\ t(db, k) # "list"
  <2>1. Method(c, db) = One(db, WrongType) /\ Callback(T, db) = One(db, WrongType)
    BY <1>6, <1>7, <1>8
  <2>2. \A o \in Method(c, db) : \E p \in Callback(T, db) : Alike(db, k, o, p)
    <3> HIDE DEF k
    <3> QED BY <2>1, AlikeOne
  <2> QED BY <2>2 DEF LikeTwin, T
<1>9. CASE ~(exists(db, k) /\ t(db, k) # "list")
  <2>1. Becomes(db, d, k, "list", m, Nil)
    BY <1>1, <1>3, <1>9, PutListBecomes
  <2>2. Becomes(db, e, k, "list", m, Nil)
    <3> DEFINE n == Len(vs) - 1
    <3> HIDE DEF d, n
    <3> QED BY <1>1, <1>2, <2>1, BumpBecomes DEF n
  <2> HIDE DEF d, e
  <2>3. \A j \in Key : value(e, j) = value(d, j)
    BY <1>1, <2>1, <2>2, BecomeAlike
  <2>4. listAt(e, k) = m
    <3>1. e.listKeys[k] = m
      BY <1>1, <2>2, BecomesEntries
    <3> QED BY <1>3, <3>1, NotNil DEF listAt
  <2>5. Method(c, db) = One(d, r) /\ Callback(T, db) = One(e, r)
    BY <1>3, <1>6, <1>7, <1>9, <2>4
  <2> HIDE DEF r, k
  <2>6. \A o \in Method(c, db) : \E p \in Callback(T, db) : Alike(db, k, o, p)
    BY <2>3, <2>5, AlikeValues
  <2> QED BY <2>6 DEF LikeTwin, T, k
<1> QED BY <1>8, <1>9

\* Keys and FlushDB, which name no key, do and answer what their commands do.
LEMMA KeylessTwin ==
    ASSUME NEW c \in Commands, NEW db \in RedisDB, c.op \in {"Keys", "FlushDB"}
    PROVE  Callback(Twin(c), db) = Method(c, db)
<1> DEFINE T == Twin(c)
<1>1. /\ c.op = "Keys" => T.op = "KEYS" /\ ToSet(T.keys) = Key
      /\ c.op = "FlushDB" => T.op = "FLUSHDB"
      /\ T.m = -1
  BY TwinOp, TwinArgs, AllKeysListed
<1>2. allKeys(db) \cap Key = allKeys(db)
  BY DEF allKeys
<1> HIDE DEF T
<1>3. Callback(T, db) = Method(c, db)
  BY <1>1, <1>2 DEF Callback, cbKeys, badPattern, cbFlushdb, Method, Keys, FlushDB
<1> QED BY <1>3 DEF T

\* Del, Type, Exists, Keys and FlushDB.
LEMMA KeysLikeTwin ==
    ASSUME NEW c \in Commands, NEW db \in RedisDB, Agree(db),
           c.op \in {"Del", "Type", "Exists", "Keys", "FlushDB"}
    PROVE  LikeTwin(c, db)
<1> DEFINE k == K(c)
           T == Twin(c)
<1>1. c.op \in {"Del", "Type", "Exists"} => k \in Key /\ T.keys = <<k>> /\ K(T) = k
  BY FirstKey, TwinArgs DEF Keyless
<1>2. CASE c.op = "Del"
  <2> DEFINE d == del(db, k)
             S == {k}
             e == delAll(db, S)
             r == Bool(exists(db, k))
             n == Cardinality(allKeys(db) \cap S)
  <2>1. T.op = "DEL" /\ k \in Key /\ T.keys = <<k>>
    BY <1>1, <1>2, TwinOp
  <2>2. ToSet(T.keys) = S
    BY <2>1 DEF ToSet
  <2> HIDE DEF T
  <2>3. Callback(T, db) = One(e, IntReply(n))
    BY <2>1, <2>2 DEF Callback, cbDel
  <2>4. Method(c, db) = One(d, r)
    BY <1>2 DEF Method, Del
  <2>5. n = IF exists(db, k) THEN 1 ELSE 0
    <3>1. CASE exists(db, k)
      <4>1. allKeys(db) \cap S = {k}
        BY <2>1, <3>1 DEF allKeys
      <4> QED BY <3>1, <4>1, FS_Singleton
    <3>2. CASE ~exists(db, k)
      <4>1. allKeys(db) \cap S = {}
        BY <3>2 DEF allKeys
      <4> QED BY <3>2, <4>1, FS_EmptySet
    <3> QED BY <3>1, <3>2
  <2>6. IntReply(n) = r
    BY <2>5 DEF Bool
  <2>7. \A j \in Key : value(e, j) = value(d, j)
    <3>1. Becomes(db, d, k, Untyped, Nil, Nil)
      BY <2>1, DelBecomes
    <3>2. /\ d.keys[k] = Untyped
          /\ \A j \in Key \ {k} : Same(db, d, j)
      <4> HIDE DEF d
      <4> QED BY <2>1, <3>1, BecomesEntries
    <3>3. ASSUME NEW j \in Key
          PROVE  /\ e.keys[j] = IF j = k THEN Untyped ELSE db.keys[j]
                 /\ e.listKeys[j] = IF j = k THEN d.listKeys[j] ELSE db.listKeys[j]
                 /\ e.setKeys[j] = IF j = k THEN d.setKeys[j] ELSE db.setKeys[j]
      BY DEF delAll
    <3>4. ASSUME NEW j \in Key
          PROVE  /\ e.keys[j] = d.keys[j] /\ e.listKeys[j] = d.listKeys[j]
                 /\ e.setKeys[j] = d.setKeys[j]
      <4> HIDE DEF d, e
      <4> QED BY <3>2, <3>3 DEF Same
    <3> HIDE DEF d, e
    <3> QED BY <3>4 DEF value, t, listAt, setAt
  <2> HIDE DEF k, d, e, r, n
  <2>8. \A o \in Method(c, db) : \E p \in Callback(T, db) : Alike(db, k, o, p)
    BY <2>3, <2>4, <2>6, <2>7, AlikeValues
  <2> QED BY <2>8 DEF LikeTwin, T, k
<1>3. CASE c.op = "Type"
  <2> DEFINE s == Bulk(IF exists(db, k) THEN t(db, k) ELSE "none")
             r == Bulk(t(db, k))
  <2>1. T.op = "TYPE" /\ K(T) = k
    BY <1>1, <1>3, TwinOp
  <2> HIDE DEF T
  <2>2. Callback(T, db) = One(db, s) /\ Method(c, db) = One(db, r)
    BY <1>3, <2>1 DEF Callback, cbType, Method, Type
  <2>3. r = s \/ ~exists(db, k)
    OBVIOUS
  <2> HIDE DEF k, r, s
  <2>4. \A o \in Method(c, db) : \E p \in Callback(T, db) : Alike(db, k, o, p)
    BY <2>2, <2>3, AlikeOne
  <2> QED BY <2>4 DEF LikeTwin, T, k
<1>4. CASE c.op = "Exists"
  <2> DEFINE S == {i \in DOMAIN T.keys : exists(db, T.keys[i])}
             s == IntReply(Cardinality(S))
             r == Bool(exists(db, k))
  <2>1. T.op = "EXISTS" /\ T.keys = <<k>>
    BY <1>1, <1>4, TwinOp
  <2>2. Cardinality(S) = IF exists(db, k) THEN 1 ELSE 0
    <3> DEFINE u == <<k>>
    <3>0. DOMAIN u = {1} /\ u[1] = k
      OBVIOUS
    <3> HIDE DEF T, u
    <3>3. S = {i \in {1} : exists(db, u[i])}
      BY <2>1, <3>0 DEF u
    <3> HIDE DEF k, S
    <3>1. CASE exists(db, k)
      <4>1. S = {1}
        BY <3>0, <3>1, <3>3
      <4> QED BY <3>1, <4>1, FS_Singleton
    <3>2. CASE ~exists(db, k)
      <4>1. S = {}
        BY <3>0, <3>2, <3>3
      <4> QED BY <3>2, <4>1, FS_EmptySet
    <3> QED BY <3>1, <3>2
  <2> HIDE DEF T
  <2>3. Callback(T, db) = One(db, s) /\ Method(c, db) = One(db, r)
    BY <1>4, <2>1 DEF Callback, cbExists, Method, Exists
  <2>4. r = s \/ ~exists(db, k)
    BY <2>2 DEF Bool
  <2> HIDE DEF k, r, s
  <2>5. \A o \in Method(c, db) : \E p \in Callback(T, db) : Alike(db, k, o, p)
    BY <2>3, <2>4, AlikeOne
  <2> QED BY <2>5 DEF LikeTwin, T, k
<1>5. CASE c.op \in {"Keys", "FlushDB"}
  <2>1. Callback(T, db) = Method(c, db)
    BY <1>5, KeylessTwin
  <2>2. \A o : Alike(db, k, o, o)
    BY DEF Alike
  <2> QED BY <2>1, <2>2 DEF LikeTwin, T, k
<1> QED BY <1>2, <1>3, <1>4, <1>5

\* A method and the command it stands for, on all databases.
LEMMA MethodLikeTwin ==
    ASSUME NEW c \in Commands, NEW sel \in DB, NEW ds \in [DB -> RedisDB],
           \A d \in DB : Agree(ds[d]), \A k \in Key : Len(listAt(ds[sel], k)) <= MaxInt,
           c.op \in DirectMethods, c.op \in {"Push", "SetAdd", "SRem"} => c.vals # <<>>,
           NEW o \in MethodOutcomes(c, sel, ds)
    PROVE  \E q \in Outcomes(Twin(c), sel, ds) :
              /\ \A d \in DB, k \in Key : value(q.dbs[d], k) = value(o.dbs[d], k)
              /\ q.reply = o.reply \/ (c.op \notin Keyless /\ ~exists(ds[sel], K(c)))
<1> DEFINE T == Twin(c)
           db == ds[sel]
<1>1. CASE c.op = "FlushAll"
  <2>1. T.op = "FLUSHALL"
    BY <1>1, TwinOp
  <2> HIDE DEF T
  <2>2. Outcomes(T, sel, ds) = MethodOutcomes(c, sel, ds)
    BY <1>1, <2>1 DEF Outcomes, MethodOutcomes
  <2> QED BY <2>2 DEF T
<1>2. CASE c.op # "FlushAll"
  <2>1. db \in RedisDB /\ Agree(db)
    OBVIOUS
  <2>2. c.op \notin Keyless => Len(listAt(db, K(c))) <= MaxInt
    BY FirstKey
  <2>3. LikeTwin(c, db)
    <3> HIDE DEF db
    <3>1. CASE c.op \in {"List", "Lpop", "Pop", "SetAdd", "SRem", "Members", "IsMember"}
      <4>1. Len(listAt(db, K(c))) <= MaxInt
        BY <2>2, <3>1 DEF Keyless
      <4> QED BY <2>1, <3>1, <4>1, ReadsLikeTwin
    <3>2. CASE c.op \in {"Lpush", "Push"}
      BY <2>1, <3>2, PushLikeTwin
    <3>3. CASE c.op \in {"Del", "Type", "Exists", "Keys", "FlushDB"}
      BY <2>1, <3>3, KeysLikeTwin
    <3> QED BY <1>2, <3>1, <3>2, <3>3 DEF DirectMethods
  <2>4. T.op \notin {"MOVE", "FLUSHALL"}
    BY <1>2, TwinOp DEF DirectMethods
  <2>5. PICK m \in Method(c, db) : o = [dbs |-> [ds EXCEPT ![sel] = m.db], reply |-> m.reply]
    BY <1>2 DEF MethodOutcomes
  <2>6. PICK p \in Callback(T, db) : /\ Alike(db, K(c), m, p)
                                     /\ c.op \in Keyless => p.reply = m.reply
    <3>1. CASE c.op \in Keyless
      <4>1. c.op \in {"Keys", "FlushDB"}
        BY <1>2, <3>1 DEF Keyless, DirectMethods
      <4>2. m \in Callback(T, db)
        BY <2>1, <2>5, <4>1, KeylessTwin
      <4> QED BY <4>2 DEF Alike
    <3>2. CASE c.op \notin Keyless
      BY <2>3, <2>5, <3>2 DEF LikeTwin
    <3> QED BY <3>1, <3>2
  <2> HIDE DEF T
  <2> DEFINE q == [dbs |-> [ds EXCEPT ![sel] = p.db], reply |-> p.reply]
  <2>7. q \in Outcomes(T, sel, ds)
    BY <2>4, <2>6 DEF Outcomes
  <2>8. q.reply = o.reply \/ (c.op \notin Keyless /\ ~exists(ds[sel], K(c)))
    BY <2>5, <2>6 DEF Alike
  <2>9. ASSUME NEW d \in DB, NEW k \in Key PROVE value(q.dbs[d], k) = value(o.dbs[d], k)
    <3>1. CASE d = sel
      <4>1. q.dbs[d] = p.db /\ o.dbs[d] = m.db
        BY <2>5, <3>1
      <4> QED BY <2>6, <4>1 DEF Alike
    <3>2. CASE d # sel
      <4>1. q.dbs[d] = ds[d] /\ o.dbs[d] = ds[d]
        BY <2>5, <3>2
      <4> QED BY <4>1
    <3> QED BY <3>1, <3>2
  <2> HIDE DEF q
  <2> QED BY <2>7, <2>8, <2>9 DEF T
<1> QED BY <1>1, <1>2

\* Each direct method leaves the values that the command it stands for would leave, and
\* answers the same, except about a key that does not exist; a Push, a SetAdd and an
\* SRem without values stand for no command.
THEOREM MethodsLikeCommands == Spec => []DirectLikeCommand
<1>1. IInv => DirectLikeCommand
  <2> SUFFICES ASSUME IInv, Ran(DirectMethods),
                      Ran({"Push", "SetAdd", "SRem"}) => last.cmd.vals # <<>>
               PROVE  \E q \in Outcomes(Twin(last.cmd), last.sel, last.pre) :
                         /\ \A d \in DB, k \in Key : value(q.dbs[d], k) = value(dbs[d], k)
                         /\ \/ q.reply = last.reply
                            \/ /\ last.cmd.op \notin Keyless
                               /\ ~exists(last.pre[last.sel], K(last.cmd))
    BY DEF DirectLikeCommand
  <2> DEFINE o == [dbs |-> dbs, reply |-> last.reply]
             c == last.cmd
             sel == last.sel
             ds == last.pre
  <2>1. /\ last # NoneYet /\ c.op \in DirectMethods
        /\ c.op \in {"Push", "SetAdd", "SRem"} => c.vals # <<>>
    BY DEF Ran
  <2>2. /\ c \in Commands /\ sel \in DB /\ Sound(ds) /\ ds \in Start
        /\ o \in Possible(c, sel, ds)
    BY <2>1 DEF IInv, History, Explained
  <2>3. ds \in [DB -> RedisDB] /\ \A d \in DB : Agree(ds[d])
    BY <2>2 DEF Sound
  <2>4. \A k \in Key : Len(listAt(ds[sel], k)) <= MaxInt
    BY <2>2, CommandAssumption
  <2>5. o \in MethodOutcomes(c, sel, ds)
    BY <2>1, <2>2 DEF Possible
  <2>6. o.dbs = dbs /\ o.reply = last.reply
    OBVIOUS
  <2> HIDE DEF o, c, sel, ds
  <2>7. \E q \in Outcomes(Twin(c), sel, ds) :
           /\ \A d \in DB, k \in Key : value(q.dbs[d], k) = value(o.dbs[d], k)
           /\ q.reply = o.reply \/ (c.op \notin Keyless /\ ~exists(ds[sel], K(c)))
    BY <2>1, <2>2, <2>3, <2>4, <2>5, MethodLikeTwin
  <2> QED BY <2>6, <2>7 DEF c, sel, ds
<1> QED BY <1>1, Invariance, PTL
=============================================================================
