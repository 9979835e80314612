---------------------------- MODULE CommandsProofs ----------------------------
(***************************************************************************)
(* What every command and every direct method does to a database, for every *)
(* set of keys and values and every command: lemmas about Db, Commands      *)
(* and Direct that KeyspaceProofs and TransactionsProofs rest on.           *)
(***************************************************************************)
EXTENDS Direct, ListOpsProofs, FiniteSetTheorems

\* The entries of k in the four maps are those it had before.
Same(db, e, k) ==
    /\ e.keys[k] = db.keys[k] /\ e.listKeys[k] = db.listKeys[k]
    /\ e.setKeys[k] = db.setKeys[k] /\ e.keyVersion[k] = db.keyVersion[k]

\* From db to e only keys of S were touched, each with a new version.
Touches(db, e, S) ==
    /\ e \in RedisDB /\ Agree(e)
    /\ \A k \in Key : Same(db, e, k) \/ (k \in S /\ e.keyVersion[k] > db.keyVersion[k])

\* One key gets new entries.
Puts(db, e, k, a, l, s, v) ==
    /\ e \in RedisDB
    /\ e.keys = [db.keys EXCEPT ![k] = a] /\ e.listKeys = [db.listKeys EXCEPT ![k] = l]
    /\ e.setKeys = [db.setKeys EXCEPT ![k] = s]
    /\ e.keyVersion = [db.keyVersion EXCEPT ![k] = v]

\* The maps of a database.
LEMMA DbMaps ==
    ASSUME NEW db \in RedisDB
    PROVE  /\ db.keys \in [Key -> Types] /\ db.listKeys \in [Key -> ListEntry]
           /\ db.setKeys \in [Key -> SetEntry] /\ db.keyVersion \in [Key -> Nat]
BY DEF RedisDB

\* An entry that is replaced by itself.
LEMMA DbUnchanged ==
    ASSUME NEW db \in RedisDB, NEW k \in Key
    PROVE  /\ db.keys = [db.keys EXCEPT ![k] = db.keys[k]]
           /\ db.listKeys = [db.listKeys EXCEPT ![k] = db.listKeys[k]]
           /\ db.setKeys = [db.setKeys EXCEPT ![k] = db.setKeys[k]]
           /\ db.keyVersion = [db.keyVersion EXCEPT ![k] = db.keyVersion[k]]
BY DbMaps

\* The empty string is no type.
LEMMA UntypedApart == Untyped # "list" /\ Untyped # "set"
BY Zenon DEF Untyped

\* The entries of a key.
LEMMA DbEntries ==
    ASSUME NEW db \in RedisDB, NEW k \in Key
    PROVE  /\ db.keys[k] \in Types /\ db.listKeys[k] \in ListEntry
           /\ db.setKeys[k] \in SetEntry /\ db.keyVersion[k] \in Nat
           /\ db.keyVersion[k] + 1 \in Nat /\ db.keyVersion[k] + 1 > db.keyVersion[k]
BY DbMaps

\* Lists and sets are not Nil.
LEMMA NotNil ==
    /\ Nil \in ListEntry /\ Nil \in SetEntry
    /\ \A l \in Seq(Val) : l # Nil /\ l \in ListEntry
    /\ \A s \in SUBSET Val : s # Nil /\ s \in SetEntry
BY NilAssumption DEF ListEntry, SetEntry

\* The values a key can have.
LEMMA ListAtType ==
    ASSUME NEW db \in RedisDB, NEW k \in Key
    PROVE  listAt(db, k) \in Seq(Val) /\ setAt(db, k) \in SUBSET Val
<1>1. <<>> \in Seq(Val) /\ {} \in SUBSET Val
  OBVIOUS
<1> QED BY <1>1, DbEntries DEF listAt, setAt, ListEntry, SetEntry

\* The new entries, and those of the other keys.
LEMMA PutEntries ==
    ASSUME NEW db \in RedisDB, NEW e, NEW k \in Key, NEW a, NEW l, NEW s, NEW v,
           Puts(db, e, k, a, l, s, v)
    PROVE  /\ e.keys[k] = a /\ e.listKeys[k] = l /\ e.setKeys[k] = s /\ e.keyVersion[k] = v
           /\ \A j \in Key \ {k} : Same(db, e, j)
BY DbMaps DEF Puts, Same

\* New entries that agree, with a later version.
LEMMA PutTouches ==
    ASSUME NEW db \in RedisDB, Agree(db), NEW e, NEW k \in Key,
           NEW a \in Types, NEW l \in ListEntry, NEW s \in SetEntry, NEW v \in Nat,
           Puts(db, e, k, a, l, s, v),
           v > db.keyVersion[k], a = "list" <=> l # Nil, a = "set" <=> s # Nil
    PROVE  Touches(db, e, {k})
<1>1. /\ e.keys[k] = a /\ e.listKeys[k] = l /\ e.setKeys[k] = s /\ e.keyVersion[k] = v
      /\ \A j \in Key \ {k} : Same(db, e, j)
  BY PutEntries
<1>2. Agree(e)
  BY <1>1 DEF Agree, Same, t
<1> QED BY <1>1, <1>2 DEF Touches, Puts

\* A command that touches nothing.
LEMMA TouchesNothing ==
    ASSUME NEW db \in RedisDB, Agree(db), NEW S
    PROVE  Touches(db, db, S)
BY DEF Touches, Same

\* More keys may be touched.
LEMMA TouchesMore ==
    ASSUME NEW db, NEW e, NEW S, NEW T, Touches(db, e, S), S \subseteq T
    PROVE  Touches(db, e, T)
BY DEF Touches

\* Two touches after each other.
LEMMA TouchesTwice ==
    ASSUME NEW db \in RedisDB, NEW d, NEW e, NEW S,
           Touches(db, d, S), Touches(d, e, S)
    PROVE  Touches(db, e, S)
<1>1. d \in RedisDB /\ e \in RedisDB /\ Agree(e)
  BY DEF Touches
<1>2. ASSUME NEW k \in Key
      PROVE  Same(db, e, k) \/ (k \in S /\ e.keyVersion[k] > db.keyVersion[k])
  <2>1. /\ db.keyVersion[k] \in Nat /\ d.keyVersion[k] \in Nat /\ e.keyVersion[k] \in Nat
    BY <1>1, DbEntries
  <2>2. Same(db, d, k) \/ (k \in S /\ d.keyVersion[k] > db.keyVersion[k])
    BY DEF Touches
  <2>3. Same(d, e, k) \/ (k \in S /\ e.keyVersion[k] > d.keyVersion[k])
    BY DEF Touches
  <2> QED BY <2>1, <2>2, <2>3 DEF Same
<1> QED BY <1>1, <1>2 DEF Touches
-----------------------------------------------------------------------------
(* New entries of one key, in the forms in which Db writes them. *)

\* All four maps.
LEMMA PutFour ==
    ASSUME NEW db \in RedisDB, NEW k \in Key, NEW a \in Types, NEW l \in ListEntry,
           NEW s \in SetEntry, NEW v \in Nat, NEW e,
           e = [db EXCEPT !.keys[k] = a, !.keyVersion[k] = v, !.listKeys[k] = l,
                          !.setKeys[k] = s]
    PROVE  Puts(db, e, k, a, l, s, v)
<1>1. e \in RedisDB
  BY DEF RedisDB
<1>2. /\ e.keys = [db.keys EXCEPT ![k] = a] /\ e.listKeys = [db.listKeys EXCEPT ![k] = l]
      /\ e.setKeys = [db.setKeys EXCEPT ![k] = s]
      /\ e.keyVersion = [db.keyVersion EXCEPT ![k] = v]
  BY DEF RedisDB
<1> QED BY <1>1, <1>2 DEF Puts

\* All but the set.
LEMMA PutList ==
    ASSUME NEW db \in RedisDB, NEW k \in Key, NEW a \in Types, NEW l \in ListEntry,
           NEW v \in Nat, NEW e,
           e = [db EXCEPT !.keys[k] = a, !.listKeys[k] = l, !.keyVersion[k] = v]
    PROVE  Puts(db, e, k, a, l, db.setKeys[k], v)
<1>1. e \in RedisDB
  BY DEF RedisDB
<1>2. /\ e.keys = [db.keys EXCEPT ![k] = a] /\ e.listKeys = [db.listKeys EXCEPT ![k] = l]
      /\ e.setKeys = db.setKeys /\ e.keyVersion = [db.keyVersion EXCEPT ![k] = v]
  BY DEF RedisDB
<1> QED BY <1>1, <1>2, DbUnchanged DEF Puts

\* All but the list.
LEMMA PutSet ==
    ASSUME NEW db \in RedisDB, NEW k \in Key, NEW a \in Types, NEW s \in SetEntry,
           NEW v \in Nat, NEW e,
           e = [db EXCEPT !.keys[k] = a, !.setKeys[k] = s, !.keyVersion[k] = v]
    PROVE  Puts(db, e, k, a, db.listKeys[k], s, v)
<1>1. e \in RedisDB
  BY DEF RedisDB
<1>2. /\ e.keys = [db.keys EXCEPT ![k] = a] /\ e.setKeys = [db.setKeys EXCEPT ![k] = s]
      /\ e.listKeys = db.listKeys /\ e.keyVersion = [db.keyVersion EXCEPT ![k] = v]
  BY DEF RedisDB
<1> QED BY <1>1, <1>2, DbUnchanged DEF Puts

\* All but the version.
LEMMA PutMoved ==
    ASSUME NEW db \in RedisDB, NEW k \in Key, NEW a \in Types, NEW l \in ListEntry,
           NEW s \in SetEntry, NEW e,
           e = [db EXCEPT !.keys[k] = a, !.listKeys[k] = l, !.setKeys[k] = s]
    PROVE  Puts(db, e, k, a, l, s, db.keyVersion[k])
<1>1. e \in RedisDB
  BY DEF RedisDB
<1>2. /\ e.keys = [db.keys EXCEPT ![k] = a] /\ e.setKeys = [db.setKeys EXCEPT ![k] = s]
      /\ e.listKeys = [db.listKeys EXCEPT ![k] = l] /\ e.keyVersion = db.keyVersion
  BY DEF RedisDB
<1> QED BY <1>1, <1>2, DbUnchanged DEF Puts

\* The list, the set or the version alone.
LEMMA PutOne ==
    ASSUME NEW db \in RedisDB, NEW k \in Key
    PROVE  /\ \A l \in ListEntry : Puts(db, [db EXCEPT !.listKeys[k] = l], k,
                                        db.keys[k], l, db.setKeys[k], db.keyVersion[k])
           /\ \A s \in SetEntry : Puts(db, [db EXCEPT !.setKeys[k] = s], k,
                                       db.keys[k], db.listKeys[k], s, db.keyVersion[k])
           /\ \A n \in Nat : Puts(db, bump(db, k, n), k, db.keys[k], db.listKeys[k],
                                  db.setKeys[k], db.keyVersion[k] + n)
<1>1. ASSUME NEW l \in ListEntry
      PROVE  Puts(db, [db EXCEPT !.listKeys[k] = l], k,
                  db.keys[k], l, db.setKeys[k], db.keyVersion[k])
  <2> DEFINE d == [db EXCEPT !.listKeys[k] = l]
  <2>1. d \in RedisDB
    BY DEF RedisDB
  <2>2. /\ d.keys = db.keys /\ d.keyVersion = db.keyVersion
        /\ d.setKeys = db.setKeys /\ d.listKeys = [db.listKeys EXCEPT ![k] = l]
    BY DEF RedisDB
  <2> QED BY <2>1, <2>2, DbUnchanged DEF Puts
<1>2. ASSUME NEW s \in SetEntry
      PROVE  Puts(db, [db EXCEPT !.setKeys[k] = s], k,
                  db.keys[k], db.listKeys[k], s, db.keyVersion[k])
  <2> DEFINE d == [db EXCEPT !.setKeys[k] = s]
  <2>1. d \in RedisDB
    BY DEF RedisDB
  <2>2. /\ d.keys = db.keys /\ d.keyVersion = db.keyVersion
        /\ d.listKeys = db.listKeys /\ d.setKeys = [db.setKeys EXCEPT ![k] = s]
    BY DEF RedisDB
  <2> QED BY <2>1, <2>2, DbUnchanged DEF Puts
<1>3. ASSUME NEW n \in Nat
      PROVE  Puts(db, bump(db, k, n), k, db.keys[k], db.listKeys[k],
                  db.setKeys[k], db.keyVersion[k] + n)
  <2>1. db.keyVersion[k] \in Nat
    BY DbEntries
  <2>2. bump(db, k, n) \in RedisDB
    BY <2>1 DEF bump, RedisDB
  <2>3. /\ bump(db, k, n).keys = db.keys /\ bump(db, k, n).listKeys = db.listKeys
        /\ bump(db, k, n).setKeys = db.setKeys
        /\ bump(db, k, n).keyVersion = [db.keyVersion EXCEPT ![k] = db.keyVersion[k] + n]
    BY DEF bump, RedisDB
  <2> QED BY <2>2, <2>3, DbUnchanged DEF Puts
<1> QED BY <1>1, <1>2, <1>3

\* New entries after new entries.
LEMMA PutTwice ==
    ASSUME NEW db \in RedisDB, NEW d, NEW e, NEW k \in Key,
           NEW a, NEW l, NEW s, NEW v, Puts(db, d, k, a, l, s, v),
           NEW b, NEW m, NEW r, NEW w, Puts(d, e, k, b, m, r, w)
    PROVE  Puts(db, e, k, b, m, r, w)
BY DbMaps DEF Puts

\* A version that is bumped after new entries.
LEMMA PutBump ==
    ASSUME NEW db \in RedisDB, NEW d, NEW k \in Key, NEW n \in Nat,
           NEW a, NEW l, NEW s, NEW v, Puts(db, d, k, a, l, s, v)
    PROVE  Puts(db, bump(d, k, n), k, a, l, s, v + n)
<1>1. d \in RedisDB
  BY DEF Puts
<1>2. d.keys[k] = a /\ d.listKeys[k] = l /\ d.setKeys[k] = s /\ d.keyVersion[k] = v
  BY PutEntries
<1>3. Puts(d, bump(d, k, n), k, d.keys[k], d.listKeys[k], d.setKeys[k], d.keyVersion[k] + n)
  BY <1>1, PutOne
<1> QED BY <1>2, <1>3, PutTwice
-----------------------------------------------------------------------------
(* The operators of Db. *)

\* A deleted key is absent, with a new version; a missing key stays as it is.
LEMMA DelPuts ==
    ASSUME NEW db \in RedisDB, Agree(db), NEW k \in Key, exists(db, k)
    PROVE  Puts(db, del(db, k), k, Untyped, Nil, Nil, db.keyVersion[k] + 1)
<1> DEFINE v == db.keyVersion[k] + 1
           l == IF t(db, k) = "list" THEN Nil ELSE db.listKeys[k]
           s == IF t(db, k) = "set" THEN Nil ELSE db.setKeys[k]
<1>1. l = Nil /\ s = Nil
  BY DEF Agree
<1>2. v \in Nat /\ Nil \in ListEntry /\ Nil \in SetEntry /\ Untyped \in Types
  BY DbEntries, NotNil DEF Types
<1>3. del(db, k) = [db EXCEPT !.keys[k] = Untyped, !.keyVersion[k] = v,
                              !.listKeys[k] = l, !.setKeys[k] = s]
  BY DEF del
<1>4. del(db, k) = [db EXCEPT !.keys[k] = Untyped, !.keyVersion[k] = v,
                              !.listKeys[k] = Nil, !.setKeys[k] = Nil]
  BY <1>1, <1>3
<1> HIDE DEF v
<1>5. Puts(db, del(db, k), k, Untyped, Nil, Nil, v)
  BY <1>2, <1>4, PutFour
<1> QED BY <1>5 DEF v

\* del removes its key from every map, grows its version and touches no other key.
LEMMA DelTouches ==
    ASSUME NEW db \in RedisDB, Agree(db), NEW k \in Key
    PROVE  /\ Touches(db, del(db, k), {k})
           /\ ~exists(del(db, k), k)
           /\ del(db, k).listKeys[k] = Nil /\ del(db, k).setKeys[k] = Nil
           /\ exists(db, k) => del(db, k).keyVersion[k] = db.keyVersion[k] + 1
           /\ \A j \in Key \ {k} : Same(db, del(db, k), j)
<1>1. CASE ~exists(db, k)
  BY <1>1, UntypedApart, TouchesNothing, DbEntries DEF del, Agree, exists, t, Types, Same
<1>2. CASE exists(db, k)
  <2>1. Puts(db, del(db, k), k, Untyped, Nil, Nil, db.keyVersion[k] + 1)
    BY <1>2, DelPuts
  <2>2. Touches(db, del(db, k), {k})
    BY <2>1, PutTouches, DbEntries, NotNil, UntypedApart DEF Types
  <2>3. /\ del(db, k).keys[k] = Untyped /\ del(db, k).listKeys[k] = Nil
        /\ del(db, k).setKeys[k] = Nil /\ del(db, k).keyVersion[k] = db.keyVersion[k] + 1
        /\ \A j \in Key \ {k} : Same(db, del(db, k), j)
    BY <2>1, PutEntries
  <2> QED BY <2>2, <2>3 DEF exists
<1> QED BY <1>1, <1>2

\* Bumping the version of a key touches it.
LEMMA BumpTouches ==
    ASSUME NEW db \in RedisDB, Agree(db), NEW k \in Key, NEW n \in Nat
    PROVE  Touches(db, bump(db, k, n), {k})
<1>1. db.keyVersion[k] \in Nat
  BY DbEntries
<1>2. Puts(db, bump(db, k, n), k, db.keys[k], db.listKeys[k], db.setKeys[k],
           db.keyVersion[k] + n)
  BY PutOne
<1>3. CASE n = 0
  <2>1. ASSUME NEW j \in Key PROVE Same(db, bump(db, k, n), j)
    <3>1. CASE j = k
      BY <1>1, <1>2, <1>3, <3>1, PutEntries DEF Same
    <3>2. CASE j # k
      <4>1. \A i \in Key \ {k} : Same(db, bump(db, k, n), i)
        <5> DEFINE e == bump(db, k, n)
        <5>1. PICK a, l, s, v : Puts(db, e, k, a, l, s, v)
          BY <1>2
        <5> HIDE DEF e
        <5>2. \A i \in Key \ {k} : Same(db, e, i)
          BY <5>1, PutEntries
        <5> QED BY <5>2 DEF e
      <4> QED BY <3>2, <4>1
    <3> QED BY <3>1, <3>2
  <2> QED BY <1>2, <2>1 DEF Touches, Agree, t, Same, Puts
<1>4. CASE n > 0
  <2>1. db.keyVersion[k] + n \in Nat /\ db.keyVersion[k] + n > db.keyVersion[k]
    BY <1>1, <1>4
  <2> QED BY <1>2, <2>1, PutTouches, DbEntries DEF Agree, t
<1> QED BY <1>3, <1>4

\* A list that replaces a list, with a new version.
LEMMA RelistTouches ==
    ASSUME NEW db \in RedisDB, Agree(db), NEW k \in Key, NEW l \in Seq(Val), t(db, k) = "list"
    PROVE  Touches(db, bump([db EXCEPT !.listKeys[k] = l], k, 1), {k})
<1> DEFINE d == [db EXCEPT !.listKeys[k] = l]
           e == bump(d, k, 1)
<1>1. l # Nil /\ l \in ListEntry
  BY NotNil
<1>2. Puts(db, d, k, db.keys[k], l, db.setKeys[k], db.keyVersion[k])
  BY <1>1, PutOne
<1> HIDE DEF d
<1>3. Puts(db, e, k, db.keys[k], l, db.setKeys[k], db.keyVersion[k] + 1)
  BY <1>2, PutBump
<1>4. db.keys[k] = "list" /\ db.setKeys[k] = Nil
  BY DEF t, Agree
<1> HIDE DEF e
<1>5. Touches(db, e, {k})
  BY <1>1, <1>3, <1>4, PutTouches, DbEntries
<1> QED BY <1>5 DEF d, e

\* putList makes a list of a key that is absent or a list.
LEMMA PutListTouches ==
    ASSUME NEW db \in RedisDB, Agree(db), NEW k \in Key, NEW l \in Seq(Val),
           ~exists(db, k) \/ t(db, k) = "list"
    PROVE  Touches(db, putList(db, k, l), {k})
<1> DEFINE v == db.keyVersion[k] + 1
<1>1. db.setKeys[k] = Nil /\ (IF db.listKeys[k] = Nil THEN "list" ELSE db.keys[k]) = "list"
  BY DbMaps, UntypedApart DEF Agree, exists, t
<1>2. putList(db, k, l) = [db EXCEPT !.keys[k] = "list", !.listKeys[k] = l, !.keyVersion[k] = v]
  BY <1>1 DEF putList
<1>3. l # Nil /\ l \in ListEntry /\ Nil \in SetEntry /\ "list" \in Types
  BY NotNil DEF Types
<1>4. v \in Nat /\ v > db.keyVersion[k]
  BY DbEntries
<1> HIDE DEF v
<1>5. Puts(db, putList(db, k, l), k, "list", l, Nil, v)
  BY <1>1, <1>2, <1>3, <1>4, PutList
<1> QED BY <1>3, <1>4, <1>5, PutTouches

\* What a pop leaves of a list that is not empty.
LEMMA PopRest ==
    ASSUME NEW l \in Seq(Val), l # <<>>
    PROVE  Tail(l) \in Seq(Val) /\ SubSeq(l, 1, Len(l) - 1) \in Seq(Val)
<1>1. Tail(l) \in Seq(Val)
  BY HeadTailProperties
<1>2. \A i \in 1..(Len(l) - 1) : l[i] \in Val
  BY LenProperties, ElementOfSeq
<1>3. SubSeq(l, 1, Len(l) - 1) \in Seq(Val)
  BY <1>2, LenProperties, SubSeqProperties
<1> QED BY <1>1, <1>3

\* A pop touches its key.
LEMMA PopTouches ==
    ASSUME NEW db \in RedisDB, Agree(db), NEW k \in Key, t(db, k) = "list",
           listAt(db, k) # <<>>
    PROVE  Touches(db, listLpop(db, k), {k}) /\ Touches(db, listPop(db, k), {k})
<1> DEFINE l == Tail(listAt(db, k))
           r == SubSeq(listAt(db, k), 1, Len(listAt(db, k)) - 1)
           d == del(db, k)
<1>1. l \in Seq(Val) /\ r \in Seq(Val)
  BY ListAtType, PopRest
<1>2. Touches(db, d, {k})
  BY DelTouches
<1>3. Touches(db, bump(d, k, 1), {k})
  <2>1. d \in RedisDB /\ Agree(d)
    BY <1>2 DEF Touches
  <2> HIDE DEF d
  <2>2. Touches(d, bump(d, k, 1), {k})
    BY <2>1, BumpTouches
  <2> QED BY <1>2, <2>2, TouchesTwice
<1>4. Touches(db, bump([db EXCEPT !.listKeys[k] = l], k, 1), {k})
  BY <1>1, RelistTouches
<1>5. Touches(db, bump([db EXCEPT !.listKeys[k] = r], k, 1), {k})
  BY <1>1, RelistTouches
<1>6. Touches(db, listLpop(db, k), {k})
  <2>1. listLpop(db, k) = IF l = <<>> THEN bump(d, k, 1)
                          ELSE bump([db EXCEPT !.listKeys[k] = l], k, 1)
    BY DEF listLpop
  <2> QED BY <1>3, <1>4, <2>1
<1>7. Touches(db, listPop(db, k), {k})
  <2>1. listPop(db, k) = IF r = <<>> THEN d
                         ELSE bump([db EXCEPT !.listKeys[k] = r], k, 1)
    BY DEF listPop
  <2> QED BY <1>2, <1>5, <2>1
<1> QED BY <1>6, <1>7

\* setSet and setAdd touch a key that is no list.
LEMMA SetTouches ==
    ASSUME NEW db \in RedisDB, Agree(db), NEW k \in Key, NEW s \in SUBSET Val, ~notSet(db, k)
    PROVE  Touches(db, setSet(db, k, s), {k}) /\ Touches(db, setAdd(db, k, s), {k})
<1> DEFINE v == db.keyVersion[k] + 1
           u == setAt(db, k) \cup s
<1>1. /\ db.listKeys[k] = Nil /\ Nil \in ListEntry
      /\ (IF db.setKeys[k] = Nil THEN "set" ELSE db.keys[k]) = "set"
  BY DbMaps, NotNil, UntypedApart DEF notSet, Agree, exists, t
<1>2. s # Nil /\ s \in SetEntry /\ u # Nil /\ u \in SetEntry /\ "set" \in Types
  BY NotNil, ListAtType DEF Types
<1>3. v \in Nat /\ v > db.keyVersion[k]
  BY DbEntries
<1>4. /\ setSet(db, k, s) = [db EXCEPT !.keys[k] = "set", !.setKeys[k] = s, !.keyVersion[k] = v]
      /\ setAdd(db, k, s) = [db EXCEPT !.keys[k] = "set", !.setKeys[k] = u, !.keyVersion[k] = v]
  BY <1>1 DEF setSet, setAdd
<1> HIDE DEF u, v
<1>5. /\ Puts(db, setSet(db, k, s), k, "set", Nil, s, v)
      /\ Puts(db, setAdd(db, k, s), k, "set", Nil, u, v)
  BY <1>1, <1>2, <1>3, <1>4, PutSet
<1> QED BY <1>1, <1>2, <1>3, <1>5, PutTouches

\* setRem touches its key.
LEMMA SetRemTouches ==
    ASSUME NEW db \in RedisDB, Agree(db), NEW k \in Key, NEW es
    PROVE  Touches(db, setRem(db, k, es), {k})
<1>1. CASE db.setKeys[k] = Nil
  BY <1>1, TouchesNothing DEF setRem
<1>2. CASE db.setKeys[k] # Nil
  <2> DEFINE s == db.setKeys[k] \ es
             d == del(db, k)
             e == [db EXCEPT !.setKeys[k] = s]
  <2>1. db.setKeys[k] \in SUBSET Val /\ db.keys[k] = "set" /\ db.listKeys[k] = Nil
    BY <1>2, DbEntries DEF SetEntry, Agree, t
  <2>2. s # Nil /\ s \in SetEntry
    BY <2>1, NotNil
  <2>3. Touches(db, bump(d, k, 1), {k})
    <3>1. Touches(db, d, {k})
      BY DelTouches
    <3>2. d \in RedisDB /\ Agree(d)
      BY <3>1 DEF Touches
    <3> HIDE DEF d
    <3>3. Touches(d, bump(d, k, 1), {k})
      BY <3>2, BumpTouches
    <3> QED BY <3>1, <3>3, TouchesTwice
  <2>4. Touches(db, bump(e, k, 1), {k})
    <3> HIDE DEF s
    <3>1. Puts(db, e, k, db.keys[k], db.listKeys[k], s, db.keyVersion[k])
      BY <2>2, PutOne
    <3> HIDE DEF e
    <3>2. Puts(db, bump(e, k, 1), k, db.keys[k], db.listKeys[k], s, db.keyVersion[k] + 1)
      BY <3>1, PutBump
    <3>3. db.keys[k] \in Types /\ Nil \in ListEntry
      BY DbEntries, NotNil
    <3> DEFINE f == bump(e, k, 1)
    <3> HIDE DEF f
    <3>4. Puts(db, f, k, "set", Nil, s, db.keyVersion[k] + 1)
      BY <2>1, <3>2 DEF f
    <3>5. Touches(db, f, {k})
      BY <2>1, <2>2, <3>3, <3>4, PutTouches, DbEntries
    <3> QED BY <3>5 DEF f
  <2>5. setRem(db, k, es) = IF db.setKeys[k] \subseteq es THEN bump(d, k, 1) ELSE bump(e, k, 1)
    BY <1>2 DEF setRem
  <2> QED BY <2>3, <2>4, <2>5
<1> QED BY <1>1, <1>2

\* DEL touches the keys it names.
LEMMA DelAllTouches ==
    ASSUME NEW db \in RedisDB, Agree(db), NEW ks
    PROVE  Touches(db, delAll(db, ks), ks)
<1> DEFINE e == delAll(db, ks)
<1>1. ASSUME NEW k \in Key
      PROVE  /\ del(db, k).listKeys[k] = Nil /\ del(db, k).setKeys[k] = Nil
             /\ del(db, k).keyVersion[k] \in Nat
             /\ \/ Same(db, del(db, k), k)
                \/ del(db, k).keyVersion[k] > db.keyVersion[k]
             /\ del(db, k).keys[k] = Untyped
  <2>1. Touches(db, del(db, k), {k}) /\ ~exists(del(db, k), k)
    BY DelTouches
  <2>2. del(db, k) \in RedisDB
    BY <2>1 DEF Touches
  <2>3. del(db, k).keyVersion[k] \in Nat
    BY <2>2, DbEntries
  <2>4. Same(db, del(db, k), k) \/ del(db, k).keyVersion[k] > db.keyVersion[k]
    BY <2>1 DEF Touches
  <2> QED BY <2>1, <2>3, <2>4, DelTouches DEF exists
<1>2. ASSUME NEW k \in Key
      PROVE  /\ e.keys[k] = IF k \in ks THEN Untyped ELSE db.keys[k]
             /\ e.listKeys[k] = IF k \in ks THEN Nil ELSE db.listKeys[k]
             /\ e.setKeys[k] = IF k \in ks THEN Nil ELSE db.setKeys[k]
             /\ e.keyVersion[k] = IF k \in ks THEN del(db, k).keyVersion[k] ELSE db.keyVersion[k]
  BY <1>1 DEF delAll
<1>3. e \in RedisDB
  <2>1. e.keys \in [Key -> Types] /\ e.listKeys \in [Key -> ListEntry]
    <3>1. Untyped \in Types /\ Nil \in ListEntry
      BY NotNil DEF Types
    <3> QED BY <1>1, <3>1, DbEntries DEF delAll
  <2>2. e.setKeys \in [Key -> SetEntry] /\ e.keyVersion \in [Key -> Nat]
    BY <1>1, DbEntries, NotNil DEF delAll
  <2>3. e = [keys |-> e.keys, listKeys |-> e.listKeys, setKeys |-> e.setKeys,
             keyVersion |-> e.keyVersion]
    BY DEF delAll
  <2> HIDE DEF e
  <2> QED BY <2>1, <2>2, <2>3 DEF RedisDB
<1> HIDE DEF e
<1>4. Agree(e)
  BY <1>2, UntypedApart DEF Agree, t
<1>5. \A k \in Key : Same(db, e, k) \/ (k \in ks /\ e.keyVersion[k] > db.keyVersion[k])
  BY <1>1, <1>2 DEF Same
<1> QED BY <1>3, <1>4, <1>5 DEF Touches, e

\* The entries of a key that exists, with the Nil that the other map has for it.
LEMMA MovedEntries ==
    ASSUME NEW db \in RedisDB, Agree(db), NEW k \in Key, exists(db, k)
    PROVE  /\ db.keys[k] \in Types /\ db.listKeys[k] \in ListEntry /\ db.setKeys[k] \in SetEntry
           /\ (IF t(db, k) = "list" THEN db.listKeys[k] ELSE Nil) = db.listKeys[k]
           /\ (IF t(db, k) = "set" THEN db.setKeys[k] ELSE Nil) = db.setKeys[k]
           /\ db.keys[k] = "list" <=> db.listKeys[k] # Nil
           /\ db.keys[k] = "set" <=> db.setKeys[k] # Nil
BY DbEntries DEF Agree, t

\* A key that does not exist has no entries.
LEMMA NoEntries ==
    ASSUME NEW db \in RedisDB, Agree(db), NEW k \in Key, ~exists(db, k)
    PROVE  db.keys[k] = Untyped /\ db.listKeys[k] = Nil /\ db.setKeys[k] = Nil
BY UntypedApart DEF Agree, exists, t

\* A key that does not exist gets the entries of one that does, under a new version.
LEMMA CopyTouches ==
    ASSUME NEW db \in RedisDB, Agree(db), NEW k \in Key, exists(db, k),
           NEW d \in RedisDB, Agree(d), NEW j \in Key, ~exists(d, j), NEW e,
           e = [bump(d, j, 1) EXCEPT !.keys[j] = db.keys[k], !.listKeys[j] = db.listKeys[k],
                                     !.setKeys[j] = db.setKeys[k]]
    PROVE  Touches(d, e, {j})
<1> DEFINE b == bump(d, j, 1)
<1>0. e = [b EXCEPT !.keys[j] = db.keys[k], !.listKeys[j] = db.listKeys[k],
                    !.setKeys[j] = db.setKeys[k]]
  OBVIOUS
<1>1. Puts(d, b, j, d.keys[j], d.listKeys[j], d.setKeys[j], d.keyVersion[j] + 1)
  BY PutOne
<1>2. b \in RedisDB
  BY <1>1 DEF Puts
<1>3. b.keyVersion[j] = d.keyVersion[j] + 1
  BY <1>1, PutEntries
<1> HIDE DEF b
<1>4. Puts(b, e, j, db.keys[k], db.listKeys[k], db.setKeys[k], b.keyVersion[j])
  BY <1>0, <1>2, PutMoved, DbEntries
<1>5. Puts(d, e, j, db.keys[k], db.listKeys[k], db.setKeys[k], d.keyVersion[j] + 1)
  BY <1>1, <1>3, <1>4, PutTwice
<1>6. Touches(d, e, {j})
  <2>1. d.keyVersion[j] + 1 \in Nat /\ d.keyVersion[j] + 1 > d.keyVersion[j]
    BY DbEntries
  <2> DEFINE a == db.keys[k]
             l == db.listKeys[k]
             s == db.setKeys[k]
             v == d.keyVersion[j] + 1
  <2>2. /\ a \in Types /\ l \in ListEntry /\ s \in SetEntry
        /\ a = "list" <=> l # Nil
        /\ a = "set" <=> s # Nil
    BY MovedEntries
  <2>3. Puts(d, e, j, a, l, s, v) /\ v \in Nat /\ v > d.keyVersion[j]
    BY <1>5, <2>1
  <2> HIDE DEF a, l, s, v
  <2> QED BY <2>2, <2>3, PutTouches
<1> QED BY <1>6

\* MOVE touches the key in the receiving database.
LEMMA ReceivedTouches ==
    ASSUME NEW db \in RedisDB, Agree(db), NEW to \in RedisDB, Agree(to), NEW k \in Key,
           moves(db, k, to)
    PROVE  Touches(to, received(db, k, to), {k})
<1>1. exists(db, k) /\ ~exists(to, k)
  BY DEF moves
<1>2. to.listKeys[k] = Nil /\ to.setKeys[k] = Nil
  BY <1>1, NoEntries
<1> DEFINE b == bump(to, k, 1)
<1>3. b.listKeys[k] = Nil /\ b.setKeys[k] = Nil
  <2>1. Puts(to, b, k, to.keys[k], to.listKeys[k], to.setKeys[k], to.keyVersion[k] + 1)
    BY PutOne
  <2> HIDE DEF b
  <2> QED BY <1>2, <2>1, PutEntries
<1>4. received(db, k, to)
         = [b EXCEPT !.keys[k] = db.keys[k],
                     !.listKeys[k] = IF t(db, k) = "list" THEN db.listKeys[k] ELSE b.listKeys[k],
                     !.setKeys[k] = IF t(db, k) = "set" THEN db.setKeys[k] ELSE b.setKeys[k]]
  BY DEF received
<1>5. /\ (IF t(db, k) = "list" THEN db.listKeys[k] ELSE b.listKeys[k]) = db.listKeys[k]
      /\ (IF t(db, k) = "set" THEN db.setKeys[k] ELSE b.setKeys[k]) = db.setKeys[k]
  BY <1>1, <1>3, MovedEntries
<1>6. received(db, k, to)
         = [b EXCEPT !.keys[k] = db.keys[k], !.listKeys[k] = db.listKeys[k],
                     !.setKeys[k] = db.setKeys[k]]
  BY <1>4, <1>5
<1> QED BY <1>1, <1>6, CopyTouches

\* A rename that does not panic is of another key, and touches both.
LEMMA RenameTouches ==
    ASSUME NEW db \in RedisDB, Agree(db), NEW from \in Key, NEW to \in Key,
           exists(db, from), ~renamePanics(db, from, to)
    PROVE  Touches(db, rename(db, from, to), {from, to})
<1> DEFINE d == del(db, to)
           b == bump(d, to, 1)
           e == [b EXCEPT !.keys[to] = d.keys[from], !.listKeys[to] = d.listKeys[from],
                          !.setKeys[to] = d.setKeys[from]]
<1>1. Touches(db, d, {to}) /\ ~exists(d, to) /\ exists(d, from)
  BY DelTouches DEF renamePanics
<1>2. d \in RedisDB /\ Agree(d)
  BY <1>1 DEF Touches
<1> HIDE DEF d
<1>3. d.listKeys[to] = Nil /\ d.setKeys[to] = Nil
  BY <1>1, <1>2, NoEntries
<1>4. b.listKeys[to] = Nil /\ b.setKeys[to] = Nil
  <2>1. Puts(d, b, to, d.keys[to], d.listKeys[to], d.setKeys[to], d.keyVersion[to] + 1)
    BY <1>2, PutOne
  <2> HIDE DEF b
  <2> QED BY <1>2, <1>3, <2>1, PutEntries
<1>5. /\ (IF t(d, from) = "list" THEN d.listKeys[from] ELSE b.listKeys[to]) = d.listKeys[from]
      /\ (IF t(d, from) = "set" THEN d.setKeys[from] ELSE b.setKeys[to]) = d.setKeys[from]
  BY <1>1, <1>2, <1>4, MovedEntries
<1>6. rename(db, from, to)
        = del([b EXCEPT
                 !.keys[to]     = d.keys[from],
                 !.listKeys[to] = IF t(d, from) = "list" THEN d.listKeys[from] ELSE b.listKeys[to],
                 !.setKeys[to]  = IF t(d, from) = "set" THEN d.setKeys[from] ELSE b.setKeys[to]],
              from)
  BY DEF rename, d
<1>7. rename(db, from, to) = del(e, from)
  BY <1>5, <1>6
<1>8. Touches(d, e, {to})
  BY <1>1, <1>2, CopyTouches
<1> HIDE DEF e
<1>9. Touches(e, del(e, from), {from})
  <2>1. e \in RedisDB /\ Agree(e)
    BY <1>8 DEF Touches
  <2> QED BY <2>1, DelTouches
<1>10. /\ Touches(db, d, {from, to}) /\ Touches(d, e, {from, to})
       /\ Touches(e, del(e, from), {from, to})
  BY <1>1, <1>8, <1>9, TouchesMore
<1>11. Touches(db, e, {from, to})
  BY <1>2, <1>10, TouchesTwice
<1>12. Touches(db, del(e, from), {from, to})
  BY <1>10, <1>11, TouchesTwice
<1> QED BY <1>7, <1>12

\* flush: no key is left, and the versions stay.
Wiped(db, e) ==
    /\ e \in RedisDB /\ Agree(e)
    /\ \A k \in Key : ~exists(e, k) /\ e.keyVersion[k] = db.keyVersion[k]

\* flush removes every key and leaves the versions alone.
LEMMA FlushWipes ==
    ASSUME NEW db \in RedisDB
    PROVE  Wiped(db, flush(db))
<1> DEFINE a == [k \in Key |-> Untyped]
           l == [k \in Key |-> Nil]
           e == [db EXCEPT !.keys = a, !.listKeys = l, !.setKeys = l]
<1>1. flush(db) = e
  BY DEF flush, newRedisDB
<1>2. a \in [Key -> Types] /\ l \in [Key -> ListEntry] /\ l \in [Key -> SetEntry]
  BY NotNil DEF Types
<1>3. \A k \in Key : a[k] = Untyped /\ l[k] = Nil
  OBVIOUS
<1> HIDE DEF a, l
<1>4. e \in RedisDB
  BY <1>2 DEF RedisDB
<1>5. e.keys = a /\ e.listKeys = l /\ e.setKeys = l /\ e.keyVersion = db.keyVersion
  BY DEF RedisDB
<1> HIDE DEF e
<1>6. Agree(e)
  BY <1>3, <1>5, UntypedApart DEF Agree, t
<1> QED BY <1>1, <1>3, <1>4, <1>5, <1>6 DEF Wiped, exists

\* A new database is empty.
LEMMA NewDb == newRedisDB \in RedisDB /\ Agree(newRedisDB)
<1>1. Untyped \in Types /\ Nil \in ListEntry /\ Nil \in SetEntry
  BY NotNil DEF Types
<1>2. newRedisDB \in RedisDB
  BY <1>1 DEF newRedisDB, RedisDB
<1>3. Agree(newRedisDB)
  BY UntypedApart DEF newRedisDB, Agree, t
<1> QED BY <1>2, <1>3
-----------------------------------------------------------------------------
(* What a callback promises. *)

\* The crashes: a RENAME of a key to itself, an SRANDMEMBER of an empty set, a pop
\* of an empty list, a pattern that does not compile.
MayPanic(c, db) ==
    \/ c.op = "RENAME" /\ c.keys[1] = c.keys[2]
    \/ c.op = "SRANDMEMBER" /\ db.setKeys[K(c)] = {}
    \/ c.op \in {"LPOP", "RPOP", "RPOPLPUSH", "Lpop", "Pop"} /\ db.listKeys[K(c)] = <<>>
    \/ /\ c.op \in {"KEYS", "SCAN", "SSCAN"} /\ badPattern(c)
       /\ c.op \in {"SCAN", "SSCAN"} => c.n = 0

\* A callback touches only the keys of its command, under new versions; it changes
\* nothing when it answers an error; and it panics only in the cases above.
Promise(c, db, o) ==
    /\ Touches(db, o.db, ToSet(c.keys))
    /\ o.reply[1] = "error" => o.db = db
    /\ o.reply = Panicked => MayPanic(c, db)

\* The kinds of replies.
LEMMA ReplyKinds ==
    /\ Null[1] = "null" /\ OK[1] = "ok" /\ WrongType[1] = "error" /\ NoSuchKey[1] = "error"
    /\ Panicked[1] = "panic" /\ BadInt[1] = "error"
    /\ \A x : IntReply(x)[1] = "int" /\ Bulk(x)[1] = "bulk" /\ Array(x)[1] = "array"
BY DEF Null, OK, WrongType, NoSuchKey, Panicked, BadInt, IntReply, Bulk, Array

\* The arguments of a command.
LEMMA CommandArgs ==
    ASSUME NEW c \in Commands
    PROVE  /\ c.keys \in Seq(Key) /\ c.vals \in Seq(Val) /\ c.n \in Int64 /\ c.m \in Int64
           /\ Len(c.keys) \in Nat /\ Len(c.vals) \in Nat
           /\ ToSet(c.keys) \subseteq Key /\ vset(c) \subseteq Val
           /\ \A i \in 1..Len(c.keys) : c.keys[i] \in Key /\ c.keys[i] \in ToSet(c.keys)
           /\ \A i \in 1..Len(c.vals) : c.vals[i] \in Val
<1>1. c.keys \in Seq(Key) /\ c.vals \in Seq(Val) /\ c.n \in Int64 /\ c.m \in Int64
  BY DEF Commands, Arguments
<1>2. /\ Len(c.keys) \in Nat /\ Len(c.vals) \in Nat
      /\ DOMAIN c.keys = 1..Len(c.keys) /\ DOMAIN c.vals = 1..Len(c.vals)
  BY <1>1, LenProperties
<1>3. \A i \in 1..Len(c.keys) : c.keys[i] \in Key
  BY <1>1, ElementOfSeq
<1>4. \A i \in 1..Len(c.vals) : c.vals[i] \in Val
  BY <1>1, ElementOfSeq
<1> QED BY <1>1, <1>2, <1>3, <1>4 DEF ToSet, vset

\* The first key, the second key and the first value, of the commands that have them.
LEMMA FirstKey ==
    ASSUME NEW c \in Commands
    PROVE  /\ c.op \notin Keyless => Len(c.keys) >= 1 /\ K(c) \in Key /\ K(c) \in ToSet(c.keys)
           /\ c.op \in TwoKeys => Len(c.keys) >= 2 /\ c.keys[2] \in Key
                                  /\ c.keys[2] \in ToSet(c.keys)
           /\ c.op \in OneValue => Len(c.vals) >= 1 /\ V(c) \in Val
           /\ c.op = "LINSERT" => c.vals[2] \in Val
<1>1. /\ c.op \notin Keyless => Len(c.keys) >= 1
      /\ c.op \in TwoKeys => Len(c.keys) >= 2
      /\ c.op \in OneValue => Len(c.vals) >= 1
      /\ c.op = "LINSERT" => Len(c.vals) >= 2
  BY DEF Commands
<1> QED BY <1>1, CommandArgs DEF K, V

\* A callback that only answers.
LEMMA Answers ==
    ASSUME NEW c, NEW db \in RedisDB, Agree(db), NEW r, r[1] # "panic" \/ MayPanic(c, db),
           NEW o \in One(db, r)
    PROVE  Promise(c, db, o)
<1>1. o.db = db /\ o.reply = r
  BY DEF One
<1> QED BY <1>1, TouchesNothing, ReplyKinds DEF Promise

\* A callback that touches a key of its command, and answers no error.
LEMMA Changes ==
    ASSUME NEW c, NEW db \in RedisDB, Agree(db), NEW e, NEW S, Touches(db, e, S),
           S \subseteq ToSet(c.keys), NEW r, r[1] # "panic", r[1] # "error", NEW o \in One(e, r)
    PROVE  Promise(c, db, o)
<1>1. o.db = e /\ o.reply = r
  BY DEF One
<1> QED BY <1>1, TouchesMore, ReplyKinds DEF Promise

\* The common preambles: only the last case is left to the callback.
LEMMA OnListPromise ==
    ASSUME NEW c, NEW db \in RedisDB, Agree(db), NEW k, NEW absent, absent[1] # "panic",
           NEW present, NEW o \in OnList(db, k, absent, present),
           o \in present /\ exists(db, k) /\ t(db, k) = "list" => Promise(c, db, o)
    PROVE  Promise(c, db, o)
<1>1. o \in One(db, absent) => Promise(c, db, o)
  BY Answers
<1>2. o \in One(db, WrongType) => Promise(c, db, o)
  BY Answers, ReplyKinds
<1> QED BY <1>1, <1>2 DEF OnList

\* The checks of a set command keep the promise when its effect on a set does.
LEMMA OnSetPromise ==
    ASSUME NEW c, NEW db \in RedisDB, Agree(db), NEW k, NEW absent, absent[1] # "panic",
           NEW present, NEW o \in OnSet(db, k, absent, present),
           o \in present /\ exists(db, k) /\ t(db, k) = "set" => Promise(c, db, o)
    PROVE  Promise(c, db, o)
<1>1. o \in One(db, absent) => Promise(c, db, o)
  BY Answers
<1>2. o \in One(db, WrongType) => Promise(c, db, o)
  BY Answers, ReplyKinds
<1> QED BY <1>1, <1>2 DEF OnSet
-----------------------------------------------------------------------------
(* The list commands. *)

\* A list that exists is the entry itself.
LEMMA ListEntryAt ==
    ASSUME NEW db \in RedisDB, Agree(db), NEW k \in Key
    PROVE  /\ t(db, k) = "list" => listAt(db, k) = db.listKeys[k]
           /\ t(db, k) = "set" => setAt(db, k) = db.setKeys[k]
BY DEF Agree, listAt, setAt

\* LPOP and RPOP.
LEMMA XpopPromise ==
    ASSUME NEW c \in Commands, NEW db \in RedisDB, Agree(db), c.op \in {"LPOP", "RPOP"},
           NEW o \in cbXpop(c, db)
    PROVE  Promise(c, db, o)
<1>1. K(c) \in Key /\ K(c) \in ToSet(c.keys)
  BY FirstKey DEF Keyless
<1> DEFINE k == K(c)
           present == IF popPanics(db, k) THEN One(db, Panicked)
                      ELSE One(popFrom(db, k, c), Bulk(popped(listAt(db, k), c)))
<1>2. cbXpop(c, db) = OnList(db, k, Null, present)
  BY DEF cbXpop
<1>3. ASSUME o \in present, t(db, k) = "list" PROVE Promise(c, db, o)
  <2>1. CASE popPanics(db, k)
    <3>1. MayPanic(c, db)
      BY <1>1, <1>3, <2>1, ListEntryAt DEF MayPanic, popPanics
    <3> QED BY <1>3, <2>1, <3>1, Answers
  <2>2. CASE ~popPanics(db, k)
    <3>1. Touches(db, popFrom(db, k, c), {k})
      BY <1>1, <1>3, <2>2, PopTouches DEF popFrom, popPanics
    <3> HIDE DEF k
    <3>2. {k} \subseteq ToSet(c.keys)
      BY <1>1 DEF k
    <3> QED BY <1>3, <2>2, <3>1, <3>2, Changes, ReplyKinds
  <2> QED BY <2>1, <2>2
<1> HIDE DEF present
<1> QED BY <1>2, <1>3, OnListPromise, ReplyKinds

\* BLPOP and BRPOP in a transaction.
LEMMA BXpopPromise ==
    ASSUME NEW c \in Commands, NEW db \in RedisDB, Agree(db), NEW o \in cbBXpop(c, db)
    PROVE  Promise(c, db, o)
<1> DEFINE Test(x) == exists(db, x) /\ (t(db, x) = "list" => listAt(db, x) # <<>>)
           I == {j \in 1..Len(c.keys) : Test(c.keys[j])}
           hit == IF I # {} THEN Min(I) ELSE 0
           k == c.keys[hit]
<1>1. cbBXpop(c, db) =
        IF hit = 0 THEN One(db, Null)
        ELSE IF t(db, k) # "list" THEN One(db, WrongType)
        ELSE One(popFrom(db, k, c), Array(<<k, popped(listAt(db, k), c)>>))
  BY DEF cbBXpop, SelectInSeq
<1>2. ASSUME hit # 0 PROVE k \in Key /\ k \in ToSet(c.keys) /\ Test(k)
  <2>1. I # {} /\ hit = Min(I)
    BY <1>2
  <2>2. Min(I) \in I
    BY <2>1, FirstOf, CommandArgs
  <2> QED BY <2>1, <2>2, CommandArgs
<1> HIDE DEF hit
<1>3. CASE hit = 0
  BY <1>1, <1>3, Answers, ReplyKinds
<1>4. CASE hit # 0 /\ t(db, k) # "list"
  BY <1>1, <1>4, Answers, ReplyKinds
<1>5. CASE hit # 0 /\ t(db, k) = "list"
  <2> HIDE DEF k
  <2>1. Touches(db, popFrom(db, k, c), {k})
    BY <1>2, <1>5, PopTouches DEF popFrom
  <2>2. {k} \subseteq ToSet(c.keys)
    BY <1>2, <1>5
  <2>3. o \in One(popFrom(db, k, c), Array(<<k, popped(listAt(db, k), c)>>))
    BY <1>1, <1>5
  <2> QED BY <2>1, <2>2, <2>3, Changes, ReplyKinds
<1> QED BY <1>3, <1>4, <1>5

\* A push touches its key.
LEMMA PushTouches ==
    ASSUME NEW c \in Commands, NEW db \in RedisDB, Agree(db), K(c) \in Key, Len(c.vals) >= 1,
           ~exists(db, K(c)) \/ t(db, K(c)) = "list"
    PROVE  Touches(db, pushed(c, db), {K(c)})
<1> DEFINE k == K(c)
           l == IF c.op \in {"LPUSH", "LPUSHX"} THEN Reverse(c.vals) \o listAt(db, k)
                ELSE listAt(db, k) \o c.vals
           d == putList(db, k, l)
           n == Len(c.vals) - 1
<1>1. l \in Seq(Val)
  <2>1. listAt(db, k) \in Seq(Val) /\ c.vals \in Seq(Val) /\ Reverse(c.vals) \in Seq(Val)
    BY ListAtType, CommandArgs, ReverseType
  <2>2. /\ Reverse(c.vals) \o listAt(db, k) \in Seq(Val)
        /\ listAt(db, k) \o c.vals \in Seq(Val)
    BY <2>1, ConcatProperties
  <2> QED BY <2>2
<1>2. pushed(c, db) = bump(d, k, n)
  BY DEF pushed
<1>3. n \in Nat
  BY CommandArgs
<1> HIDE DEF l, n, k
<1>4. Touches(db, d, {k})
  BY <1>1, PutListTouches DEF k
<1>5. d \in RedisDB /\ Agree(d)
  BY <1>4 DEF Touches
<1> HIDE DEF d
<1>6. Touches(d, bump(d, k, n), {k})
  BY <1>3, <1>5, BumpTouches DEF k
<1>7. Touches(db, bump(d, k, n), {k})
  BY <1>4, <1>6, TouchesTwice
<1> QED BY <1>2, <1>7 DEF k

\* LPUSH, RPUSH, LPUSHX and RPUSHX.
LEMMA XpushPromise ==
    ASSUME NEW c \in Commands, NEW db \in RedisDB, Agree(db),
           c.op \in {"LPUSH", "RPUSH", "LPUSHX", "RPUSHX"},
           NEW o \in cbXpush(c, db) \cup cbXpushx(c, db)
    PROVE  Promise(c, db, o)
<1>1. K(c) \in Key /\ K(c) \in ToSet(c.keys) /\ Len(c.vals) >= 1
  BY FirstKey DEF Keyless, OneValue
<1>2. ASSUME ~exists(db, K(c)) \/ t(db, K(c)) = "list", o \in PushReply(c, db)
      PROVE  Promise(c, db, o)
  <2>1. Touches(db, pushed(c, db), {K(c)})
    BY <1>1, <1>2, PushTouches
  <2>2. {K(c)} \subseteq ToSet(c.keys)
    BY <1>1
  <2> QED BY <1>2, <2>1, <2>2, Changes, ReplyKinds DEF PushReply
<1>3. CASE o \in cbXpush(c, db)
  BY <1>2, <1>3, Answers, ReplyKinds DEF cbXpush
<1>4. CASE o \in cbXpushx(c, db)
  BY <1>2, <1>4, OnListPromise, ReplyKinds DEF cbXpushx
<1> QED BY <1>3, <1>4

\* RPOPLPUSH, and BRPOPLPUSH in a transaction: the types are checked before the pop, so
\* the push finds a destination that is a list or absent, the source itself included.
LEMMA RpoplpushPromise ==
    ASSUME NEW c \in Commands, NEW db \in RedisDB, Agree(db),
           c.op \in {"RPOPLPUSH", "BRPOPLPUSH"}, NEW o \in cbRpoplpush(c, db)
    PROVE  Promise(c, db, o)
<1> DEFINE src == c.keys[1]
           dst == c.keys[2]
           l   == listAt(db, src)
           d   == listPop(db, src)
           e   == listLpush(d, dst, l[Len(l)])
           S   == ToSet(c.keys)
<1>1. src \in Key /\ dst \in Key /\ src \in S /\ dst \in S
  BY FirstKey DEF Keyless, TwoKeys, K
<1>2. CASE ~exists(db, src) \/ t(db, src) # "list" \/ (exists(db, dst) /\ t(db, dst) # "list")
  BY <1>2, Answers, ReplyKinds DEF cbRpoplpush
<1>3. CASE exists(db, src) /\ t(db, src) = "list" /\ popPanics(db, src)
  <2>1. c.op = "RPOPLPUSH" => MayPanic(c, db)
    BY <1>1, <1>3, ListEntryAt DEF MayPanic, popPanics, K
  <2> QED BY <1>2, <1>3, <2>1, Answers, ReplyKinds DEF cbRpoplpush
<1>4. CASE /\ exists(db, src) /\ t(db, src) = "list" /\ ~popPanics(db, src)
           /\ ~exists(db, dst) \/ t(db, dst) = "list"
  <2>1. o \in One(e, Bulk(l[Len(l)]))
    BY <1>4 DEF cbRpoplpush
  <2>2. l \in Seq(Val) /\ l[Len(l)] \in Val
    BY <1>1, <1>4, ListAtType, LastElement DEF popPanics
  <2>3. Touches(db, d, {src})
    BY <1>1, <1>4, PopTouches DEF popPanics
  <2>4. d \in RedisDB /\ Agree(d)
    BY <2>3 DEF Touches
  <2>5. ~exists(d, dst) \/ t(d, dst) = "list"
    <3>1. CASE dst # src
      BY <1>1, <1>4, <2>3, <3>1 DEF Touches, Same, exists, t
    <3>2. CASE dst = src
      <4> DEFINE r == SubSeq(l, 1, Len(l) - 1)
                 x == [db EXCEPT !.listKeys[src] = r]
      <4>1. d = IF r = <<>> THEN del(db, src) ELSE bump(x, src, 1)
        BY DEF listPop
      <4>2. CASE r = <<>>
        BY <1>1, <3>2, <4>1, <4>2, DelTouches
      <4>3. CASE r # <<>>
        <5>1. r \in ListEntry
          BY <1>4, <2>2, PopRest, NotNil DEF popPanics
        <5>2. Puts(db, x, src, db.keys[src], r, db.setKeys[src], db.keyVersion[src])
          BY <1>1, <5>1, PutOne
        <5> HIDE DEF x, r, src
        <5>3. Puts(db, bump(x, src, 1), src, db.keys[src], r, db.setKeys[src],
                   db.keyVersion[src] + 1)
          BY <1>1, <5>2, PutBump
        <5> DEFINE y == bump(x, src, 1)
        <5> HIDE DEF y
        <5>4. Puts(db, y, src, db.keys[src], r, db.setKeys[src], db.keyVersion[src] + 1)
          BY <5>3 DEF y
        <5>5. y.keys[src] = db.keys[src]
          BY <1>1, <5>4, PutEntries
        <5> QED BY <1>4, <3>2, <4>1, <4>3, <5>5 DEF t, y
      <4> QED BY <4>2, <4>3
    <3> QED BY <3>1, <3>2
  <2> HIDE DEF d, l
  <2>6. Touches(d, e, {dst})
    <3>1. listAt(d, dst) \in Seq(Val) /\ <<l[Len(l)]>> \in Seq(Val)
      BY <1>1, <2>2, <2>4, ListAtType
    <3>2. <<l[Len(l)]>> \o listAt(d, dst) \in Seq(Val)
      BY <3>1, ConcatProperties
    <3> QED BY <1>1, <2>4, <2>5, <3>2, PutListTouches DEF listLpush
  <2> HIDE DEF e
  <2>7. Touches(db, d, S) /\ Touches(d, e, S)
    <3>1. {src} \subseteq S /\ {dst} \subseteq S
      BY <1>1
    <3> QED BY <2>3, <2>6, <3>1, TouchesMore
  <2>8. Touches(db, e, S)
    BY <2>7, TouchesTwice
  <2> QED BY <2>1, <2>8, Changes, ReplyKinds
<1> QED BY <1>2, <1>3, <1>4

\* LINDEX, LLEN and LRANGE only answer.
LEMMA ListReadPromise ==
    ASSUME NEW c \in Commands, NEW db \in RedisDB, Agree(db),
           NEW o \in cbLindex(c, db) \cup cbLlen(c, db) \cup cbLrange(c, db)
    PROVE  Promise(c, db, o)
<1>1. CASE o \in cbLindex(c, db)
  BY <1>1, OnListPromise, Answers, ReplyKinds DEF cbLindex
<1>2. CASE o \in cbLlen(c, db)
  BY <1>2, OnListPromise, Answers, ReplyKinds DEF cbLlen
<1>3. CASE o \in cbLrange(c, db)
  BY <1>3, OnListPromise, Answers, ReplyKinds DEF cbLrange
<1> QED BY <1>1, <1>2, <1>3

\* LINSERT.
LEMMA LinsertPromise ==
    ASSUME NEW c \in Commands, NEW db \in RedisDB, Agree(db), c.op = "LINSERT",
           NEW o \in cbLinsert(c, db)
    PROVE  Promise(c, db, o)
<1>1. K(c) \in Key /\ {K(c)} \subseteq ToSet(c.keys) /\ c.vals[2] \in Val
  BY FirstKey DEF Keyless, OneValue
<1> DEFINE k == K(c)
           l == listAt(db, k)
           m == linsert(l, c.n, c.vals[1], c.vals[2])
           e == bump([db EXCEPT !.listKeys[k] = m], k, 1)
           present == IF pivotAt(l, c.vals[1]) = 0 THEN One(db, IntReply(-1))
                      ELSE One(e, IntReply(Len(l) + 1))
<1>2. o \in OnList(db, k, IntReply(0), present)
  BY DEF cbLinsert
<1>3. ASSUME o \in present, t(db, k) = "list" PROVE Promise(c, db, o)
  <2>1. CASE pivotAt(l, c.vals[1]) = 0
    BY <1>3, <2>1, Answers, ReplyKinds
  <2>2. CASE pivotAt(l, c.vals[1]) # 0
    <3>1. l \in Seq(Val)
      BY <1>1, ListAtType
    <3>2. m \in Seq(Val)
      BY <1>1, <2>2, <3>1, InsertType
    <3>3. Touches(db, e, {k})
      <4> HIDE DEF m
      <4> QED BY <1>1, <1>3, <3>2, RelistTouches
    <3>4. o \in One(e, IntReply(Len(l) + 1))
      BY <1>3, <2>2
    <3> HIDE DEF e, k
    <3> QED BY <1>1, <3>3, <3>4, Changes, ReplyKinds DEF k
  <2> QED BY <2>1, <2>2
<1> HIDE DEF present
<1> QED BY <1>2, <1>3, OnListPromise, ReplyKinds

\* What LREM and LTRIM leave: an emptied list is deleted.
LEMMA KeepTouches ==
    ASSUME NEW db \in RedisDB, Agree(db), NEW k \in Key, NEW l \in Seq(Val), t(db, k) = "list"
    PROVE  Touches(db, keep(db, k, l), {k})
BY DelTouches, RelistTouches DEF keep

\* LREM and LTRIM.
LEMMA KeepPromise ==
    ASSUME NEW c \in Commands, NEW db \in RedisDB, Agree(db), c.op \in {"LREM", "LTRIM"},
           NEW o \in cbLrem(c, db) \cup cbLtrim(c, db)
    PROVE  Promise(c, db, o)
<1>1. /\ K(c) \in Key /\ {K(c)} \subseteq ToSet(c.keys)
      /\ c.n \in Int64 /\ c.m \in Int64
  BY FirstKey, CommandArgs DEF Keyless
<1> DEFINE k == K(c)
           l == listAt(db, k)
           r == lrem(l, c.n, V(c))
           s == slice(l, redisRange(Len(l), c.n, c.m))
<1>2. l \in Seq(Val) /\ r \in Seq(Val) /\ s \in Seq(Val)
  BY <1>1, ListAtType, LremType, SliceType
<1>3. CASE o \in cbLrem(c, db)
  <2>1. o \in OnList(db, k, IntReply(0), One(keep(db, k, r), IntReply(Len(l) - Len(r))))
    BY <1>3 DEF cbLrem
  <2> HIDE DEF k, l, r
  <2>2. t(db, k) = "list" => Touches(db, keep(db, k, r), {k})
    BY <1>1, <1>2, KeepTouches DEF k
  <2>3. {k} \subseteq ToSet(c.keys)
    BY <1>1 DEF k
  <2>4. /\ t(db, k) = "list" /\ o \in One(keep(db, k, r), IntReply(Len(l) - Len(r)))
        => Promise(c, db, o)
    BY <2>2, <2>3, Changes, ReplyKinds
  <2> QED BY <2>1, <2>4, OnListPromise, ReplyKinds
<1>4. CASE o \in cbLtrim(c, db)
  <2>1. o \in OnList(db, k, OK, One(keep(db, k, s), OK))
    BY <1>4 DEF cbLtrim
  <2> HIDE DEF k, s
  <2>2. t(db, k) = "list" => Touches(db, keep(db, k, s), {k})
    BY <1>1, <1>2, KeepTouches DEF k
  <2>3. {k} \subseteq ToSet(c.keys)
    BY <1>1 DEF k
  <2>4. t(db, k) = "list" /\ o \in One(keep(db, k, s), OK) => Promise(c, db, o)
    BY <2>2, <2>3, Changes, ReplyKinds
  <2> QED BY <2>1, <2>4, OnListPromise, ReplyKinds
<1> QED BY <1>3, <1>4

\* LSET.
LEMMA LsetPromise ==
    ASSUME NEW c \in Commands, NEW db \in RedisDB, Agree(db), c.op = "LSET",
           NEW o \in cbLset(c, db)
    PROVE  Promise(c, db, o)
<1>1. K(c) \in Key /\ {K(c)} \subseteq ToSet(c.keys) /\ V(c) \in Val /\ c.n \in Int
  BY FirstKey, CommandArgs, MaxIntAssumption DEF Keyless, OneValue, Int64, MinInt
<1> DEFINE k == K(c)
           l == listAt(db, k)
           p == position(l, c.n)
           m == [db.listKeys[k] EXCEPT ![p + 1] = V(c)]
           f == [db EXCEPT !.listKeys[k] = m]
           e == bump([db EXCEPT !.listKeys[k][p + 1] = V(c)], k, 1)
           present == IF outOfRange(l, p) THEN One(db, <<"error", "out of range">>)
                      ELSE One(e, OK)
<1>2. o \in OnList(db, k, NoSuchKey, present)
  BY DEF cbLset
<1>3. ASSUME o \in present, t(db, k) = "list" PROVE Promise(c, db, o)
  <2>1. CASE outOfRange(l, p)
    BY <1>3, <2>1, Answers
  <2>2. CASE ~outOfRange(l, p)
    <3>1. l \in Seq(Val) /\ l = db.listKeys[k] /\ Len(l) \in Nat
      BY <1>1, <1>3, ListAtType, ListEntryAt, LenProperties
    <3>2. p + 1 \in 1..Len(l)
      BY <1>1, <2>2, <3>1 DEF position, outOfRange
    <3>3. m \in Seq(Val)
      BY <1>1, <3>1, <3>2, ExceptSeq
    <3>4. e = bump(f, k, 1)
      OBVIOUS
    <3>5. Touches(db, e, {k})
      <4> HIDE DEF m
      <4> QED BY <1>1, <1>3, <3>3, <3>4, RelistTouches
    <3>6. o \in One(e, OK)
      BY <1>3, <2>2
    <3> HIDE DEF e, k
    <3> QED BY <1>1, <3>5, <3>6, Changes, ReplyKinds DEF k
  <2> QED BY <2>1, <2>2
<1> HIDE DEF present
<1> QED BY <1>2, <1>3, OnListPromise, ReplyKinds
-----------------------------------------------------------------------------
(* The set commands. *)

\* SADD.
LEMMA SaddPromise ==
    ASSUME NEW c \in Commands, NEW db \in RedisDB, Agree(db), c.op = "SADD",
           NEW o \in cbSadd(c, db)
    PROVE  Promise(c, db, o)
<1>1. K(c) \in Key /\ {K(c)} \subseteq ToSet(c.keys) /\ vset(c) \in SUBSET Val
  BY FirstKey, CommandArgs DEF Keyless
<1>2. CASE notSet(db, K(c))
  BY <1>2, Answers, ReplyKinds DEF cbSadd
<1>3. CASE ~notSet(db, K(c))
  <2> DEFINE e == setAdd(db, K(c), vset(c))
  <2>1. Touches(db, e, {K(c)})
    BY <1>1, <1>3, SetTouches
  <2>2. \E r : r[1] = "int" /\ o \in One(e, r)
    BY <1>3, ReplyKinds DEF cbSadd
  <2> HIDE DEF e
  <2> QED BY <1>1, <2>1, <2>2, Changes
<1> QED BY <1>2, <1>3

\* SREM.
LEMMA SremPromise ==
    ASSUME NEW c \in Commands, NEW db \in RedisDB, Agree(db), c.op = "SREM",
           NEW o \in cbSrem(c, db)
    PROVE  Promise(c, db, o)
<1>1. K(c) \in Key /\ {K(c)} \subseteq ToSet(c.keys)
  BY FirstKey DEF Keyless
<1> DEFINE e == setRem(db, K(c), vset(c))
<1>2. PICK r : r[1] = "int" /\ o \in OnSet(db, K(c), IntReply(0), One(e, r))
  BY ReplyKinds DEF cbSrem
<1>3. Touches(db, e, {K(c)})
  BY <1>1, SetRemTouches
<1> HIDE DEF e
<1>4. o \in One(e, r) => Promise(c, db, o)
  BY <1>1, <1>2, <1>3, Changes
<1> QED BY <1>2, <1>4, OnSetPromise, ReplyKinds

\* SCARD, SISMEMBER, SMEMBERS, SDIFF, SINTER, SUNION and SSCAN only answer.
LEMMA SetReadPromise ==
    ASSUME NEW c \in Commands, NEW db \in RedisDB, Agree(db),
           NEW o,
           \/ o \in cbScard(c, db) \/ o \in cbSismember(c, db) \/ o \in cbSmembers(c, db)
           \/ o \in cbSetRead(c, db) \/ (o \in cbSscan(c, db) /\ c.op = "SSCAN")
    PROVE  Promise(c, db, o)
<1>1. CASE o \in cbScard(c, db)
  BY <1>1, OnSetPromise, Answers, ReplyKinds DEF cbScard
<1>2. CASE o \in cbSismember(c, db)
  BY <1>2, OnSetPromise, Answers, ReplyKinds DEF cbSismember
<1>3. CASE o \in cbSmembers(c, db)
  BY <1>3, OnSetPromise, Answers, ReplyKinds DEF cbSmembers
<1>4. CASE o \in cbSetRead(c, db)
  BY <1>4, Answers, ReplyKinds DEF cbSetRead
<1>5. CASE o \in cbSscan(c, db) /\ c.op = "SSCAN"
  BY <1>5, Answers, ReplyKinds DEF cbSscan, MayPanic
<1> QED BY <1>1, <1>2, <1>3, <1>4, <1>5

\* setRem keeps the type of its key, or deletes it.
LEMMA SetRemKeeps ==
    ASSUME NEW db \in RedisDB, Agree(db), NEW k \in Key, NEW es
    PROVE  LET d == setRem(db, k, es) IN d.keys[k] = db.keys[k] \/ d.keys[k] = Untyped
<1> DEFINE s == db.setKeys[k] \ es
           d == IF db.setKeys[k] \subseteq es THEN del(db, k) ELSE [db EXCEPT !.setKeys[k] = s]
<1>1. CASE db.setKeys[k] = Nil
  BY <1>1 DEF setRem
<1>2. CASE db.setKeys[k] # Nil
  <2>1. setRem(db, k, es) = bump(d, k, 1)
    BY <1>2 DEF setRem
  <2>2. d \in RedisDB /\ (d.keys[k] = db.keys[k] \/ d.keys[k] = Untyped)
    <3>1. CASE db.setKeys[k] \subseteq es
      BY <3>1, DelTouches DEF Touches, exists
    <3>2. CASE ~(db.setKeys[k] \subseteq es)
      <4>1. s \in SetEntry
        BY <1>2, DbEntries, NotNil DEF SetEntry
      <4>2. Puts(db, [db EXCEPT !.setKeys[k] = s], k,
                 db.keys[k], db.listKeys[k], s, db.keyVersion[k])
        BY <4>1, PutOne
      <4> HIDE DEF s
      <4>3. /\ [db EXCEPT !.setKeys[k] = s] \in RedisDB
            /\ [db EXCEPT !.setKeys[k] = s].keys[k] = db.keys[k]
        BY <4>2, PutEntries DEF Puts
      <4> QED BY <3>2, <4>3
    <3> QED BY <3>1, <3>2
  <2> HIDE DEF d
  <2>3. Puts(d, bump(d, k, 1), k, d.keys[k], d.listKeys[k], d.setKeys[k], d.keyVersion[k] + 1)
    BY <2>2, PutOne
  <2>4. bump(d, k, 1).keys[k] = d.keys[k]
    BY <2>2, <2>3, PutEntries
  <2> QED BY <2>1, <2>2, <2>4
<1> QED BY <1>1, <1>2

\* SMOVE: after the member left its set, the destination is still a set or absent.
LEMMA SmovePromise ==
    ASSUME NEW c \in Commands, NEW db \in RedisDB, Agree(db), c.op = "SMOVE",
           NEW o \in cbSmove(c, db)
    PROVE  Promise(c, db, o)
<1> DEFINE src == c.keys[1]
           dst == c.keys[2]
           x   == {V(c)}
           d   == setRem(db, src, x)
           e   == setAdd(d, dst, x)
           S   == ToSet(c.keys)
           present == IF notSet(db, dst) THEN One(db, WrongType)
                      ELSE IF ~setIsMember(db, src, V(c)) THEN One(db, IntReply(0))
                      ELSE One(e, IntReply(1))
<1>1. src \in Key /\ dst \in Key /\ src \in S /\ dst \in S /\ x \in SUBSET Val
  BY FirstKey DEF Keyless, TwoKeys, OneValue, K
<1>2. o \in OnSet(db, src, IntReply(0), present)
  BY DEF cbSmove
<1>3. ASSUME o \in present, t(db, src) = "set" PROVE Promise(c, db, o)
  <2>1. CASE notSet(db, dst) \/ ~setIsMember(db, src, V(c))
    BY <1>3, <2>1, Answers, ReplyKinds
  <2>2. CASE ~notSet(db, dst) /\ setIsMember(db, src, V(c))
    <3>1. o \in One(e, IntReply(1))
      BY <1>3, <2>2
    <3>2. Touches(db, d, {src})
      BY <1>1, SetRemTouches
    <3>3. d \in RedisDB /\ Agree(d)
      BY <3>2 DEF Touches
    <3>4. ~notSet(d, dst)
      <4>1. CASE dst # src
        BY <1>1, <2>2, <3>2, <4>1 DEF Touches, Same, notSet, exists, t
      <4>2. CASE dst = src
        <5>1. d.keys[src] = db.keys[src] \/ d.keys[src] = Untyped
          BY <1>1, SetRemKeeps
        <5> QED BY <1>3, <4>2, <5>1 DEF notSet, exists, t
      <4> QED BY <4>1, <4>2
    <3> HIDE DEF d, x
    <3>5. Touches(d, e, {dst})
      BY <1>1, <3>3, <3>4, SetTouches
    <3> HIDE DEF e
    <3>6. Touches(db, d, S) /\ Touches(d, e, S)
      <4>1. {src} \subseteq S /\ {dst} \subseteq S
        BY <1>1
      <4> QED BY <3>2, <3>5, <4>1, TouchesMore
    <3>7. Touches(db, e, S)
      BY <3>6, TouchesTwice
    <3> QED BY <3>1, <3>7, Changes, ReplyKinds
  <2> QED BY <2>1, <2>2
<1> HIDE DEF present
<1> QED BY <1>2, <1>3, OnSetPromise, ReplyKinds

\* SPOP: each draw bumps the version.
LEMMA SpopPromise ==
    ASSUME NEW c \in Commands, NEW db \in RedisDB, Agree(db), c.op = "SPOP",
           NEW o \in cbSpop(c, db)
    PROVE  Promise(c, db, o)
<1>1. K(c) \in Key /\ {K(c)} \subseteq ToSet(c.keys)
  BY FirstKey DEF Keyless
<1> DEFINE k == K(c)
           s == setAt(db, k)
           count == IF c.m = 1 THEN c.n ELSE 1
           size  == IF count < 0 THEN 0
                    ELSE IF count > Cardinality(s) THEN Cardinality(s) ELSE count
           After(x) == IF x = {} THEN db ELSE bump(setRem(db, k, x), k, Cardinality(x) - 1)
           Reply(x) == IF c.m = 1 THEN Array(x)
                       ELSE IF x = {} THEN Null ELSE Bulk(CHOOSE v \in x : TRUE)
           present == {[db |-> After(x), reply |-> Reply(x)] : x \in kSubset(size, s)}
           absent == IF c.m = 1 THEN Array({}) ELSE Null
<1>2. o \in One(db, BadInt) \/ o \in OnSet(db, k, absent, present)
  BY DEF cbSpop
<1>3. ASSUME o \in present PROVE Promise(c, db, o)
  <2> HIDE DEF size
  <2>1. PICK x \in kSubset(size, s) : o = [db |-> After(x), reply |-> Reply(x)]
    BY <1>3
  <2>2. x \in SUBSET s
    BY DEF kSubset
  <2>3. IsFiniteSet(x)
    BY <1>1, <2>2, ListAtType, ValAssumption, FS_Subset
  <2>4. x # {} => Cardinality(x) - 1 \in Nat
    BY <2>3, FS_CardinalityType, FS_EmptySet
  <2>5. Touches(db, After(x), {k})
    <3>1. CASE x = {}
      BY <3>1, TouchesNothing
    <3>2. CASE x # {}
      <4> DEFINE d == setRem(db, k, x)
                 n == Cardinality(x) - 1
      <4>1. Touches(db, d, {k})
        BY <1>1, SetRemTouches
      <4>2. d \in RedisDB /\ Agree(d)
        BY <4>1 DEF Touches
      <4> HIDE DEF d, n
      <4>3. Touches(d, bump(d, k, n), {k})
        BY <1>1, <2>4, <3>2, <4>2, BumpTouches DEF n
      <4>4. Touches(db, bump(d, k, n), {k})
        BY <4>1, <4>3, TouchesTwice
      <4> QED BY <3>2, <4>4 DEF d, n
    <3> QED BY <3>1, <3>2
  <2>6. Reply(x)[1] # "panic" /\ Reply(x)[1] # "error"
    BY ReplyKinds
  <2>7. o \in One(After(x), Reply(x))
    BY <2>1 DEF One
  <2> HIDE DEF After, Reply
  <2> QED BY <1>1, <2>5, <2>6, <2>7, Changes
<1>4. absent[1] # "panic"
  BY ReplyKinds
<1>5. o \in One(db, BadInt) => Promise(c, db, o)
  BY Answers, ReplyKinds
<1> HIDE DEF present, absent
<1> QED BY <1>2, <1>3, <1>4, <1>5, OnSetPromise

\* SRANDMEMBER: it panics on an empty set only.
LEMMA SrandmemberPromise ==
    ASSUME NEW c \in Commands, NEW db \in RedisDB, Agree(db), c.op = "SRANDMEMBER",
           NEW o \in cbSrandmember(c, db)
    PROVE  Promise(c, db, o)
<1>1. K(c) \in Key
  BY FirstKey DEF Keyless
<1> DEFINE k == K(c)
           s == setAt(db, k)
           count == IF c.n > Cardinality(s) THEN Cardinality(s) ELSE c.n
           Replies ==
               IF c.m # 1 THEN {Bulk(v) : v \in s}
               ELSE IF c.n < 0
                    THEN {Array(x) : x \in {y \in SUBSET s : y # {} /\ Cardinality(y) <= -c.n}}
               ELSE {Array(x) : x \in kSubset(count, s)}
           present == IF s = {} /\ (c.m # 1 \/ c.n < 0) THEN One(db, Panicked)
                      ELSE {[db |-> db, reply |-> r] : r \in Replies}
<1>2. o \in OnSet(db, k, Null, present)
  BY DEF cbSrandmember
<1>3. ASSUME o \in present, t(db, k) = "set" PROVE Promise(c, db, o)
  <2>1. CASE s = {} /\ o \in One(db, Panicked)
    <3>1. MayPanic(c, db)
      BY <1>1, <1>3, <2>1, ListEntryAt DEF MayPanic
    <3> QED BY <2>1, <3>1, Answers
  <2>2. CASE o \in {[db |-> db, reply |-> r] : r \in Replies}
    <3>1. \A r \in Replies : r[1] # "panic"
      BY ReplyKinds
    <3> HIDE DEF Replies
    <3>2. PICK r \in Replies : o \in One(db, r)
      BY <2>2 DEF One
    <3> QED BY <3>1, <3>2, Answers
  <2> QED BY <1>3, <2>1, <2>2
<1> HIDE DEF present
<1> QED BY <1>2, <1>3, OnSetPromise, ReplyKinds

\* What SDIFF, SINTER and SUNION compute is a set of values.
LEMMA CombineType ==
    ASSUME NEW db \in RedisDB, NEW ks \in Seq(Key), Len(ks) >= 1,
           NEW op \in {"diff", "inter", "union"}
    PROVE  combine(db, op, ks) \in SUBSET Val
<1> DEFINE first == setAt(db, ks[1])
           sets  == {setAt(db, k) : k \in {x \in others(ks) : t(db, x) = "set"}}
<1>1. Len(ks) \in Nat
  BY LenProperties
<1>2. ks[1] \in Key /\ others(ks) \subseteq Key
  BY <1>1, ElementOfSeq DEF others
<1>3. first \in SUBSET Val /\ \A s \in sets : s \in SUBSET Val
  BY <1>2, ListAtType
<1>4. combine(db, op, ks) = CASE op = "diff"  -> first \ UNION sets
                              [] op = "inter" -> {e \in first : \A s \in sets : e \in s}
                              [] op = "union" -> first \cup UNION sets
  BY DEF combine
<1> HIDE DEF first, sets
<1> QED BY <1>3, <1>4

\* SDIFFSTORE, SINTERSTORE and SUNIONSTORE.
LEMMA SetStorePromise ==
    ASSUME NEW c \in Commands, NEW db \in RedisDB, Agree(db),
           c.op \in {"SDIFFSTORE", "SINTERSTORE", "SUNIONSTORE"}, NEW o \in cbSetStore(c, db)
    PROVE  Promise(c, db, o)
<1>1. K(c) \in Key /\ {K(c)} \subseteq ToSet(c.keys) /\ Len(c.keys) >= 2
  BY FirstKey DEF Keyless, TwoKeys
<1> DEFINE k == K(c)
           s == combine(db, SetOp(c), Tail(c.keys))
           d == del(db, k)
           e == setSet(d, k, s)
<1>2. CASE wrongType(db, SetOp(c), Tail(c.keys))
  BY <1>2, Answers, ReplyKinds DEF cbSetStore
<1>3. CASE ~wrongType(db, SetOp(c), Tail(c.keys))
  <2>1. PICK r : r[1] = "int" /\ o \in One(e, r)
    BY <1>3, ReplyKinds DEF cbSetStore
  <2>2. s \in SUBSET Val
    <3>1. c.keys \in Seq(Key) /\ c.keys # <<>> /\ Len(c.keys) \in Nat
      BY <1>1, CommandArgs, EmptySeq
    <3>2. Tail(c.keys) \in Seq(Key) /\ Len(Tail(c.keys)) >= 1
      BY <1>1, <3>1, HeadTailProperties
    <3>3. SetOp(c) \in {"diff", "inter", "union"}
      BY DEF SetOp
    <3> QED BY <3>2, <3>3, CombineType
  <2>3. Touches(db, d, {k}) /\ ~exists(d, k)
    BY <1>1, DelTouches
  <2>4. d \in RedisDB /\ Agree(d) /\ ~notSet(d, k)
    BY <2>3 DEF Touches, notSet
  <2> HIDE DEF d, s
  <2>5. Touches(d, e, {k})
    BY <1>1, <2>2, <2>4, SetTouches
  <2> HIDE DEF e
  <2>6. Touches(db, e, {k})
    BY <2>3, <2>5, TouchesTwice
  <2> QED BY <1>1, <2>1, <2>6, Changes
<1> QED BY <1>2, <1>3
-----------------------------------------------------------------------------
(* Keys and databases. *)

\* DEL.
LEMMA DelPromise ==
    ASSUME NEW c \in Commands, NEW db \in RedisDB, Agree(db), NEW o \in cbDel(c, db)
    PROVE  Promise(c, db, o)
<1>1. Touches(db, delAll(db, ToSet(c.keys)), ToSet(c.keys))
  BY DelAllTouches
<1> QED BY <1>1, Changes, ReplyKinds DEF cbDel

\* RENAME and RENAMENX: a rename panics only when the key is its own target.
LEMMA RenamePromise ==
    ASSUME NEW c \in Commands, NEW db \in RedisDB, Agree(db), c.op \in {"RENAME", "RENAMENX"},
           NEW o \in cbRename(c, db)
    PROVE  Promise(c, db, o)
<1> DEFINE from == c.keys[1]
           to   == c.keys[2]
           r    == IF c.op = "RENAMENX" THEN IntReply(1) ELSE OK
<1>1. from \in Key /\ to \in Key /\ {from, to} \subseteq ToSet(c.keys)
  BY FirstKey DEF Keyless, TwoKeys, K
<1>2. CASE ~exists(db, from)
  BY <1>2, Answers, ReplyKinds DEF cbRename
<1>3. CASE exists(db, from) /\ c.op = "RENAMENX" /\ exists(db, to)
  BY <1>3, Answers, ReplyKinds DEF cbRename
<1>4. CASE exists(db, from) /\ ~(c.op = "RENAMENX" /\ exists(db, to))
  <2>1. CASE renamePanics(db, from, to)
    <3>1. from = to
      <4> SUFFICES ASSUME from # to PROVE FALSE
        OBVIOUS
      <4>1. \A j \in Key \ {to} : Same(db, del(db, to), j)
        BY <1>1, DelTouches
      <4>2. Same(db, del(db, to), from)
        BY <1>1, <4>1
      <4> QED BY <1>4, <2>1, <4>2 DEF renamePanics, exists, Same
    <3>2. MayPanic(c, db)
      BY <1>4, <3>1 DEF MayPanic
    <3> QED BY <1>4, <2>1, <3>2, Answers DEF cbRename
  <2>2. CASE ~renamePanics(db, from, to)
    <3>1. Touches(db, rename(db, from, to), {from, to})
      BY <1>1, <1>4, <2>2, RenameTouches
    <3>2. o \in One(rename(db, from, to), r)
      BY <1>4, <2>2 DEF cbRename
    <3>3. r[1] # "panic" /\ r[1] # "error"
      BY ReplyKinds
    <3> HIDE DEF r, from, to
    <3> QED BY <1>1, <3>1, <3>2, <3>3, Changes
  <2> QED BY <2>1, <2>2
<1> QED BY <1>2, <1>3, <1>4

\* TYPE, EXISTS, KEYS, SCAN, RANDOMKEY and DBSIZE only answer.
LEMMA KeyReadPromise ==
    ASSUME NEW c \in Commands, NEW db \in RedisDB, Agree(db),
           NEW o,
           \/ o \in cbType(c, db) \/ o \in cbExists(c, db)
           \/ (o \in cbKeys(c, db) /\ c.op = "KEYS") \/ (o \in cbScan(c, db) /\ c.op = "SCAN")
           \/ o \in cbRandomkey(c, db) \/ o \in cbDbsize(c, db)
    PROVE  Promise(c, db, o)
<1>1. \E r : (r[1] # "panic" \/ MayPanic(c, db)) /\ o \in One(db, r)
  <2>1. CASE o \in cbType(c, db)
    BY <2>1, ReplyKinds DEF cbType
  <2>2. CASE o \in cbExists(c, db)
    BY <2>2, ReplyKinds DEF cbExists
  <2>3. CASE o \in cbKeys(c, db) /\ c.op = "KEYS"
    BY <2>3, ReplyKinds DEF cbKeys, MayPanic
  <2>4. CASE o \in cbScan(c, db) /\ c.op = "SCAN"
    BY <2>4, ReplyKinds DEF cbScan, cbKeys, MayPanic
  <2>5. CASE o \in cbRandomkey(c, db)
    <3>1. o \in One(db, Null) \/ \E k \in allKeys(db) : o \in One(db, Bulk(k))
      BY <2>5 DEF cbRandomkey, One
    <3> QED BY <3>1, ReplyKinds
  <2>6. CASE o \in cbDbsize(c, db)
    BY <2>6, ReplyKinds DEF cbDbsize
  <2> QED BY <2>1, <2>2, <2>3, <2>4, <2>5, <2>6
<1> QED BY <1>1, Answers

\* Every callback keeps the promise, except FLUSHDB, which wipes the database.
LEMMA CallbackPromise ==
    ASSUME NEW c \in Commands, NEW db \in RedisDB, Agree(db), NEW o \in Callback(c, db)
    PROVE  /\ c.op # "FLUSHDB" => Promise(c, db, o)
           /\ c.op = "FLUSHDB" => Wiped(db, o.db) /\ o.reply = OK
<1>1. CASE c.op \in {"LPOP", "RPOP"}
  BY <1>1, XpopPromise DEF Callback
<1>2. CASE c.op \in {"BLPOP", "BRPOP"}
  BY <1>2, BXpopPromise DEF Callback
<1>3. CASE c.op \in {"LPUSH", "RPUSH", "LPUSHX", "RPUSHX"}
  <2>1. o \in cbXpush(c, db) \/ o \in cbXpushx(c, db)
    BY <1>3 DEF Callback
  <2> QED BY <1>3, <2>1, XpushPromise
<1>4. CASE c.op \in {"RPOPLPUSH", "BRPOPLPUSH"}
  BY <1>4, RpoplpushPromise DEF Callback
<1>5. CASE c.op \in {"LINDEX", "LLEN", "LRANGE"}
  <2>1. o \in cbLindex(c, db) \/ o \in cbLlen(c, db) \/ o \in cbLrange(c, db)
    BY <1>5 DEF Callback
  <2> QED BY <1>5, <2>1, ListReadPromise
<1>6. CASE c.op = "LINSERT"
  BY <1>6, LinsertPromise DEF Callback
<1>7. CASE c.op \in {"LREM", "LTRIM"}
  <2>1. o \in cbLrem(c, db) \/ o \in cbLtrim(c, db)
    BY <1>7 DEF Callback
  <2> QED BY <1>7, <2>1, KeepPromise
<1>8. CASE c.op = "LSET"
  BY <1>8, LsetPromise DEF Callback
<1>9. CASE c.op = "SADD"
  BY <1>9, SaddPromise DEF Callback
<1>10. CASE c.op = "SREM"
  BY <1>10, SremPromise DEF Callback
<1>11. CASE c.op \in {"SCARD", "SISMEMBER", "SMEMBERS", "SDIFF", "SINTER", "SUNION", "SSCAN"}
  <2>1. \/ o \in cbScard(c, db) \/ o \in cbSismember(c, db) \/ o \in cbSmembers(c, db)
        \/ o \in cbSetRead(c, db) \/ (o \in cbSscan(c, db) /\ c.op = "SSCAN")
    BY <1>11 DEF Callback
  <2> QED BY <1>11, <2>1, SetReadPromise
<1>12. CASE c.op = "SMOVE"
  BY <1>12, SmovePromise DEF Callback
<1>13. CASE c.op = "SPOP"
  BY <1>13, SpopPromise DEF Callback
<1>14. CASE c.op = "SRANDMEMBER"
  BY <1>14, SrandmemberPromise DEF Callback
<1>15. CASE c.op \in {"SDIFFSTORE", "SINTERSTORE", "SUNIONSTORE"}
  BY <1>15, SetStorePromise DEF Callback
<1>16. CASE c.op = "DEL"
  BY <1>16, DelPromise DEF Callback
<1>17. CASE c.op \in {"RENAME", "RENAMENX"}
  BY <1>17, RenamePromise DEF Callback
<1>18. CASE c.op \in {"TYPE", "EXISTS", "KEYS", "SCAN", "RANDOMKEY", "DBSIZE"}
  <2>1. \/ o \in cbType(c, db) \/ o \in cbExists(c, db)
        \/ (o \in cbKeys(c, db) /\ c.op = "KEYS") \/ (o \in cbScan(c, db) /\ c.op = "SCAN")
        \/ o \in cbRandomkey(c, db) \/ o \in cbDbsize(c, db)
    BY <1>18 DEF Callback
  <2> QED BY <1>18, <2>1, KeyReadPromise
<1>19. CASE c.op = "FLUSHDB"
  BY <1>19, FlushWipes DEF Callback, cbFlushdb, One
<1>20. CASE c.op \notin {"LPOP", "RPOP", "BLPOP", "BRPOP", "LPUSH", "RPUSH", "LPUSHX", "RPUSHX",
                         "RPOPLPUSH", "BRPOPLPUSH", "LINDEX", "LLEN", "LRANGE", "LINSERT",
                         "LREM", "LTRIM", "LSET", "SADD", "SREM", "SCARD", "SISMEMBER",
                         "SMEMBERS", "SDIFF", "SINTER", "SUNION", "SSCAN", "SMOVE", "SPOP",
                         "SRANDMEMBER", "SDIFFSTORE", "SINTERSTORE", "SUNIONSTORE", "DEL",
                         "RENAME", "RENAMENX", "TYPE", "EXISTS", "KEYS", "SCAN", "RANDOMKEY",
                         "DBSIZE", "FLUSHDB"}
  <2>1. o \in One(db, OK)
    BY <1>20 DEF Callback
  <2> QED BY <1>20, <2>1, Answers, ReplyKinds
<1> QED BY <1>1, <1>2, <1>3, <1>4, <1>5, <1>6, <1>7, <1>8, <1>9, <1>10, <1>11, <1>12, <1>13,
           <1>14, <1>15, <1>16, <1>17, <1>18, <1>19, <1>20

\* Every method of the direct API keeps the promise, except FlushDB.
LEMMA MethodPromise ==
    ASSUME NEW c \in Commands, NEW db \in RedisDB, Agree(db), NEW o \in Method(c, db),
           c.op \in DirectMethods \ {"FlushAll"}
    PROVE  /\ c.op # "FlushDB" => Promise(c, db, o)
           /\ c.op = "FlushDB" => Wiped(db, o.db) /\ o.reply = OK
<1> DEFINE k == K(c)
           l == listAt(db, k)
<1>1. c.op \notin {"Keys", "FlushDB"} => k \in Key /\ {k} \subseteq ToSet(c.keys)
  BY FirstKey DEF Keyless, DirectMethods
<1>2. CASE c.op \in {"Lpush", "Push"}
  <2>1. k \in Key /\ l \in Seq(Val) /\ c.vals \in Seq(Val) /\ (c.op = "Lpush" => V(c) \in Val)
    BY <1>1, <1>2, ListAtType, CommandArgs, FirstKey DEF OneValue
  <2>2. l \o c.vals \in Seq(Val) /\ (c.op = "Lpush" => <<V(c)>> \o l \in Seq(Val))
    <3>1. c.op = "Lpush" => <<V(c)>> \in Seq(Val)
      BY <2>1
    <3> QED BY <2>1, <3>1, ConcatProperties
  <2>3. \/ o \in One(db, ErrWrongType)
        \/ /\ ~exists(db, k) \/ t(db, k) = "list"
           /\ \E m \in Seq(Val) : \E r : r[1] = "int" /\ o \in One(putList(db, k, m), r)
    BY <1>2, <2>2, ReplyKinds DEF Method, Lpush, Push, listLpush, listPush
  <2>4. CASE o \in One(db, ErrWrongType)
    BY <1>2, <2>4, Answers, ReplyKinds DEF ErrWrongType
  <2>5. CASE o \notin One(db, ErrWrongType)
    <3>0. PICK m \in Seq(Val) : \E r : r[1] = "int" /\ o \in One(putList(db, k, m), r)
      BY <2>3, <2>5
    <3>1. PICK r : r[1] = "int" /\ o \in One(putList(db, k, m), r)
      BY <3>0
    <3>2. Touches(db, putList(db, k, m), {k})
      BY <2>1, <2>3, <2>5, PutListTouches
    <3> HIDE DEF k
    <3> QED BY <1>1, <1>2, <3>1, <3>2, Changes
  <2> QED BY <2>4, <2>5
<1>3. CASE c.op \in {"Lpop", "Pop"}
  <2>0. PICK e \in {listLpop(db, k), listPop(db, k)} : \E el :
           o \in OnList(db, k, ErrKeyNotFound,
                        IF popPanics(db, k) THEN One(db, Panicked) ELSE One(e, Bulk(el)))
    BY <1>3 DEF Method, Lpop, Pop, PopWith
  <2>1. PICK el :
           o \in OnList(db, k, ErrKeyNotFound,
                        IF popPanics(db, k) THEN One(db, Panicked) ELSE One(e, Bulk(el)))
    BY <2>0
  <2>2. ASSUME t(db, k) = "list", popPanics(db, k), o \in One(db, Panicked)
        PROVE  Promise(c, db, o)
    <3>1. MayPanic(c, db)
      BY <1>1, <1>3, <2>2, ListEntryAt DEF MayPanic, popPanics
    <3> QED BY <2>2, <3>1, Answers
  <2>3. ASSUME t(db, k) = "list", ~popPanics(db, k), o \in One(e, Bulk(el))
        PROVE  Promise(c, db, o)
    <3>1. Touches(db, e, {k})
      BY <1>1, <1>3, <2>0, <2>3, PopTouches DEF popPanics
    <3> HIDE DEF k
    <3> QED BY <1>1, <1>3, <2>3, <3>1, Changes, ReplyKinds
  <2>4. ErrKeyNotFound[1] # "panic"
    BY ReplyKinds DEF ErrKeyNotFound
  <2> DEFINE present == IF popPanics(db, k) THEN One(db, Panicked) ELSE One(e, Bulk(el))
  <2>5. o \in present /\ exists(db, k) /\ t(db, k) = "list" => Promise(c, db, o)
    BY <2>2, <2>3
  <2>6. o \in OnList(db, k, ErrKeyNotFound, present)
    BY <2>1
  <2> HIDE DEF present, k
  <2> QED BY <1>3, <2>4, <2>5, <2>6, OnListPromise
<1>4. CASE c.op = "SetAdd"
  <2>1. CASE notSet(db, k)
    BY <1>4, <2>1, Answers, ReplyKinds DEF Method, SetAdd, ErrWrongType
  <2>2. CASE ~notSet(db, k)
    <3> DEFINE e == setAdd(db, k, vset(c))
    <3>1. PICK r : r[1] = "int" /\ o \in One(e, r)
      BY <1>4, <2>2, ReplyKinds DEF Method, SetAdd
    <3>2. Touches(db, e, {k})
      BY <1>1, <1>4, <2>2, SetTouches, CommandArgs
    <3> HIDE DEF e, k
    <3> QED BY <1>1, <1>4, <3>1, <3>2, Changes
  <2> QED BY <2>1, <2>2
<1>5. CASE c.op = "SRem"
  <2> DEFINE e == setRem(db, k, vset(c))
  <2>1. PICK r : r[1] = "int" /\ o \in OnSet(db, k, ErrKeyNotFound, One(e, r))
    BY <1>5, ReplyKinds DEF Method, SRem
  <2>2. Touches(db, e, {k})
    BY <1>1, <1>5, SetRemTouches
  <2> HIDE DEF e, k
  <2>3. o \in One(e, r) => Promise(c, db, o)
    BY <1>1, <1>5, <2>1, <2>2, Changes
  <2>4. ErrKeyNotFound[1] # "panic"
    BY ReplyKinds DEF ErrKeyNotFound
  <2> QED BY <1>5, <2>1, <2>3, <2>4, OnSetPromise
<1>6. CASE c.op = "Del"
  <2>1. Touches(db, del(db, k), {k}) /\ \E r : r[1] = "int" /\ o \in One(del(db, k), r)
    BY <1>1, <1>6, DelTouches, ReplyKinds DEF Method, Del, Bool
  <2> HIDE DEF k
  <2> QED BY <1>1, <1>6, <2>1, Changes
<1>7. CASE c.op \in {"List", "Members", "IsMember"}
  <2>1. PICK r : /\ r[1] # "panic"
                 /\ \/ o \in OnList(db, k, ErrKeyNotFound, One(db, r))
                    \/ o \in OnSet(db, k, ErrKeyNotFound, One(db, r))
    BY <1>7, ReplyKinds DEF Method, List, Members, IsMember, Bool
  <2>2. ErrKeyNotFound[1] # "panic"
    BY ReplyKinds DEF ErrKeyNotFound
  <2>3. o \in One(db, r) => Promise(c, db, o)
    BY <2>1, Answers
  <2> HIDE DEF k
  <2> QED BY <1>7, <2>1, <2>2, <2>3, OnListPromise, OnSetPromise
<1>8. CASE c.op \in {"Type", "Exists", "Keys"}
  <2>1. \E r : r[1] # "panic" /\ o \in One(db, r)
    BY <1>8, ReplyKinds DEF Method, Type, Exists, Keys, Bool
  <2> QED BY <1>8, <2>1, Answers
<1>9. CASE c.op = "FlushDB"
  BY <1>9, FlushWipes DEF Method, FlushDB, One
<1> QED BY <1>2, <1>3, <1>4, <1>5, <1>6, <1>7, <1>8, <1>9 DEF DirectMethods
-----------------------------------------------------------------------------
(* All the databases. *)

\* The databases: each of the right type, with maps that agree.
Sound(ds) == ds \in [DB -> RedisDB] /\ \A d \in DB : Agree(ds[d])

\* The commands and methods that flush.
Flushing == {"FLUSHALL", "FLUSHDB", "FlushAll", "FlushDB"}

\* Where a command may change keys: in its database; MOVE in its target as well.
Reach(c, sel) == {sel} \cup (IF c.op = "MOVE" THEN {c.n} ELSE {})

\* What a command or method does to all the databases when sel is selected.
Kept(c, sel, ds, o) ==
    /\ Sound(o.dbs)
    /\ c.op \notin Flushing =>
          \A d \in DB : Touches(ds[d], o.dbs[d], IF d \in Reach(c, sel) THEN ToSet(c.keys) ELSE {})
    /\ c.op \in Flushing => \A d \in DB : o.dbs[d] = ds[d] \/ Wiped(ds[d], o.dbs[d])
    /\ o.reply[1] = "error" => o.dbs = ds
    /\ o.reply = Panicked => MayPanic(c, ds[sel])

\* A callback on one database leaves the others alone.
LEMMA KeptInOne ==
    ASSUME NEW c, NEW sel \in DB, NEW ds, Sound(ds), NEW e, NEW r, NEW o,
           o = [dbs |-> [ds EXCEPT ![sel] = e], reply |-> r],
           \/ c.op \notin Flushing /\ Promise(c, ds[sel], [db |-> e, reply |-> r])
           \/ c.op \in Flushing /\ Wiped(ds[sel], e) /\ r = OK
    PROVE  Kept(c, sel, ds, o)
<1>1. e \in RedisDB /\ Agree(e)
  BY DEF Promise, Touches, Wiped
<1>2. o.reply = r /\ o.dbs = [ds EXCEPT ![sel] = e]
  OBVIOUS
<1>3. o.dbs[sel] = e /\ \A d \in DB \ {sel} : o.dbs[d] = ds[d]
  BY <1>2 DEF Sound
<1>4. Sound(o.dbs)
  BY <1>1, <1>2 DEF Sound
<1>5. c.op \in Flushing => \A d \in DB : o.dbs[d] = ds[d] \/ Wiped(ds[d], o.dbs[d])
  BY <1>3
<1>6. c.op \notin Flushing =>
        \A d \in DB : Touches(ds[d], o.dbs[d], IF d \in Reach(c, sel) THEN ToSet(c.keys) ELSE {})
  <2> SUFFICES ASSUME c.op \notin Flushing, NEW d \in DB
               PROVE  Touches(ds[d], o.dbs[d], IF d \in Reach(c, sel) THEN ToSet(c.keys) ELSE {})
    OBVIOUS
  <2>1. Touches(ds[sel], e, ToSet(c.keys))
    BY DEF Promise
  <2>2. \A S : Touches(ds[d], ds[d], S)
    BY TouchesNothing DEF Sound
  <2>3. sel \in Reach(c, sel)
    BY DEF Reach
  <2> QED BY <1>3, <2>1, <2>2, <2>3
<1>7. o.reply[1] = "error" => o.dbs = ds
  <2>1. r[1] = "error" => e = ds[sel]
    BY ReplyKinds DEF Promise
  <2> QED BY <1>2, <2>1 DEF Sound
<1>8. o.reply = Panicked => MayPanic(c, ds[sel])
  <2>1. OK # Panicked
    BY DEF OK, Panicked
  <2> QED BY <1>2, <2>1 DEF Promise
<1> QED BY <1>4, <1>5, <1>6, <1>7, <1>8 DEF Kept

\* FLUSHALL and FlushAll wipe every database.
LEMMA KeptByFlushAll ==
    ASSUME NEW c, c.op \in {"FLUSHALL", "FlushAll"}, NEW sel, NEW ds, Sound(ds), NEW o,
           o = [dbs |-> flushAll(ds), reply |-> OK]
    PROVE  Kept(c, sel, ds, o)
<1>1. \A d \in DB : flushAll(ds)[d] = flush(ds[d]) /\ Wiped(ds[d], flush(ds[d]))
  BY FlushWipes DEF flushAll, Sound
<1>2. flushAll(ds) = [d \in DB |-> flush(ds[d])]
  BY DEF flushAll
<1>3. \A d \in DB : flush(ds[d]) \in RedisDB /\ Agree(flush(ds[d]))
  BY <1>1 DEF Wiped
<1>4. Sound(flushAll(ds))
  BY <1>2, <1>3 DEF Sound
<1>5. c.op \in Flushing
  BY DEF Flushing
<1>6. OK[1] # "error" /\ OK # Panicked
  BY DEF OK, Panicked
<1> QED BY <1>1, <1>4, <1>5, <1>6 DEF Kept

\* MOVE touches its key in two databases, or changes nothing.
LEMMA KeptByMove ==
    ASSUME NEW c \in Commands, c.op = "MOVE", NEW sel \in DB, NEW ds, Sound(ds),
           NEW o \in cbMove(c, sel, ds)
    PROVE  Kept(c, sel, ds, o)
<1>1. K(c) \in Key /\ {K(c)} \subseteq ToSet(c.keys) /\ c.n \in DB
  BY FirstKey DEF Keyless, Commands
<1>2. c.op \notin Flushing
  BY DEF Flushing
<1>3. ASSUME o.dbs = ds, o.reply # Panicked PROVE Kept(c, sel, ds, o)
  <2>1. \A d \in DB : \A S : Touches(ds[d], ds[d], S)
    BY TouchesNothing DEF Sound
  <2> QED BY <1>2, <1>3, <2>1 DEF Kept
<1>4. CASE sel = c.n \/ ~moves(ds[sel], K(c), ds[c.n])
  <2>1. o.dbs = ds /\ o.reply \in {<<"error", "same">>, IntReply(0)}
    BY <1>4 DEF cbMove
  <2>2. o.reply # Panicked
    BY <2>1 DEF Panicked, IntReply
  <2> QED BY <1>3, <2>1, <2>2
<1>5. CASE sel # c.n /\ moves(ds[sel], K(c), ds[c.n])
  <2> DEFINE x == received(ds[sel], K(c), ds[c.n])
             y == del(ds[sel], K(c))
             S == ToSet(c.keys)
  <2>1. o.reply = IntReply(1) /\ o.dbs = [ds EXCEPT ![c.n] = x, ![sel] = y]
    BY <1>1, <1>5 DEF cbMove, Sound
  <2>2. o.dbs[c.n] = x /\ o.dbs[sel] = y /\ \A d \in DB \ {sel, c.n} : o.dbs[d] = ds[d]
    BY <1>1, <1>5, <2>1 DEF Sound
  <2>3. Touches(ds[c.n], x, {K(c)}) /\ Touches(ds[sel], y, {K(c)})
    BY <1>1, <1>5, ReceivedTouches, DelTouches DEF Sound
  <2> HIDE DEF x, y
  <2>4. Touches(ds[c.n], x, S) /\ Touches(ds[sel], y, S)
    BY <1>1, <2>3, TouchesMore
  <2>5. x \in RedisDB /\ Agree(x) /\ y \in RedisDB /\ Agree(y)
    BY <2>4 DEF Touches
  <2>6. Sound(o.dbs)
    BY <1>1, <2>1, <2>2, <2>5 DEF Sound
  <2>7. \A d \in DB : Touches(ds[d], o.dbs[d], IF d \in Reach(c, sel) THEN S ELSE {})
    <3>1. \A d \in DB : Touches(ds[d], ds[d], {})
      BY TouchesNothing DEF Sound
    <3>2. Reach(c, sel) = {sel, c.n}
      BY DEF Reach
    <3> QED BY <2>2, <2>4, <3>1, <3>2
  <2>8. o.reply[1] # "error" /\ o.reply # Panicked
    BY <2>1 DEF IntReply, Panicked
  <2> QED BY <1>2, <2>6, <2>7, <2>8 DEF Kept
<1> QED BY <1>4, <1>5

\* Every command keeps the databases sound, touches only the keys it names where it
\* may, changes nothing when it answers an error, and panics only in the known cases.
LEMMA KeptByCommands ==
    ASSUME NEW c \in Commands, NEW sel \in DB, NEW ds, Sound(ds),
           NEW o \in Outcomes(c, sel, ds)
    PROVE  Kept(c, sel, ds, o)
<1>1. CASE c.op = "MOVE"
  BY <1>1, KeptByMove DEF Outcomes
<1>2. CASE c.op = "FLUSHALL"
  <2>1. o = [dbs |-> flushAll(ds), reply |-> OK]
    BY <1>2 DEF Outcomes
  <2> QED BY <1>2, <2>1, KeptByFlushAll
<1>3. CASE c.op \notin {"MOVE", "FLUSHALL", "FlushAll", "FlushDB"}
  <2>1. PICK p \in Callback(c, ds[sel]) : o = [dbs |-> [ds EXCEPT ![sel] = p.db], reply |-> p.reply]
    BY <1>3 DEF Outcomes
  <2>2. ds[sel] \in RedisDB /\ Agree(ds[sel])
    BY DEF Sound
  <2>3. /\ c.op # "FLUSHDB" => Promise(c, ds[sel], p)
        /\ c.op = "FLUSHDB" => Wiped(ds[sel], p.db) /\ p.reply = OK
    BY <2>2, CallbackPromise
  <2>4. c.op \in Flushing <=> c.op = "FLUSHDB"
    BY <1>3 DEF Flushing
  <2> DEFINE e == p.db
             r == p.reply
  <2>5. Promise(c, ds[sel], p) => Promise(c, ds[sel], [db |-> e, reply |-> r])
    BY DEF Promise
  <2>6. o = [dbs |-> [ds EXCEPT ![sel] = e], reply |-> r]
    BY <2>1
  <2>7. \/ c.op \notin Flushing /\ Promise(c, ds[sel], [db |-> e, reply |-> r])
        \/ c.op \in Flushing /\ Wiped(ds[sel], e) /\ r = OK
    BY <2>3, <2>4, <2>5
  <2> HIDE DEF e, r
  <2> QED BY <2>6, <2>7, KeptInOne
<1>4. CASE c.op \in {"FlushAll", "FlushDB"}    \* not the names of commands
  <2>1. PICK p \in One(ds[sel], OK) : o = [dbs |-> [ds EXCEPT ![sel] = p.db], reply |-> p.reply]
    BY <1>4 DEF Outcomes, Callback
  <2>2. p.db = ds[sel] /\ p.reply = OK
    BY <2>1 DEF One
  <2>3. o.dbs = ds /\ o.reply = OK
    BY <2>1, <2>2 DEF Sound
  <2>4. OK[1] # "error" /\ OK # Panicked
    BY DEF OK, Panicked
  <2> QED BY <1>4, <2>3, <2>4 DEF Kept, Flushing
<1> QED BY <1>1, <1>2, <1>3, <1>4

\* The same of the direct methods.
LEMMA KeptByMethods ==
    ASSUME NEW c \in Commands, c.op \in DirectMethods, NEW sel \in DB, NEW ds, Sound(ds),
           NEW o \in MethodOutcomes(c, sel, ds)
    PROVE  Kept(c, sel, ds, o)
<1>1. CASE c.op = "FlushAll"
  <2>1. o = [dbs |-> flushAll(ds), reply |-> OK]
    BY <1>1 DEF MethodOutcomes
  <2> QED BY <1>1, <2>1, KeptByFlushAll
<1>2. CASE c.op # "FlushAll"
  <2>1. PICK p \in Method(c, ds[sel]) : o = [dbs |-> [ds EXCEPT ![sel] = p.db], reply |-> p.reply]
    BY <1>2 DEF MethodOutcomes
  <2>2. ds[sel] \in RedisDB /\ Agree(ds[sel])
    BY DEF Sound
  <2>3. /\ c.op # "FlushDB" => Promise(c, ds[sel], p)
        /\ c.op = "FlushDB" => Wiped(ds[sel], p.db) /\ p.reply = OK
    BY <1>2, <2>2, MethodPromise
  <2>4. c.op \in Flushing <=> c.op = "FlushDB"
    BY <1>2 DEF Flushing, DirectMethods
  <2> DEFINE e == p.db
             r == p.reply
  <2>5. Promise(c, ds[sel], p) => Promise(c, ds[sel], [db |-> e, reply |-> r])
    BY DEF Promise
  <2>6. o = [dbs |-> [ds EXCEPT ![sel] = e], reply |-> r]
    BY <2>1
  <2>7. \/ c.op \notin Flushing /\ Promise(c, ds[sel], [db |-> e, reply |-> r])
        \/ c.op \in Flushing /\ Wiped(ds[sel], e) /\ r = OK
    BY <2>3, <2>4, <2>5
  <2> HIDE DEF e, r
  <2> QED BY <2>6, <2>7, KeptInOne
<1> QED BY <1>1, <1>2
=============================================================================
