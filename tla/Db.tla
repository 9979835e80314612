---------------------------------- MODULE Db ----------------------------------
(***************************************************************************)
(* One numbered database (src/db.go, RedisDB in src/rediqueue.go).           *)
(*                                                                          *)
(* The four Go maps are four functions on Key.  A missing entry is the zero *)
(* value Go reads for it: "" in keys, Nil in listKeys and setKeys, 0 in     *)
(* keyVersion.  Each operator returns the database after the call; callers  *)
(* pass a key of the type the Go method requires.                           *)
(***************************************************************************)
EXTENDS Integers, Sequences, FiniteSets

CONSTANTS Key,   \* names of keys
          Val,   \* list elements and set members
          Nil    \* a missing map entry

ASSUME NilAssumption == Nil \notin Seq(Val) /\ \A s \in SUBSET Val : Nil # s

\* Go strings have less than 2^63 bytes, so there are finitely many.
ASSUME ValAssumption == IsFiniteSet(Val)
ASSUME KeyAssumption == IsFiniteSet(Key)

Untyped == ""    \* what keys[k] reads for a missing key
Types   == {Untyped, "list", "set"}

newRedisDB ==
    [keys       |-> [k \in Key |-> Untyped],
     listKeys   |-> [k \in Key |-> Nil],
     setKeys    |-> [k \in Key |-> Nil],
     keyVersion |-> [k \in Key |-> 0]]

ListEntry == {Nil} \cup Seq(Val)
SetEntry  == {Nil} \cup SUBSET Val

RedisDB ==
    [keys       : [Key -> Types],
     listKeys   : [Key -> ListEntry],
     setKeys    : [Key -> SetEntry],
     keyVersion : [Key -> Nat]]

exists(db, k)  == db.keys[k] # Untyped
t(db, k)       == db.keys[k]
listAt(db, k)  == IF db.listKeys[k] = Nil THEN <<>> ELSE db.listKeys[k]
setAt(db, k)   == IF db.setKeys[k] = Nil THEN {} ELSE db.setKeys[k]
allKeys(db)    == {k \in Key : exists(db, k)}
value(db, k)   == <<t(db, k), listAt(db, k), setAt(db, k)>>
bump(db, k, n) == [db EXCEPT !.keyVersion[k] = @ + n]

\* A key is in listKeys exactly when keys says "list", in setKeys when it says "set".
Agree(db) ==
    \A k \in Key : /\ t(db, k) = "list" <=> db.listKeys[k] # Nil
                   /\ t(db, k) = "set" <=> db.setKeys[k] # Nil

\* flush leaves keyVersion alone.
flush(db) ==
    [db EXCEPT !.keys     = newRedisDB.keys,
               !.listKeys = newRedisDB.listKeys,
               !.setKeys  = newRedisDB.setKeys]

del(db, k) ==
    IF ~exists(db, k) THEN db
    ELSE [db EXCEPT !.keys[k]       = Untyped,
                    !.keyVersion[k] = @ + 1,
                    !.listKeys[k]   = IF t(db, k) = "list" THEN Nil ELSE @,
                    !.setKeys[k]    = IF t(db, k) = "set" THEN Nil ELSE @]

\* del of each key of ks: a second del of the same key does nothing.
delAll(db, ks) ==
    [keys       |-> [k \in Key |-> IF k \in ks THEN Untyped ELSE db.keys[k]],
     listKeys   |-> [k \in Key |-> (IF k \in ks THEN del(db, k) ELSE db).listKeys[k]],
     setKeys    |-> [k \in Key |-> (IF k \in ks THEN del(db, k) ELSE db).setKeys[k]],
     keyVersion |-> [k \in Key |-> (IF k \in ks THEN del(db, k) ELSE db).keyVersion[k]]]

\* Seeded fault: the version in the receiving database is not bumped.
receivedQuiet(db, k, to) ==
    [to EXCEPT
        !.keys[k]     = db.keys[k],
        !.listKeys[k] = IF t(db, k) = "list" THEN db.listKeys[k] ELSE @,
        !.setKeys[k]  = IF t(db, k) = "set" THEN db.setKeys[k] ELSE @]

\* move: the receiving database, and whether the move happens at all.
moves(db, k, to)    == exists(db, k) /\ ~exists(to, k)
received(db, k, to) ==
    [bump(to, k, 1) EXCEPT
        !.keys[k]     = db.keys[k],
        !.listKeys[k] = IF t(db, k) = "list" THEN db.listKeys[k] ELSE @,
        !.setKeys[k]  = IF t(db, k) = "set" THEN db.setKeys[k] ELSE @]

\* rename deletes the target first; it panics when that removed the source.
renamePanics(db, from, to) == ~exists(del(db, to), from)

rename(db, from, to) ==
    LET d == del(db, to) IN
    del([bump(d, to, 1) EXCEPT
            !.keys[to]     = d.keys[from],
            !.listKeys[to] = IF t(d, from) = "list" THEN d.listKeys[from] ELSE @,
            !.setKeys[to]  = IF t(d, from) = "set" THEN d.setKeys[from] ELSE @],
        from)
-----------------------------------------------------------------------------
putList(db, k, l) ==
    [db EXCEPT !.keys[k]       = IF db.listKeys[k] = Nil THEN "list" ELSE @,
               !.listKeys[k]   = l,
               !.keyVersion[k] = @ + 1]

listLpush(db, k, v) == putList(db, k, <<v>> \o listAt(db, k))
listPush(db, k, vs) == putList(db, k, listAt(db, k) \o vs)

\* The pops panic on an empty list.
popPanics(db, k) == listAt(db, k) = <<>>

\* Seeded fault: the pop of the last element keeps the key.
listLpopKeeps(db, k) == bump([db EXCEPT !.listKeys[k] = Tail(@)], k, 1)

listLpop(db, k) ==
    LET l == Tail(listAt(db, k)) IN
    bump(IF l = <<>> THEN del(db, k) ELSE [db EXCEPT !.listKeys[k] = l], k, 1)

listPop(db, k) ==
    LET l == SubSeq(listAt(db, k), 1, Len(listAt(db, k)) - 1) IN
    IF l = <<>> THEN del(db, k) ELSE bump([db EXCEPT !.listKeys[k] = l], k, 1)

setSet(db, k, s) ==
    [db EXCEPT !.keys[k] = "set", !.setKeys[k] = s, !.keyVersion[k] = @ + 1]

setAdd(db, k, es) ==
    [db EXCEPT !.keys[k]       = IF db.setKeys[k] = Nil THEN "set" ELSE @,
               !.setKeys[k]    = setAt(db, k) \cup es,
               !.keyVersion[k] = @ + 1]

\* Seeded fault: the version is not bumped when members remain.
setRemQuiet(db, k, es) ==
    IF db.setKeys[k] = Nil THEN db
    ELSE IF db.setKeys[k] \subseteq es THEN bump(del(db, k), k, 1)
    ELSE [db EXCEPT !.setKeys[k] = @ \ es]

setRem(db, k, es) ==
    IF db.setKeys[k] = Nil THEN db
    ELSE bump(IF db.setKeys[k] \subseteq es THEN del(db, k)
              ELSE [db EXCEPT !.setKeys[k] = @ \ es], k, 1)

setIsMember(db, k, v) == v \in setAt(db, k)

\* SDIFF, SINTER, SUNION of the keys ks[1], ks[2], ...: WRONGTYPE or a set.
\* SINTER looks at the type of the first key only, and skips the other keys
\* that are missing or not sets.
notSet(db, k) == exists(db, k) /\ t(db, k) # "set"
others(ks)    == {ks[i] : i \in 2..Len(ks)}

wrongType(db, op, ks) ==
    notSet(db, ks[1]) \/ (op # "inter" /\ \E k \in others(ks) : notSet(db, k))

combine(db, op, ks) ==
    LET first == setAt(db, ks[1])
        sets  == {setAt(db, k) : k \in {x \in others(ks) : t(db, x) = "set"}}
    IN  CASE op = "diff"  -> first \ UNION sets
          [] op = "inter" -> {e \in first : \A s \in sets : e \in s}
          [] op = "union" -> first \cup UNION sets
=============================================================================
