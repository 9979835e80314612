-------------------------------- MODULE Direct --------------------------------
(***************************************************************************)
(* The Go methods for the program that embeds the server (src/direct.go):   *)
(* what each does to the selected database and what it returns.  A method   *)
(* takes the mutex once for the database and once for its work, and reads   *)
(* m.selectedDB before either: with a concurrent Select the database is any *)
(* of the two, so the caller of these operators chooses it.                 *)
(*                                                                          *)
(* A method is a record like a command; its name is spelled as in Go.  A    *)
(* bool is 0 or 1.  Unlike the commands the variadic methods accept no      *)
(* values at all.                                                           *)
(***************************************************************************)
EXTENDS Commands

ErrKeyNotFound == NoSuchKey
ErrWrongType   == WrongType
Bool(b)        == IntReply(IF b THEN 1 ELSE 0)

List(c, db) == OnList(db, K(c), ErrKeyNotFound, One(db, Array(listAt(db, K(c)))))

Lpush(c, db) ==
    IF exists(db, K(c)) /\ t(db, K(c)) # "list" THEN One(db, ErrWrongType)
    ELSE One(listLpush(db, K(c), V(c)), IntReply(Len(listAt(db, K(c))) + 1))

Push(c, db) ==
    IF exists(db, K(c)) /\ t(db, K(c)) # "list" THEN One(db, ErrWrongType)
    ELSE One(listPush(db, K(c), c.vals), IntReply(Len(listAt(db, K(c))) + Len(c.vals)))

\* A pop of the direct API, which panics on an empty list as the commands do.
PopWith(c, db, after, el) ==
    OnList(db, K(c), ErrKeyNotFound,
        IF popPanics(db, K(c)) THEN One(db, Panicked) ELSE One(after, Bulk(el)))

\* Seeded fault: Lpop pops from the right.
LpopRight(c, db) ==
    PopWith(c, db, listPop(db, K(c)), listAt(db, K(c))[Len(listAt(db, K(c)))])

Lpop(c, db) == PopWith(c, db, listLpop(db, K(c)), Head(listAt(db, K(c))))
Pop(c, db)  ==
    PopWith(c, db, listPop(db, K(c)), listAt(db, K(c))[Len(listAt(db, K(c)))])

SetAdd(c, db) ==
    IF notSet(db, K(c)) THEN One(db, ErrWrongType)
    ELSE One(setAdd(db, K(c), vset(c)), IntReply(Cardinality(vset(c) \ setAt(db, K(c)))))

SRem(c, db) ==
    OnSet(db, K(c), ErrKeyNotFound,
        One(setRem(db, K(c), vset(c)), IntReply(Cardinality(vset(c) \cap setAt(db, K(c))))))

Members(c, db)  == OnSet(db, K(c), ErrKeyNotFound, One(db, Array(setAt(db, K(c)))))
IsMember(c, db) ==
    OnSet(db, K(c), ErrKeyNotFound, One(db, Bool(setIsMember(db, K(c), V(c)))))

Del(c, db)    == One(del(db, K(c)), Bool(exists(db, K(c))))
Type(c, db)   == One(db, Bulk(t(db, K(c))))
Exists(c, db) == One(db, Bool(exists(db, K(c))))
Keys(c, db)   == One(db, Array(allKeys(db)))
FlushDB(c, db) == One(flush(db), OK)

DirectMethods ==
    {"List", "Lpush", "Push", "Lpop", "Pop", "SetAdd", "SRem", "Members", "IsMember",
     "Del", "Type", "Exists", "Keys", "FlushDB", "FlushAll"}

Method(c, db) ==
    CASE c.op = "List"     -> List(c, db)
      [] c.op = "Lpush"    -> Lpush(c, db)
      [] c.op = "Push"     -> Push(c, db)
      [] c.op = "Lpop"     -> Lpop(c, db)
      [] c.op = "Pop"      -> Pop(c, db)
      [] c.op = "SetAdd"   -> SetAdd(c, db)
      [] c.op = "SRem"     -> SRem(c, db)
      [] c.op = "Members"  -> Members(c, db)
      [] c.op = "IsMember" -> IsMember(c, db)
      [] c.op = "Del"      -> Del(c, db)
      [] c.op = "Type"     -> Type(c, db)
      [] c.op = "Exists"   -> Exists(c, db)
      [] c.op = "Keys"     -> Keys(c, db)
      [] c.op = "FlushDB"  -> FlushDB(c, db)

\* What method c can do to the databases when it works on database sel.
MethodOutcomes(c, sel, dbs) ==
    IF c.op = "FlushAll" THEN {[dbs |-> flushAll(dbs), reply |-> OK]}
    ELSE {[dbs |-> [dbs EXCEPT ![sel] = o.db], reply |-> o.reply] : o \in Method(c, dbs[sel])}
=============================================================================
