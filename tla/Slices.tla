--------------------------------- MODULE Slices ---------------------------------
(***************************************************************************)
(* The lists of a database as the Go slices they are (listKey in            *)
(* src/rediqueue.go, the list methods of src/db.go, src/cmd_list.go).       *)
(*                                                                          *)
(* A Go slice is a header: an array, an offset, a length; its capacity ends *)
(* with the array.  The pops and LTRIM only move the ends of the header,    *)
(* RPUSH and LINSERT append in place while the capacity lasts, LSET and a   *)
(* negative LREM write into the array, RENAME hands the header on.  The     *)
(* direct method List gives the program that embeds the server the header   *)
(* itself, which then shares the array with the list (src/direct.go).       *)
(*                                                                          *)
(* Every step is one command under the mutex.  Whoever holds a slice reads  *)
(* it without the mutex.                                                    *)
(***************************************************************************)
EXTENDS ListOps, FiniteSets

CONSTANTS Key,     \* names of keys that hold lists, in any database
          Val,     \* list elements
          Nil,     \* no slice
          Arr,     \* addresses of arrays
          Index,   \* the indexes and counts the clients send
          MaxCap   \* bound on the capacity of an array

Header == [arr : Arr, off : Nat, len : Nat]

ASSUME SlicesAssumption ==
    /\ IsFiniteSet(Key) /\ IsFiniteSet(Arr) /\ Cardinality(Arr) >= Cardinality(Key) + 2
    /\ MaxCap \in Nat /\ Index \subseteq Int64
    /\ Nil \notin Header

VARIABLES mem,     \* mem[a]: the cells of array a, <<>> when nobody refers to it
          hdr,     \* hdr[k]: db.listKeys[k], Nil when k holds no list
          held     \* the slice the embedding program got from List, or Nil

vars == <<mem, hdr, held>>

Unused == ""       \* what a cell that nobody can read holds

Read(m, s) == IF s = Nil THEN <<>> ELSE SubSeq(m[s.arr], s.off + 1, s.off + s.len)
Cells(s)   == IF s = Nil THEN {} ELSE {s.arr} \X ((s.off + 1)..(s.off + s.len))
Room(m, s) == IF s = Nil THEN 0 ELSE Len(m[s.arr]) - s.off     \* cap(s)

\* The garbage collector: arrays that no slice refers to are free, and a cell
\* outside every slice is overwritten before it is read again.
Visible(m, h, hd) ==
    LET live  == ({h[k] : k \in Key} \cup {hd}) \ {Nil}
        cells == UNION {Cells(s) : s \in live}
    IN  [a \in Arr |->
            IF a \notin {s.arr : s \in live} THEN <<>>
            ELSE [i \in DOMAIN m[a] |-> IF <<a, i>> \in cells THEN m[a][i] ELSE Unused]]

\* A new array for vs; Go rounds the capacity of a grown slice up as it likes.
Alloc(m, vs, cap) ==
    LET a == CHOOSE x \in Arr : m[x] = <<>> IN
    [mem |-> [m EXCEPT ![a] = vs \o [i \in 1..(cap - Len(vs)) |-> Unused]],
     s   |-> [arr |-> a, off |-> 0, len |-> Len(vs)]]

\* Write vs into the array of s, behind its first n elements.
Write(m, s, n, vs) ==
    [m EXCEPT ![s.arr] = [i \in DOMAIN @ |->
        IF i - s.off - n \in 1..Len(vs) THEN vs[i - s.off - n] ELSE @[i]]]

\* Go's append: in place when there is room, a grown copy otherwise.
append(m, s, vs) ==
    LET n == IF s = Nil THEN 0 ELSE s.len IN
    IF n + Len(vs) <= Room(m, s)
    THEN {[mem |-> Write(m, s, n, vs), s |-> [s EXCEPT !.len = @ + Len(vs)]]}
    ELSE {Alloc(m, Read(m, s) \o vs, cap) : cap \in (n + Len(vs))..MaxCap}

\* Seeded fault: an emptied list stays in the map.
resliceKeepsEmpty(s, from, to) == [s EXCEPT !.off = @ + from, !.len = to - from]

\* l[from:to]; an emptied list is deleted.
reslice(s, from, to) ==
    IF from = to THEN Nil ELSE [s EXCEPT !.off = @ + from, !.len = to - from]
-----------------------------------------------------------------------------
Init ==
    /\ mem = [a \in Arr |-> <<>>]
    /\ hdr = [k \in Key |-> Nil]
    /\ held = Nil

\* The headers become h and the memory m; what nobody refers to is collected.
Store(m, h) ==
    /\ hdr' = h
    /\ mem' = Visible(m, h, held)
    /\ UNCHANGED held

Put(k, r) == Store(r.mem, [hdr EXCEPT ![k] = r.s])
Has(k)    == hdr[k] # Nil
L(k)      == Read(mem, hdr[k])

\* RPUSH, RPUSHX and the direct Push; the latter takes several values.
listPush(k, vs) == \E r \in append(mem, hdr[k], vs) : Put(k, r)

\* Seeded fault: the new element goes into the cell a left pop has left.
lpushedInPlace(m, s, v) ==
    IF s # Nil /\ s.off > 0
    THEN {[mem |-> Write(m, [s EXCEPT !.off = @ - 1], 0, <<v>>),
           s   |-> [s EXCEPT !.off = @ - 1, !.len = @ + 1]]}
    ELSE append(m, Nil, <<v>> \o Read(m, s))

\* append([]string{v}, l...): a literal of capacity 1, grown when l has elements.
lpushed(m, s, v) ==
    IF s = Nil THEN {Alloc(m, <<v>>, 1)}
    ELSE {Alloc(m, <<v>> \o Read(m, s), cap) : cap \in (s.len + 1)..MaxCap}

\* LPUSH, LPUSHX and the direct Lpush.
listLpush(k, v) == \E r \in lpushed(mem, hdr[k], v) : Put(k, r)

\* The pops and LTRIM: a shorter header on the same array, or none.
Cut(k, from, to) == Store(mem, [hdr EXCEPT ![k] = reslice(@, from, to)])

listLpop(k)       == Has(k) /\ Cut(k, 1, hdr[k].len)
listPop(k)        == Has(k) /\ Cut(k, 0, hdr[k].len - 1)
cmdLtrim(k, s, e) ==
    LET bounds == redisRange(hdr[k].len, s, e) IN
    Has(k) /\ Cut(k, bounds[1], bounds[2])

del(k) == Has(k) /\ Store(mem, [hdr EXCEPT ![k] = Nil])

\* LSET: l[index] = value.
cmdLset(k, index, v) ==
    LET p == position(L(k), index) IN
    /\ Has(k) /\ ~outOfRange(L(k), p)
    /\ Store(Write(mem, hdr[k], p, <<v>>), hdr)

\* LREM: a negative count reverses the stored slice in place; what is kept is
\* appended to a new one.
cmdLrem(k, count, v) ==
    LET left == lrem(L(k), count, v)
        m    == IF count < 0 THEN Write(mem, hdr[k], 0, Reverse(L(k))) ELSE mem
    IN  /\ Has(k)
        /\ IF left = <<>> THEN Store(m, [hdr EXCEPT ![k] = Nil])
           ELSE \E cap \in Len(left)..MaxCap : Put(k, Alloc(m, left, cap))

\* Seeded fault: append(append(l[:i], value), l[i:]...), without the inner copy.
insertedUncopied(m, s, i, v) ==
    UNION {append(r.mem, r.s, SubSeq(Read(r.mem, s), i + 1, s.len)) :
           r \in append(m, [s EXCEPT !.len = i], <<v>>)}

\* append(l[:i], append(listKey{value}, l[i:]...)...)
inserted(m, s, i, v) ==
    append(m, [s EXCEPT !.len = i], <<v>> \o SubSeq(Read(m, s), i + 1, s.len))

\* LINSERT
cmdLinsert(k, where, pivot, v) ==
    LET i == pivotAt(L(k), pivot) IN
    /\ Has(k) /\ i # 0
    /\ \E r \in inserted(mem, hdr[k], IF where < 0 THEN i - 1 ELSE i, v) : Put(k, r)

\* Seeded fault: the source keeps its slice.
renamedKeeps(h, from, to) == [h EXCEPT ![to] = h[from]]

renamed(h, from, to) == [h EXCEPT ![to] = h[from], ![from] = Nil]

\* RENAME, RENAMENX, MOVE: the header goes to another key.
rename(from, to) ==
    /\ Has(from) /\ from # to
    /\ Store(mem, renamed(hdr, from, to))

\* RPOPLPUSH: listPop(src), then listLpush(dst).
cmdRpoplpush(src, dst) ==
    LET h == [hdr EXCEPT ![src] = reslice(@, 0, @.len - 1)] IN
    /\ Has(src)
    /\ \E r \in lpushed(mem, h[dst], Last(L(src))) : Store(r.mem, [h EXCEPT ![dst] = r.s])

\* The direct method List; the program reads the slice, and forgets it.
List(k) ==
    /\ Has(k)
    /\ held' = hdr[k]
    /\ mem' = Visible(mem, hdr, hdr[k])
    /\ UNCHANGED hdr

Forget ==
    /\ held # Nil
    /\ held' = Nil
    /\ mem' = Visible(mem, hdr, Nil)
    /\ UNCHANGED hdr

Next ==
    \/ \E k \in Key, v \in Val :
          \/ listPush(k, <<v>>) \/ listPush(k, <<v, v>>) \/ listLpush(k, v)
          \/ \E n \in Index : cmdLset(k, n, v) \/ cmdLrem(k, n, v)
          \/ \E where \in {-1, 1}, p \in Val : cmdLinsert(k, where, p, v)
    \/ \E k \in Key :
          \/ listLpop(k) \/ listPop(k) \/ del(k) \/ List(k)
          \/ \E s, e \in Index : cmdLtrim(k, s, e)
          \/ \E to \in Key : rename(k, to) \/ cmdRpoplpush(k, to)
    \/ Forget

Spec == Init /\ [][Next]_vars
-----------------------------------------------------------------------------
InBounds(s) == s.len > 0 /\ s.off + s.len <= Len(mem[s.arr])

\* The type of every variable; every header lies within its array and shows at least
\* one element, so that no index and no re-slicing of the commands modelled here can
\* panic.  The direct Push without values, which stores a header that shows none, is
\* not one of them (see NoNewEmptyList and PanicsOnlyWhen of Keyspace).
TypeOK ==
    /\ mem \in [Arr -> Seq(Val \cup {Unused})]
    /\ hdr \in [Key -> Header \cup {Nil}] /\ \A k \in Key : Has(k) => InBounds(hdr[k])
    /\ held \in Header \cup {Nil} /\ (held # Nil => InBounds(held))

\* Two keys never share an array, through whatever sequence of RENAME, RPOPLPUSH,
\* LTRIM and appends in place: an in-place write to one list is never seen in another.
Unshared == \A j, k \in Key : j # k /\ Has(j) /\ Has(k) => hdr[j].arr # hdr[k].arr

\* Re-slicing, appending in place and reversing in place are invisible to the
\* commands: the slices implement lists that are plain values.
Values == INSTANCE Lists WITH lists <- [k \in Key |-> L(k)]

ImplementsLists == Values!Spec

\* What the program that called List holds can change under its hands, but only
\* as long as the list still uses that array, and never in front of its first
\* element: elements popped from the left stay readable, and a list that was
\* replaced (LPUSH, LREM, DEL, growth) no longer disturbs the reader.
HeldOnlyOverwritten ==
    [][held # Nil /\ held' = held =>
          \A i \in 1..held.len :
              Read(mem', held)[i] # Read(mem, held)[i] =>
                  \E k \in Key : /\ Has(k) /\ hdr[k].arr = held.arr
                                 /\ held.off + i > hdr[k].off]_vars
=============================================================================
