-------------------------------- MODULE ListOps --------------------------------
(***************************************************************************)
(* The index arithmetic and the loops of the list commands (src/redis.go,   *)
(* src/cmd_list.go) on Go ints, which run from -MaxInt - 1 to MaxInt and    *)
(* wrap around.                                                             *)
(*                                                                          *)
(* Go counts list positions from 0: position i of a Go slice is element     *)
(* i + 1 of the sequence.                                                   *)
(***************************************************************************)
EXTENDS Integers, Sequences, SequencesExt

CONSTANT MaxInt

ASSUME MaxIntAssumption == MaxInt \in Nat \ {0}

MinInt == -MaxInt - 1
Int64  == MinInt..MaxInt

increment(x) == IF x = MaxInt THEN MinInt ELSE x + 1
negate(x)    == IF x = MinInt THEN MinInt ELSE -x

\* Seeded fault: the end is taken as exclusive.
redisRangeExclusive(l, start, end) ==
    LET s0 == IF start < 0 THEN (IF l + start < 0 THEN 0 ELSE l + start) ELSE start
        s  == IF s0 > l THEN l ELSE s0
        e0 == IF end < 0 THEN (IF l + end < 0 THEN -1 ELSE l + end) ELSE end
        e  == IF e0 > l THEN l ELSE e0
    IN  IF e < s THEN <<0, 0>> ELSE <<s, e>>

\* The Go slice bounds <<rs, re>> of the Redis range start..end in a list of
\* length l (stringSymantics is FALSE at every call).
redisRange(l, start, end) ==
    LET s0 == IF start < 0 THEN (IF l + start < 0 THEN 0 ELSE l + start) ELSE start
        s  == IF s0 > l THEN l ELSE s0
        e0 == increment(IF end < 0 THEN (IF l + end < 0 THEN -1 ELSE l + end) ELSE end)
        e  == IF e0 > l THEN l ELSE e0
    IN  IF e < s THEN <<0, 0>> ELSE <<s, e>>

slice(l, bounds) == SubSeq(l, bounds[1] + 1, bounds[2])

\* LINDEX, LSET: a negative index counts from the end.
position(l, i)   == IF i < 0 THEN Len(l) + i ELSE i
outOfRange(l, p) == p < 0 \/ p > Len(l) - 1

\* LREM: how many to delete at most, and the loop over the list.
toDelete(l, count) ==
    IF count < 0 THEN negate(count) ELSE IF count > 0 THEN count ELSE Len(l)

lremLoop(l, value, n) ==
    LET after[i \in 0..Len(l)] ==
            IF i = 0 THEN [newL |-> <<>>, left |-> n]
            ELSE LET acc == after[i - 1] IN
                 IF l[i] = value /\ acc.left > 0
                 THEN [newL |-> acc.newL, left |-> acc.left - 1]
                 ELSE [newL |-> Append(acc.newL, l[i]), left |-> acc.left]
    IN  after

dropFirst(l, value, n) == lremLoop(l, value, n)[Len(l)].newL

\* Seeded fault: the result is not reversed back.
lremReversed(l, count, value) ==
    IF count < 0 THEN dropFirst(Reverse(l), value, toDelete(l, count))
    ELSE dropFirst(l, value, toDelete(l, count))

lrem(l, count, value) ==
    IF count < 0 THEN Reverse(dropFirst(Reverse(l), value, toDelete(l, count)))
    ELSE dropFirst(l, value, toDelete(l, count))

\* LINSERT: before (where < 0) or after the first occurrence of the pivot.
pivotAt(l, pivot) == SelectInSeq(l, LAMBDA el : el = pivot)

linsert(l, where, pivot, value) ==
    LET i == pivotAt(l, pivot) IN
    InsertAt(l, IF where < 0 THEN i ELSE i + 1, value)
=============================================================================
