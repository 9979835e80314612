--------------------------------- MODULE Lists ---------------------------------
(***************************************************************************)
(* What the list commands promise: a key holds a sequence of values, and a  *)
(* command replaces the sequence of the keys it names by another one.       *)
(* Nothing is said of arrays.  A missing key holds the empty sequence.      *)
(***************************************************************************)
EXTENDS ListOps

CONSTANTS Key, Val,
          Index    \* the indexes and counts the clients send

VARIABLE lists

Init == lists = [k \in Key |-> <<>>]

Becomes(k, l) == lists' = [lists EXCEPT ![k] = l]

Push(k, vs)    == Becomes(k, lists[k] \o vs)
Lpush(k, v)    == Becomes(k, <<v>> \o lists[k])
Lpop(k)        == lists[k] # <<>> /\ Becomes(k, Tail(lists[k]))
Pop(k)         == lists[k] # <<>> /\ Becomes(k, Front(lists[k]))
Del(k)         == Becomes(k, <<>>)
Lset(k, i, v)  == i \in DOMAIN lists[k] /\ lists' = [lists EXCEPT ![k][i] = v]
Lrem(k, n, v)  == Becomes(k, lrem(lists[k], n, v))
Ltrim(k, s, e) == Becomes(k, slice(lists[k], redisRange(Len(lists[k]), s, e)))

Linsert(k, where, pivot, v) ==
    pivotAt(lists[k], pivot) # 0 /\ Becomes(k, linsert(lists[k], where, pivot, v))

Rename(from, to) ==
    from # to /\ lists' = [lists EXCEPT ![to] = lists[from], ![from] = <<>>]

RpopLpush(src, dst) ==
    /\ lists[src] # <<>>
    /\ lists' = [[lists EXCEPT ![src] = Front(@)]
                    EXCEPT ![dst] = <<Last(lists[src])>> \o @]

Next ==
    \E k \in Key :
        \/ \E v \in Val : Push(k, <<v>>) \/ Push(k, <<v, v>>) \/ Lpush(k, v)
        \/ Lpop(k) \/ Pop(k) \/ Del(k)
        \/ \E i \in DOMAIN lists[k], v \in Val : Lset(k, i, v)
        \/ \E n \in Index, v \in Val : Lrem(k, n, v)
        \/ \E s, e \in Index : Ltrim(k, s, e)
        \/ \E where \in {-1, 1}, p, v \in Val : Linsert(k, where, p, v)
        \/ \E to \in Key : Rename(k, to) \/ RpopLpush(k, to)

Spec == Init /\ [][Next]_lists
=============================================================================
