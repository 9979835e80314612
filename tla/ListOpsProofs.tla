---------------------------- MODULE ListOpsProofs ----------------------------
(***************************************************************************)
(* What the index arithmetic and the loops of the list commands answer, for *)
(* every list and every int: lemmas that CommandsProofs and SlicesProofs    *)
(* rest on.  D is the set of the elements.                                  *)
(***************************************************************************)
EXTENDS ListOps, SequenceTheorems, WellFoundedInduction, TLAPS

\* The bounds that redisRange answers are those of a Go slice of the list, for every
\* pair of ints: l[rs:re] does not panic.
LEMMA RangeBounds ==
    ASSUME NEW n \in Nat, NEW start \in Int64, NEW end \in Int64
    PROVE  LET r == redisRange(n, start, end) IN
           r[1] \in Nat /\ r[2] \in Nat /\ r[1] <= r[2] /\ r[2] <= n
BY MaxIntAssumption DEF redisRange, increment, Int64, MinInt

\* LRANGE answers and LTRIM keeps a list.
LEMMA SliceType ==
    ASSUME NEW D, NEW l \in Seq(D), NEW start \in Int64, NEW end \in Int64
    PROVE  slice(l, redisRange(Len(l), start, end)) \in Seq(D)
<1> DEFINE r == redisRange(Len(l), start, end)
<1>1. r[1] \in Nat /\ r[2] \in Nat /\ r[2] <= Len(l)
  BY RangeBounds, LenProperties
<1> HIDE DEF r
<1>2. \A i \in (r[1] + 1)..r[2] : l[i] \in D
  BY <1>1, LenProperties, ElementOfSeq
<1>3. SubSeq(l, r[1] + 1, r[2]) \in Seq(D)
  BY <1>1, <1>2, SubSeqProperties
<1> QED BY <1>3 DEF slice, r

\* A set of naturals that is not empty has a least one.
LEMMA LeastNat ==
    ASSUME NEW S, S \subseteq Nat, S # {}
    PROVE  \E x \in S : \A y \in S : x <= y
<1>1. \E x \in S : \A y \in S : ~ (<<y, x>> \in OpToRel(<, Nat))
  BY NatLessThanWellFounded, WFMin, Zenon
<1>2. PICK x \in S : \A y \in S : ~ (<<y, x>> \in OpToRel(<, Nat))
  BY <1>1
<1>3. ASSUME NEW y \in S PROVE x <= y
  <2>1. x \in Nat /\ y \in Nat
    OBVIOUS
  <2>2. OpToRel(<, Nat) = {ss \in Nat \X Nat : ss[1] < ss[2]}
    BY Zenon DEF OpToRel
  <2>3. y < x => <<y, x>> \in {ss \in Nat \X Nat : ss[1] < ss[2]}
    BY <2>1
  <2>4. ~ (y < x)
    BY <1>2, <2>2, <2>3, Zenon
  <2> QED BY <2>1, <2>4
<1> QED BY <1>2, <1>3

\* What holds of 0, and of i + 1 when it holds of i, holds up to n.
LEMMA UpTo ==
    ASSUME NEW n \in Nat, NEW S, 0 \in S, \A i \in 0..(n - 1) : i \in S => i + 1 \in S
    PROVE  \A i \in 0..n : i \in S
<1> SUFFICES ASSUME NEW i \in 0..n, i \notin S PROVE FALSE
  OBVIOUS
<1> DEFINE B == {j \in 0..n : j \notin S}
<1>1. B \subseteq Nat /\ B # {}
  OBVIOUS
<1>2. PICK j \in B : \A y \in B : j <= y
  <2> HIDE DEF B
  <2> QED BY <1>1, LeastNat
<1>3. j \in 0..n /\ j \notin S /\ j # 0
  OBVIOUS
<1>4. j - 1 \in 0..(n - 1) /\ j - 1 \notin B
  BY <1>2, <1>3
<1>5. j - 1 \in S
  BY <1>4
<1>6. (j - 1) + 1 \in S
  BY <1>4, <1>5
<1> QED BY <1>3, <1>6

\* The first position that passes a test is a position.
LEMMA FirstOf ==
    ASSUME NEW n \in Nat, NEW I \in SUBSET (1..n), I # {}
    PROVE  Min(I) \in I
<1>1. I \subseteq Nat
  OBVIOUS
<1>2. \E x \in I : \A y \in I : x =< y
  BY <1>1, LeastNat
<1> QED BY <1>2, Zenon DEF Min

\* LINSERT leaves a list.
LEMMA InsertType ==
    ASSUME NEW D, NEW l \in Seq(D), NEW where, NEW pivot, NEW v \in D, pivotAt(l, pivot) # 0
    PROVE  linsert(l, where, pivot, v) \in Seq(D)
<1> DEFINE I == {j \in 1..Len(l) : l[j] = pivot}
           i == pivotAt(l, pivot)
           p == IF where < 0 THEN i ELSE i + 1
<1>1. Len(l) \in Nat
  BY LenProperties
<1>2. i = IF I # {} THEN Min(I) ELSE 0
  BY DEF pivotAt, SelectInSeq
<1>3. i \in 1..Len(l)
  BY <1>1, <1>2, FirstOf
<1> HIDE DEF i
<1>4. p \in 1..(Len(l) + 1)
  BY <1>1, <1>3
<1> HIDE DEF p
<1>5. /\ \A j \in 1..(p - 1) : l[j] \in D
      /\ \A j \in p..Len(l) : l[j] \in D
  BY <1>1, <1>4, ElementOfSeq
<1>6. SubSeq(l, 1, p - 1) \in Seq(D) /\ SubSeq(l, p, Len(l)) \in Seq(D)
  BY <1>1, <1>4, <1>5, SubSeqProperties
<1>7. <<v>> \in Seq(D)
  OBVIOUS
<1>8. SubSeq(l, 1, p - 1) \o <<v>> \o SubSeq(l, p, Len(l)) \in Seq(D)
  BY <1>6, <1>7, ConcatProperties
<1>9. linsert(l, where, pivot, v) = InsertAt(l, p, v)
  BY DEF linsert, i, p
<1> QED BY <1>8, <1>9 DEF InsertAt

\* The loop of LREM is well defined: each state follows from the one before, and its
\* new list is a list of values.
LEMMA LoopType ==
    ASSUME NEW D, NEW l \in Seq(D), NEW x, NEW n \in Int
    PROVE  /\ lremLoop(l, x, n) \in [0..Len(l) -> [newL : Seq(D), left : Int]]
           /\ lremLoop(l, x, n)[0] = [newL |-> <<>>, left |-> n]
           /\ \A i \in 1..Len(l) :
                 lremLoop(l, x, n)[i] =
                    LET acc == lremLoop(l, x, n)[i - 1] IN
                    IF l[i] = x /\ acc.left > 0
                    THEN [newL |-> acc.newL, left |-> acc.left - 1]
                    ELSE [newL |-> Append(acc.newL, l[i]), left |-> acc.left]
<1> DEFINE N == Len(l)
           Acc == [newL : Seq(D), left : Int]
           base == [newL |-> <<>>, left |-> n]
           Step(i, acc) == IF l[i] = x /\ acc.left > 0
                           THEN [newL |-> acc.newL, left |-> acc.left - 1]
                           ELSE [newL |-> Append(acc.newL, l[i]), left |-> acc.left]
           Body(f, m) == [i \in 0..m |-> IF i = 0 THEN base ELSE Step(i, f[i - 1])]
           Runs == {m \in Nat : \E f \in [0..m -> Acc] : f = Body(f, m)}
<1>1. N \in Nat
  BY LenProperties
<1>2. base \in Acc
  BY EmptySeq
<1>3. ASSUME NEW i \in 1..N, NEW acc \in Acc PROVE Step(i, acc) \in Acc
  <2>1. l[i] \in D
    BY <1>1, <1>3, ElementOfSeq
  <2>2. Append(acc.newL, l[i]) \in Seq(D) /\ acc.newL \in Seq(D) /\ acc.left \in Int
    BY <2>1, AppendProperties
  <2> QED BY <2>2
<1> HIDE DEF base, Acc, Step
<1>4. 0 \in Runs
  <2> DEFINE f == [i \in 0..0 |-> base]
  <2>1. f \in [0..0 -> Acc]
    BY <1>2
  <2>2. f = Body(f, 0)
    OBVIOUS
  <2> HIDE DEF f
  <2> QED BY <2>1, <2>2
<1>5. ASSUME NEW m \in 0..(N - 1), m \in Runs PROVE m + 1 \in Runs
  <2>1. PICK f \in [0..m -> Acc] : f = Body(f, m)
    BY <1>5
  <2> DEFINE g == [i \in 0..(m + 1) |-> IF i = m + 1 THEN Step(m + 1, f[m]) ELSE f[i]]
  <2>2. Step(m + 1, f[m]) \in Acc
    BY <1>1, <1>3, <2>1
  <2>3. g \in [0..(m + 1) -> Acc]
    BY <2>1, <2>2
  <2>4. \A i \in 0..m : g[i] = f[i]
    OBVIOUS
  <2>5. g[m + 1] = Step(m + 1, f[m])
    OBVIOUS
  <2>6. ASSUME NEW i \in 0..(m + 1)
        PROVE  g[i] = IF i = 0 THEN base ELSE Step(i, g[i - 1])
    <3>1. CASE i = m + 1
      BY <2>4, <2>5, <3>1
    <3>2. CASE i \in 0..m
      <4>1. f[i] = IF i = 0 THEN base ELSE Step(i, f[i - 1])
        BY <2>1, <3>2
      <4> HIDE DEF g
      <4> QED BY <2>4, <3>2, <4>1
    <3> QED BY <3>1, <3>2
  <2>7. DOMAIN g = 0..(m + 1) /\ g = [i \in 0..(m + 1) |-> g[i]]
    OBVIOUS
  <2> HIDE DEF g
  <2>8. g = Body(g, m + 1)
    BY <2>6, <2>7
  <2> QED BY <2>3, <2>8
<1>6. N \in Runs
  <2> HIDE DEF Runs, N
  <2>1. \A m \in 0..N : m \in Runs
    BY <1>1, <1>4, <1>5, UpTo
  <2> QED BY <1>1, <2>1
<1>7. \E f : f = Body(f, N)
  BY <1>6
<1> DEFINE h == CHOOSE f : f = Body(f, N)
<1>8. h = Body(h, N)
  <2> HIDE DEF Body
  <2> QED BY <1>7, Zenon
<1> HIDE DEF h
<1> DEFINE Good == {i \in 0..N : h[i] \in Acc}
<1>9. 0 \in Good
  BY <1>1, <1>2, <1>8
<1>10. ASSUME NEW i \in 0..(N - 1), i \in Good PROVE i + 1 \in Good
  <2>1. h[i + 1] = Step(i + 1, h[i])
    BY <1>1, <1>8
  <2> QED BY <1>1, <1>3, <1>10, <2>1
<1>11. \A i \in 0..N : i \in Good
  <2> HIDE DEF Good
  <2> QED BY <1>1, <1>9, <1>10, UpTo
<1>12. h \in [0..N -> Acc]
  BY <1>8, <1>11
<1>13. lremLoop(l, x, n) = h
  BY Zenon DEF lremLoop, h, Body, base, Step
<1>14. h[0] = base /\ \A i \in 1..N : h[i] = Step(i, h[i - 1])
  BY <1>1, <1>8
<1> QED BY <1>12, <1>13, <1>14 DEF Acc, base, Step

\* LREM leaves a list.
LEMMA LremType ==
    ASSUME NEW D, NEW l \in Seq(D), NEW count \in Int64, NEW x
    PROVE  lrem(l, count, x) \in Seq(D)
<1>1. toDelete(l, count) \in Int
  BY LenProperties, MaxIntAssumption DEF toDelete, negate, Int64, MinInt
<1>2. ASSUME NEW s \in Seq(D) PROVE dropFirst(s, x, toDelete(l, count)) \in Seq(D)
  <2> DEFINE f == lremLoop(s, x, toDelete(l, count))
  <2>1. f \in [0..Len(s) -> [newL : Seq(D), left : Int]]
    BY <1>1, LoopType
  <2>2. Len(s) \in 0..Len(s)
    BY LenProperties
  <2> HIDE DEF f
  <2>3. f[Len(s)].newL \in Seq(D)
    BY <2>1, <2>2
  <2> QED BY <2>3 DEF dropFirst, f
<1>3. ASSUME NEW s \in Seq(D) PROVE Reverse(s) \in Seq(D)
  BY <1>3, LenProperties, ElementOfSeq DEF Reverse
<1> QED BY <1>2, <1>3 DEF lrem

\* Reversing keeps the elements.
LEMMA ReverseType ==
    ASSUME NEW D, NEW s \in Seq(D)
    PROVE  Reverse(s) \in Seq(D)
BY LenProperties, ElementOfSeq DEF Reverse

\* The last element of a list that is not empty.
LEMMA LastElement ==
    ASSUME NEW D, NEW l \in Seq(D), l # <<>>
    PROVE  l[Len(l)] \in D
<1>1. Len(l) \in 1..Len(l)
  BY LenProperties, EmptySeq
<1> QED BY <1>1, ElementOfSeq
=============================================================================
