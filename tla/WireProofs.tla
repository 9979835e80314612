------------------------------ MODULE WireProofs ------------------------------
(***************************************************************************)
(* Proofs about Wire and Patterns: what the reader takes from the stream of *)
(* bytes is what the client put there, and what KEYS answers to a pattern   *)
(* are the keys it matches.                                                 *)
(*                                                                          *)
(* The invariant follows the stream.  The bytes that have arrived and are   *)
(* not consumed, and those that have not arrived, are together what the     *)
(* client sent, less what was taken of it (Ahead).  While the reader is in  *)
(* one of the client's requests (InRequest) it has read fields of it and    *)
(* the others are ahead, so the next line is the client's, and its length   *)
(* the field's.  Behind them (InRest) it has cut fields off something that  *)
(* is not a request: it cannot come to the end of one.                      *)
(*                                                                          *)
(* The client's bytes, the numbers and the translated patterns are          *)
(* recursive functions: the first part shows that each has the values its   *)
(* equations give, by a run of its steps.                                   *)
(*                                                                          *)
(* A pattern and its expression match the same keys because the scan that   *)
(* writes the expression goes through the pattern item by item: where the   *)
(* expression can stand in a key after the first items, the rest of the     *)
(* pattern matches the rest of the key or the key does not match at all.    *)
(***************************************************************************)
EXTENDS Wire, SequenceTheorems, WellFoundedInduction, TLAPS

-----------------------------------------------------------------------------
(* Recursive functions.  One has the values its equations give when a run of*)
(* its steps has them, and a run exists for every number of steps.         *)

\* A set of naturals that is not empty has a least one.
LEMMA LeastNat ==
    ASSUME NEW S, S \subseteq Nat, S # {}
    PROVE  \E x \in S : \A y \in S : x <= y
<1>1. \E x \in S : \A y \in S : ~ (<<y, x>> \in OpToRel(<, Nat))
  BY NatLessThanWellFounded, WFMin, Zenon
<1>2. PICK x \in S : \A y \in S : ~ (<<y, x>> \in OpToRel(<, Nat))
  BY <1>1
<1>3. ASSUME NEW y \in S PROVE x <= y
  <2>1. x \in Nat /\ y \in Nat
    OBVIOUS
  <2>2. OpToRel(<, Nat) = {ss \in Nat \X Nat : ss[1] < ss[2]}
    BY Zenon DEF OpToRel
  <2>3. y < x => <<y, x>> \in {ss \in Nat \X Nat : ss[1] < ss[2]}
    BY <2>1
  <2>4. ~ (y < x)
    BY <1>2, <2>2, <2>3, Zenon
  <2> QED BY <2>1, <2>4
<1> QED BY <1>2, <1>3

\* What holds of 0, and of i + 1 when it holds of i, holds up to n.
LEMMA UpTo ==
    ASSUME NEW n \in Nat, NEW S, 0 \in S, \A i \in 0..(n - 1) : i \in S => i + 1 \in S
    PROVE  \A i \in 0..n : i \in S
<1> SUFFICES ASSUME NEW i \in 0..n, i \notin S PROVE FALSE
  OBVIOUS
<1> DEFINE B == {j \in 0..n : j \notin S}
<1>1. B \subseteq Nat /\ B # {}
  OBVIOUS
<1>2. PICK j \in B : \A y \in B : j <= y
  <2> HIDE DEF B
  <2> QED BY <1>1, LeastNat
<1>3. j \in 0..n /\ j \notin S /\ j # 0
  OBVIOUS
<1>4. j - 1 \in 0..(n - 1) /\ j - 1 \notin B
  BY <1>2, <1>3
<1>5. j - 1 \in S
  BY <1>4
<1>6. (j - 1) + 1 \in S
  BY <1>4, <1>5
<1> QED BY <1>3, <1>6

\* A recursion of n steps over the values of A, as a function of the step and of the
\* value before it, and a run of it.
Steps(st, n, A) == \A i \in 1..n : st[i] \in [A -> A]
RunOf(f, n, base, st) == f[0] = base /\ \A i \in 1..n : f[i] = st[i][f[i - 1]]

\* Every such recursion has a run: the recursive functions of the model are well
\* defined.
LEMMA HasRun ==
    ASSUME NEW n \in Nat, NEW A, NEW base \in A, NEW st, Steps(st, n, A)
    PROVE  \E f \in [0..n -> A] : RunOf(f, n, base, st)
<1> USE DEF Steps, RunOf
<1> DEFINE Run(f, m) == f[0] = base /\ \A i \in 1..m : f[i] = st[i][f[i - 1]]
           Runs == {m \in Nat : \E f \in [0..m -> A] : Run(f, m)}
<1>1. 0 \in Runs
  <2> DEFINE f == [i \in 0..0 |-> base]
  <2>1. f \in [0..0 -> A] /\ Run(f, 0)
    OBVIOUS
  <2> HIDE DEF f
  <2> QED BY <2>1
<1>2. ASSUME NEW m \in 0..(n - 1), m \in Runs PROVE m + 1 \in Runs
  <2>1. PICK f \in [0..m -> A] : Run(f, m)
    BY <1>2
  <2> DEFINE x == st[m + 1][f[m]]
             g == [i \in 0..(m + 1) |-> IF i = m + 1 THEN x ELSE f[i]]
  <2>2. x \in A
    <3>1. m + 1 \in 1..n /\ f[m] \in A
      BY <1>2, <2>1
    <3>2. st[m + 1] \in [A -> A]
      BY <3>1
    <3> QED BY <3>1, <3>2
  <2>3. g \in [0..(m + 1) -> A]
    BY <2>1, <2>2
  <2>4. \A i \in 0..m : g[i] = f[i]
    OBVIOUS
  <2>5. g[m + 1] = st[m + 1][g[m]]
    BY <2>4
  <2> HIDE DEF g, x
  <2>6. ASSUME NEW i \in 1..(m + 1) PROVE g[i] = st[i][g[i - 1]]
    <3>1. CASE i = m + 1
      <4>1. i - 1 = m
        BY <3>1
      <4> QED BY <2>5, <3>1, <4>1
    <3>2. CASE i \in 1..m
      BY <2>1, <2>4, <3>2
    <3> QED BY <3>1, <3>2
  <2>7. g[0] = base
    BY <2>1, <2>4
  <2> QED BY <2>3, <2>6, <2>7
<1>3. n \in Runs
  <2> HIDE DEF Runs
  <2>1. \A m \in 0..n : m \in Runs
    BY <1>1, <1>2, UpTo
  <2> QED BY <2>1
<1> QED BY <1>3

\* The values of a run are of the set.
LEMMA RunType ==
    ASSUME NEW n \in Nat, NEW A, NEW base \in A, NEW st, Steps(st, n, A),
           NEW h, h[0] = base, \A i \in 1..n : h[i - 1] \in A => h[i] = st[i][h[i - 1]]
    PROVE  \A i \in 0..n : h[i] \in A
<1> USE DEF Steps
<1> DEFINE Good == {i \in 0..n : h[i] \in A}
<1>1. 0 \in Good
  OBVIOUS
<1>2. ASSUME NEW i \in 0..(n - 1), i \in Good PROVE i + 1 \in Good
  <2>1. i + 1 \in 1..n /\ h[(i + 1) - 1] \in A
    BY <1>2
  <2>2. h[i + 1] = st[i + 1][h[i]]
    BY <2>1
  <2> QED BY <2>1, <2>2
<1>3. \A i \in 0..n : i \in Good
  <2> HIDE DEF Good
  <2> QED BY <1>1, <1>2, UpTo
<1> QED BY <1>3

\* The value of the digits of a number.
LEMMA ValueRun ==
    ASSUME NEW d \in Seq(Byte), \A i \in 1..Len(d) : IsDigit(d[i])
    PROVE  /\ Value(d) \in Nat
           /\ Len(d) = 1 => Value(d) = d[1] - 48
<1> DEFINE n == Len(d)
           A == Nat
           Step(i, v) == 10 * v + (d[i] - 48)
           Unfold(f) == [i \in 0..n |-> IF i = 0 THEN 0 ELSE Step(i, f[i - 1])]
           st == [i \in 1..n |-> [v \in A |-> Step(i, v)]]
           h == CHOOSE f : f = Unfold(f)
<1>1. n \in Nat
  BY LenProperties
<1>2. \A i \in 1..n : d[i] \in 48..57
  BY DEF IsDigit
<1>3. ASSUME NEW i \in 1..n, NEW v \in A PROVE Step(i, v) \in A
  BY <1>2
<1>4. n = 1 => Step(1, 0) = d[1] - 48
  BY <1>2
<1>5. Value(d) = h[n]
  BY Zenon DEF Value
<1>12. 0 \in A
  OBVIOUS
<1> HIDE DEF Step, n, A
<1>6. Steps(st, n, A)
  BY <1>3 DEF Steps
<1>7. \E f : f = Unfold(f)
  <2>1. PICK f \in [0..n -> A] : RunOf(f, n, 0, st)
    <3> HIDE DEF st
    <3> QED BY <1>1, <1>6, <1>12, HasRun
  <2>2. f[0] = 0 /\ \A i \in 1..n : f[i] = Step(i, f[i - 1])
    <3>1. f[0] = 0 /\ \A i \in 1..n : f[i] = st[i][f[i - 1]]
      BY <2>1, Zenon DEF RunOf
    <3>2. \A i \in 1..n : f[i - 1] \in A
      BY <1>1
    <3>3. \A i \in 1..n : \A v \in A : st[i][v] = Step(i, v)
      OBVIOUS
    <3> HIDE DEF st
    <3> QED BY <3>1, <3>2, <3>3, Zenon
  <2>3. f = Unfold(f)
    BY <1>1, <2>2, SMTT(30)
  <2> QED BY <2>3
<1>8. h = Unfold(h)
  <2> HIDE DEF Unfold
  <2> QED BY <1>7, Zenon
<1> HIDE DEF h
<1>9. h[0] = 0 /\ \A i \in 1..n : h[i] = Step(i, h[i - 1])
  BY <1>1, <1>8
<1>10. \A i \in 0..n : h[i] \in A
  <2>1. \A i \in 1..n : h[i - 1] \in A => h[i] = st[i][h[i - 1]]
    BY <1>9
  <2>2. h[0] = 0
    BY <1>9
  <2> HIDE DEF st
  <2> QED BY <1>1, <1>6, <1>12, <2>1, <2>2, RunType
<1>11. n = 1 => h[1] = d[1] - 48
  BY <1>4, <1>9
<1> QED BY <1>1, <1>5, <1>10, <1>11 DEF n, A

\* The bytes of the last fields of a request, one field in front of the other.
FieldsInFront(style, r, behind) ==
    /\ \A i \in 0..Len(r) : LastFields(style, r, behind)[i] \in Seq(Byte)
    /\ LastFields(style, r, behind)[0] = behind
    /\ \A i \in 1..Len(r) :
         LastFields(style, r, behind)[i] =
             Field(style, r[Len(r) + 1 - i]) \o LastFields(style, r, behind)[i - 1]

\* Each of them is what its field is in front of.
LEMMA FieldsRun ==
    ASSUME NEW style, NEW r, NEW behind \in Seq(Byte), Len(r) \in Nat,
           \A i \in 1..Len(r) : Field(style, r[i]) \in Seq(Byte)
    PROVE  FieldsInFront(style, r, behind)
<1> DEFINE n == Len(r)
           A == Seq(Byte)
           Step(i, v) == Field(style, r[Len(r) + 1 - i]) \o v
           Unfold(f) == [i \in 0..n |-> IF i = 0 THEN behind ELSE Step(i, f[i - 1])]
           st == [i \in 1..n |-> [v \in A |-> Step(i, v)]]
           h == CHOOSE f : f = Unfold(f)
<1>1. n \in Nat
  OBVIOUS
<1>3. ASSUME NEW i \in 1..n, NEW v \in A PROVE Step(i, v) \in A
  <2>1. Len(r) + 1 - i \in 1..Len(r)
    OBVIOUS
  <2>2. Field(style, r[Len(r) + 1 - i]) \in Seq(Byte)
    BY <2>1
  <2> QED BY <2>2, ConcatProperties
<1>5. LastFields(style, r, behind) = h
  BY Zenon DEF LastFields
<1>2. behind \in A
  OBVIOUS
<1> HIDE DEF Step, n, A
<1>6. Steps(st, n, A)
  BY <1>3 DEF Steps
<1>7. \E f : f = Unfold(f)
  <2>1. PICK f \in [0..n -> A] : RunOf(f, n, behind, st)
    <3> HIDE DEF st
    <3> QED BY <1>1, <1>2, <1>6, HasRun
  <2>2. f[0] = behind /\ \A i \in 1..n : f[i] = Step(i, f[i - 1])
    <3>1. f[0] = behind /\ \A i \in 1..n : f[i] = st[i][f[i - 1]]
      BY <2>1, Zenon DEF RunOf
    <3>2. \A i \in 1..n : f[i - 1] \in A
      BY <1>1
    <3>3. \A i \in 1..n : \A v \in A : st[i][v] = Step(i, v)
      OBVIOUS
    <3> HIDE DEF st
    <3> QED BY <3>1, <3>2, <3>3, Zenon
  <2>3. f = Unfold(f)
    BY <1>1, <2>2, SMTT(30)
  <2> QED BY <2>3
<1>8. h = Unfold(h)
  <2> HIDE DEF Unfold
  <2> QED BY <1>7, Zenon
<1> HIDE DEF h
<1>9. h[0] = behind /\ \A i \in 1..n : h[i] = Step(i, h[i - 1])
  BY <1>1, <1>8
<1>10. \A i \in 0..n : h[i] \in A
  <2>1. \A i \in 1..n : h[i - 1] \in A => h[i] = st[i][h[i - 1]]
    BY <1>9
  <2>2. h[0] = behind
    BY <1>9
  <2> HIDE DEF st
  <2> QED BY <1>1, <1>2, <1>6, <2>1, <2>2, RunType
<1> QED BY <1>5, <1>9, <1>10 DEF n, A, Step, FieldsInFront

\* The bytes of the last requests of a session, one request in front of the other.
LEMMA RequestsRun ==
    ASSUME NEW s, Len(s.reqs) \in Nat, s.rest \in Seq(Byte),
           \A i \in 1..Len(s.reqs), b \in Seq(Byte) :
               Request(s.style, s.reqs[i], b) \in Seq(Byte)
    PROVE  /\ \A i \in 0..Len(s.reqs) : LastRequests(s)[i] \in Seq(Byte)
           /\ LastRequests(s)[0] = s.rest
           /\ \A i \in 1..Len(s.reqs) :
                LastRequests(s)[i] =
                    Request(s.style, s.reqs[Len(s.reqs) + 1 - i], LastRequests(s)[i - 1])
<1> DEFINE n == Len(s.reqs)
           A == Seq(Byte)
           base == s.rest
           Step(i, v) == Request(s.style, s.reqs[Len(s.reqs) + 1 - i], v)
           Unfold(f) == [i \in 0..n |-> IF i = 0 THEN base ELSE Step(i, f[i - 1])]
           st == [i \in 1..n |-> [v \in A |-> Step(i, v)]]
           h == CHOOSE f : f = Unfold(f)
<1>1. n \in Nat
  OBVIOUS
<1>2. base \in A
  OBVIOUS
<1>3. ASSUME NEW i \in 1..n, NEW v \in A PROVE Step(i, v) \in A
  <2>1. Len(s.reqs) + 1 - i \in 1..Len(s.reqs)
    OBVIOUS
  <2> QED BY <2>1
<1>5. LastRequests(s) = h
  BY Zenon DEF LastRequests
<1> HIDE DEF Step, n, A, base
<1>6. Steps(st, n, A)
  BY <1>3 DEF Steps
<1>7. \E f : f = Unfold(f)
  <2>1. PICK f \in [0..n -> A] : RunOf(f, n, base, st)
    <3> HIDE DEF st
    <3> QED BY <1>1, <1>2, <1>6, HasRun
  <2>2. f[0] = base /\ \A i \in 1..n : f[i] = Step(i, f[i - 1])
    <3>1. f[0] = base /\ \A i \in 1..n : f[i] = st[i][f[i - 1]]
      BY <2>1, Zenon DEF RunOf
    <3>2. \A i \in 1..n : f[i - 1] \in A
      BY <1>1
    <3>3. \A i \in 1..n : \A v \in A : st[i][v] = Step(i, v)
      OBVIOUS
    <3> HIDE DEF st
    <3> QED BY <3>1, <3>2, <3>3, Zenon
  <2>3. f = Unfold(f)
    <3>1. f = [i \in 0..n |-> f[i]]
      OBVIOUS
    <3>2. \A i \in 0..n : f[i] = IF i = 0 THEN base ELSE Step(i, f[i - 1])
      BY <1>1, <2>2
    <3> QED BY <3>1, <3>2, Zenon
  <2> QED BY <2>3
<1>8. h = Unfold(h)
  <2> HIDE DEF Unfold
  <2> QED BY <1>7, Zenon
<1> HIDE DEF h
<1>9. h[0] = base /\ \A i \in 1..n : h[i] = Step(i, h[i - 1])
  BY <1>1, <1>8
<1>10. \A i \in 0..n : h[i] \in A
  <2>1. \A i \in 1..n : h[i - 1] \in A => h[i] = st[i][h[i - 1]]
    BY <1>9
  <2>2. h[0] = base
    BY <1>9
  <2> HIDE DEF st
  <2> QED BY <1>1, <1>2, <1>6, <2>1, <2>2, RunType
<1> QED BY <1>5, <1>9, <1>10 DEF n, A, Step, base

-----------------------------------------------------------------------------
(* Lines and numbers.                                                      *)

\* c is s with t behind it, and the bytes of s behind its first m up to its n-th.
Joined(c, s, t) ==
    /\ Len(c) = Len(s) + Len(t)
    /\ \A i \in 1..Len(s) : c[i] = s[i]
    /\ \A i \in 1..Len(t) : c[Len(s) + i] = t[i]
PieceOf(c, s, m, n) == Len(c) = n - m /\ \A i \in 1..(n - m) : c[i] = s[m + i]

\* The bytes of s \o t.
LEMMA Cat ==
    ASSUME NEW S, NEW s \in Seq(S), NEW t \in Seq(S), NEW c, c = s \o t
    PROVE  c \in Seq(S) /\ Joined(c, s, t)
<1>1. Len(s) \in Nat /\ Len(t) \in Nat
  BY LenProperties
<1>2. s \o t \in Seq(S) /\ Len(s \o t) = Len(s) + Len(t)
  BY ConcatProperties
<1>3. \A i \in 1..(Len(s) + Len(t)) : (s \o t)[i] = IF i <= Len(s) THEN s[i] ELSE t[i - Len(s)]
  BY ConcatProperties
<1>4. \A i \in 1..(Len(s) + Len(t)) : c[i] = IF i <= Len(s) THEN s[i] ELSE t[i - Len(s)]
  BY <1>3
<1>5. \A i \in 1..Len(s) : c[i] = s[i]
  BY <1>1, <1>4
<1>6. ASSUME NEW i \in 1..Len(t) PROVE c[Len(s) + i] = t[i]
  <2>1. Len(s) + i \in 1..(Len(s) + Len(t)) /\ ~ (Len(s) + i <= Len(s)) /\ (Len(s) + i) - Len(s) = i
    BY <1>1
  <2> QED BY <1>4, <2>1
<1> QED BY <1>2, <1>5, <1>6 DEF Joined

\* The bytes of a piece of s.
LEMMA Cut ==
    ASSUME NEW S, NEW s \in Seq(S), NEW m \in Nat, NEW n \in Nat, m <= n, n <= Len(s),
           NEW k, k = m + 1, NEW c, c = SubSeq(s, k, n)
    PROVE  c \in Seq(S) /\ PieceOf(c, s, m, n)
<1>1. Len(s) \in Nat
  BY LenProperties
<1>2. \A i \in k..n : s[i] \in S
  BY <1>1, ElementOfSeq
<1>3. k \in Int /\ n \in Int
  OBVIOUS
<1>4. SubSeq(s, k, n) \in Seq(S) /\ Len(SubSeq(s, k, n)) = IF k <= n THEN n - k + 1 ELSE 0
  BY <1>2, <1>3, SubSeqProperties
<1>5. \A i \in 1..(n - k + 1) : SubSeq(s, k, n)[i] = s[k + i - 1]
  BY <1>2, <1>3, SubSeqProperties
<1>6. ASSUME NEW i \in 1..(n - m) PROVE c[i] = s[m + i]
  <2>1. i \in 1..(n - k + 1) /\ k + i - 1 = m + i
    OBVIOUS
  <2> QED BY <1>5, <2>1
<1> QED BY <1>4, <1>6 DEF PieceOf

\* A line that ends with its only line feed.
Ends(l) == Len(l) >= 1 /\ l[Len(l)] = LF /\ \A i \in 1..(Len(l) - 1) : l[i] # LF

\* The client's lines: a type byte, some bytes without a line feed, CR and LF.
LEMMA TypedLine ==
    ASSUME NEW t \in Byte, t # LF, NEW f \in Seq(Byte), \A i \in 1..Len(f) : f[i] # LF,
           NEW l, l = Line(<<t>> \o f)
    PROVE  /\ l \in Seq(Byte) /\ Ends(l) /\ Len(l) = Len(f) + 3
           /\ l[1] = t /\ Inside(l) = f
<1> DEFINE a == <<t>>
           z == <<CR, LF>>
           b == a \o f
<1>1. a \in Seq(Byte) /\ Len(a) = 1 /\ a[1] = t
  OBVIOUS
<1>2. z \in Seq(Byte) /\ Len(z) = 2 /\ z[1] = CR /\ z[2] = LF
  BY DEF CR, LF, Byte
<1> HIDE DEF a, z
<1>3. Len(f) \in Nat
  BY LenProperties
<1>4. b \in Seq(Byte) /\ Len(b) = Len(f) + 1 /\ b[1] = t
      /\ \A i \in 1..Len(f) : b[1 + i] = f[i]
  <2>1. b \in Seq(Byte) /\ Joined(b, a, f)
    <3>1. b = a \o f /\ a \in Seq(Byte)
      BY <1>1
    <3> HIDE DEF b
    <3> QED BY <3>1, Cat
  <2> HIDE DEF b
  <2> QED BY <1>1, <1>3, <2>1 DEF Joined
<1> HIDE DEF b
<1>5. l = b \o z
  BY DEF Line, a, z, b
<1>6. l \in Seq(Byte) /\ Len(l) = Len(f) + 3 /\ l[1] = t
      /\ (\A i \in 1..Len(f) : l[i + 1] = f[i]) /\ l[Len(f) + 2] = CR /\ l[Len(f) + 3] = LF
  <2>6. l \in Seq(Byte) /\ Joined(l, b, z)
    <3>1. b \in Seq(Byte) /\ z \in Seq(Byte)
      BY <1>2, <1>4
    <3> QED BY <1>5, <3>1, Cat
  <2>1. /\ l \in Seq(Byte) /\ Len(l) = Len(b) + Len(z)
        /\ \A i \in 1..Len(b) : l[i] = b[i]
        /\ \A i \in 1..Len(z) : l[Len(b) + i] = z[i]
    BY <2>6 DEF Joined
  <2>2. l[Len(b) + 1] = CR /\ l[Len(b) + 2] = LF
    BY <1>2, <2>1
  <2>3. Len(b) + 1 = Len(f) + 2 /\ Len(b) + 2 = Len(f) + 3
    BY <1>3, <1>4
  <2>4. l[1] = t
    BY <1>3, <1>4, <2>1
  <2>5. ASSUME NEW i \in 1..Len(f) PROVE l[i + 1] = f[i]
    <3>1. 1 + i \in 1..Len(b)
      BY <1>3, <1>4
    <3>2. l[1 + i] = f[i]
      BY <1>4, <2>1, <3>1
    <3> QED BY <3>2
  <2> QED BY <1>2, <1>3, <1>4, <2>1, <2>2, <2>3, <2>4, <2>5
<1>7. Ends(l)
  <2>1. ASSUME NEW i \in 1..(Len(f) + 2) PROVE l[i] # LF
    <3>1. CASE i = 1
      BY <1>6, <3>1
    <3>2. CASE i = Len(f) + 2
      BY <1>6, <3>2 DEF CR, LF
    <3>3. CASE i \in 2..(Len(f) + 1)
      <4>1. i - 1 \in 1..Len(f) /\ (i - 1) + 1 = i
        BY <1>3, <3>3
      <4>2. l[i] = f[i - 1]
        BY <1>6, <4>1
      <4> QED BY <4>1, <4>2
    <3> QED BY <1>3, <3>1, <3>2, <3>3
  <2> QED BY <1>3, <1>6, <2>1 DEF Ends
<1>8. Inside(l) = f
  <2>1. Len(l) - 2 = Len(f) + 1 /\ Len(f) + 1 <= Len(l) /\ 2 = 1 + 1
    BY <1>3, <1>6
  <2> DEFINE g == SubSeq(l, 2, Len(f) + 1)
             n == Len(f) + 1
  <2>2. n \in Nat /\ 1 <= n /\ n <= Len(l) /\ n - 1 = Len(f) /\ g = SubSeq(l, 2, n)
    BY <1>3, <2>1
  <2> HIDE DEF g, n
  <2>6. g \in Seq(Byte) /\ PieceOf(g, l, 1, n)
    BY <1>6, <2>1, <2>2, Cut
  <2>3. g \in Seq(Byte) /\ Len(g) = n - 1 /\ \A i \in 1..(n - 1) : g[i] = l[1 + i]
    BY <2>6 DEF PieceOf
  <2>4. ASSUME NEW i \in 1..Len(g) PROVE g[i] = f[i]
    <3>1. i \in 1..Len(f) /\ i \in 1..(n - 1)
      BY <1>3, <2>2, <2>3
    <3>2. g[i] = l[1 + i]
      BY <2>3, <3>1
    <3>3. l[i + 1] = f[i]
      BY <1>6, <3>1
    <3> QED BY <3>2, <3>3
  <2>5. g = f
    BY <2>2, <2>3, <2>4, SeqEqual
  <2> QED BY <2>1, <2>5 DEF g, Inside
<1> QED BY <1>6, <1>7, <1>8

\* The length in front of a string or of an array.
LEMMA OneDigit ==
    ASSUME NEW n \in 0..9, NEW s, s = <<48 + n>>
    PROVE  /\ s \in Seq(Byte) /\ Len(s) = 1 /\ s[1] # LF
           /\ AtoiFails(s) <=> n > MaxInt
           /\ Atoi(s) = n
<1>1. s \in Seq(Byte) /\ Len(s) = 1 /\ s[1] = 48 + n /\ s # <<>> /\ Head(s) = 48 + n
      /\ DOMAIN s = 1..1
  BY DEF Byte
<1>2. Unsigned(s) = s
  BY <1>1 DEF Unsigned, PLUS, MINUS
<1>3. \A i \in 1..Len(s) : IsDigit(s[i])
  BY <1>1 DEF IsDigit
<1>4. Value(s) = n
  <2>1. Value(s) = s[1] - 48
    BY <1>1, <1>3, ValueRun
  <2> QED BY <1>1, <2>1
<1>5. Head(s) # MINUS
  BY <1>1 DEF MINUS
<1>6. AtoiFails(s) <=> n > MaxInt
  BY <1>1, <1>2, <1>3, <1>4, <1>5 DEF AtoiFails
<1>7. Atoi(s) = n
  BY <1>2, <1>4, <1>5 DEF Atoi
<1> QED BY <1>1, <1>6, <1>7 DEF LF

\* What Atoi answers is an int.
LEMMA AtoiRange ==
    ASSUME NEW s \in Seq(Byte), ~ AtoiFails(s)
    PROVE  Atoi(s) \in Int /\ Atoi(s) <= MaxInt
<1> DEFINE u == Unsigned(s)
<1>1. s # <<>>
  BY DEF AtoiFails, Unsigned
<1>2. Tail(s) \in Seq(Byte)
  BY <1>1, HeadTailProperties
<1>3. u \in Seq(Byte)
  BY <1>2 DEF Unsigned
<1>4. u # <<>> /\ (\A i \in DOMAIN u : IsDigit(u[i]))
      /\ ~ (Value(u) > IF Head(s) = MINUS THEN MaxInt + 1 ELSE MaxInt)
  BY DEF AtoiFails
<1>5. Head(s) = MINUS => Unsigned(s) = Tail(s)
  BY <1>1 DEF Unsigned
<1> HIDE DEF u
<1>6. \A i \in 1..Len(u) : IsDigit(u[i])
  BY <1>3, <1>4, LenProperties
<1>7. Value(u) \in Nat
  BY <1>3, <1>6, ValueRun
<1>8. Atoi(s) = IF Head(s) = MINUS THEN - Value(u) ELSE Value(u)
  BY <1>5 DEF Atoi, u
<1> QED BY <1>4, <1>7, <1>8, IntAssumption

\* ReadString: the line that has arrived is the first of the bytes that have arrived
\* or will, and what is left of them is behind it.
LEMMA TakeLine ==
    ASSUME buf \in Seq(Byte), wire \in Seq(Byte), HasLine,
           NEW a, a = buf \o wire, NEW b, b = SubSeq(buf, Len(TheLine) + 1, Len(buf))
    PROVE  /\ TheLine \in Seq(Byte) /\ Ends(TheLine)
           /\ a \in Seq(Byte) /\ Len(TheLine) \in 1..Len(a)
           /\ TheLine = SubSeq(a, 1, Len(TheLine))
           /\ b \in Seq(Byte)
           /\ b \o wire = SubSeq(a, Len(TheLine) + 1, Len(a))
<1> DEFINE P(i) == buf[i] = LF /\ \A j \in 1..(i - 1) : buf[j] # LF
           e == CHOOSE i \in DOMAIN buf : P(i)
           n == Len(buf)
<1>1. n \in Nat /\ DOMAIN buf = 1..n /\ Len(wire) \in Nat
  BY LenProperties
<1>2. \E i \in DOMAIN buf : P(i)
  <2> DEFINE S == {i \in 1..n : buf[i] = LF}
  <2>1. S \subseteq Nat /\ S # {}
    BY <1>1 DEF HasLine
  <2> HIDE DEF S
  <2>2. PICK i \in S : \A y \in S : i <= y
    BY <2>1, LeastNat
  <2>3. i \in 1..n /\ buf[i] = LF
    BY <2>2 DEF S
  <2>4. \A j \in 1..(i - 1) : buf[j] # LF
    <3> SUFFICES ASSUME NEW j \in 1..(i - 1), buf[j] = LF PROVE FALSE
      OBVIOUS
    <3>1. j \in S
      BY <1>1, <2>3 DEF S
    <3>2. i <= j
      BY <2>2, <3>1
    <3> QED BY <2>3, <3>2
  <2> QED BY <1>1, <2>3, <2>4
<1>3. e \in 1..n /\ buf[e] = LF /\ \A j \in 1..(e - 1) : buf[j] # LF
  <2>1. e \in DOMAIN buf /\ P(e)
    <3> HIDE DEF P
    <3> QED BY <1>2, Zenon
  <2> QED BY <1>1, <2>1
<1>4. TheLine = SubSeq(buf, 1, e)
  BY Zenon DEF TheLine
<1> HIDE DEF e
<1>5. \A i \in 1..n : buf[i] \in Byte
  BY ElementOfSeq
<1>6. TheLine \in Seq(Byte) /\ Len(TheLine) = e /\ \A i \in 1..e : TheLine[i] = buf[i]
  <2>1. 0 \in Nat /\ e \in Nat /\ 0 <= e /\ e <= Len(buf) /\ 1 = 0 + 1
    BY <1>1, <1>3
  <2>2. TheLine \in Seq(Byte) /\ PieceOf(TheLine, buf, 0, e)
    BY <1>4, <2>1, Cut
  <2> QED BY <1>3, <2>2 DEF PieceOf
<1>7. Ends(TheLine)
  BY <1>1, <1>3, <1>6 DEF Ends
<1>8. /\ a \in Seq(Byte) /\ Len(a) = n + Len(wire)
      /\ \A i \in 1..n : a[i] = buf[i]
      /\ \A i \in 1..Len(wire) : a[n + i] = wire[i]
  <2>1. a \in Seq(Byte) /\ Joined(a, buf, wire)
    BY Cat
  <2> QED BY <2>1 DEF Joined
<1> DEFINE m == n + Len(wire)
<1>12. e \in Nat /\ m \in Nat /\ e <= n /\ n <= m /\ m = Len(a) /\ Len(buf) = n
  BY <1>1, <1>3, <1>8
<1>9. TheLine = SubSeq(a, 1, Len(TheLine))
  <2> DEFINE l == SubSeq(a, 1, e)
  <2>1. 0 \in Nat /\ 0 <= e /\ e <= Len(a) /\ 1 = 0 + 1
    BY <1>12
  <2> HIDE DEF l, m, n
  <2>6. l \in Seq(Byte) /\ PieceOf(l, a, 0, e)
    BY <1>8, <1>12, <2>1, Cut DEF l
  <2>2. l \in Seq(Byte) /\ Len(l) = e - 0 /\ \A i \in 1..(e - 0) : l[i] = a[0 + i]
    BY <2>6 DEF PieceOf
  <2>3. \A i \in 1..Len(l) : l[i] = TheLine[i]
    BY <1>6, <1>8, <1>12, <2>2
  <2>4. Len(l) = Len(TheLine)
    BY <1>6, <1>12, <2>2
  <2>5. TheLine = l
    BY <1>6, <2>2, <2>3, <2>4, SeqEqual
  <2> QED BY <1>6, <2>5 DEF l
<1> DEFINE k == e + 1
<1>10. b \in Seq(Byte) /\ Len(b) = n - e /\ \A i \in 1..(n - e) : b[i] = buf[e + i]
  <2>1. b = SubSeq(buf, k, n)
    BY <1>6
  <2>2. k = e + 1
    OBVIOUS
  <2>3. e \in Nat /\ n \in Nat /\ e <= n /\ n <= Len(buf)
    BY <1>12
  <2> HIDE DEF k, m, n
  <2>4. b \in Seq(Byte) /\ PieceOf(b, buf, e, n)
    BY <2>1, <2>2, <2>3, Cut
  <2> QED BY <2>4 DEF PieceOf
<1>11. b \o wire = SubSeq(a, Len(TheLine) + 1, Len(a))
  <2> DEFINE c == b \o wire
             d == SubSeq(a, k, m)
  <2>8. c \in Seq(Byte) /\ Joined(c, b, wire)
    <3>1. c = b \o wire
      OBVIOUS
    <3>2. b \in Seq(Byte)
      BY <1>10
    <3> HIDE DEF c
    <3> QED BY <3>1, <3>2, Cat
  <2>1. /\ c \in Seq(Byte) /\ Len(c) = Len(b) + Len(wire)
        /\ \A i \in 1..Len(b) : c[i] = b[i]
        /\ \A i \in 1..Len(wire) : c[Len(b) + i] = wire[i]
    BY <2>8 DEF Joined
  <2>2. d \in Seq(Byte) /\ Len(d) = m - e /\ \A i \in 1..(m - e) : d[i] = a[e + i]
    <3>1. k = e + 1 /\ d = SubSeq(a, k, m)
      OBVIOUS
    <3>2. e \in Nat /\ m \in Nat /\ e <= m /\ m <= Len(a)
      BY <1>12
    <3>3. a \in Seq(Byte)
      BY <1>8
    <3> HIDE DEF d, k, m, n
    <3>4. d \in Seq(Byte) /\ PieceOf(d, a, e, m)
      BY <3>1, <3>2, <3>3, Cut
    <3> QED BY <3>4 DEF PieceOf
  <2>3. SubSeq(a, Len(TheLine) + 1, Len(a)) = d
    BY <1>6, <1>12
  <2>4. m = n + Len(wire)
    OBVIOUS
  <2> HIDE DEF c, d, m, n, k
  <2>5. ASSUME NEW i \in 1..(m - e) PROVE c[i] = d[i]
    <3>1. CASE i <= n - e
      <4>1. i \in 1..(n - e) /\ i \in 1..Len(b) /\ e + i \in 1..n
        BY <1>1, <1>10, <1>12, <3>1
      <4>2. c[i] = buf[e + i]
        BY <1>10, <2>1, <4>1
      <4>3. d[i] = buf[e + i]
        BY <1>8, <2>2, <4>1
      <4> QED BY <4>2, <4>3
    <3>2. CASE i > n - e
      <4> DEFINE j == i - (n - e)
      <4>0. n \in Nat /\ e \in Nat /\ Len(wire) \in Nat /\ Len(b) = n - e
        BY <1>1, <1>10, <1>12
      <4>1. j \in 1..Len(wire) /\ i = Len(b) + j /\ e + i = n + j
        <5>1. i \in Int /\ 1 <= i /\ i <= m - e
          BY <1>12
        <5>2. e + i = n + j
          BY <4>0, <5>1
        <5>3. i = Len(b) + j
          <6>1. i = (n - e) + j
            BY <4>0, <5>1
          <6>2. Len(b) = n - e
            BY <4>0
          <6> QED BY <6>1, <6>2, Zenon
        <5>4. j \in 1..Len(wire)
          <6>1. m = n + Len(wire)
            BY <2>4
          <6> QED BY <4>0, <6>1, <3>2, <5>1
        <5> QED BY <5>2, <5>3, <5>4
      <4> HIDE DEF j
      <4>2. c[i] = wire[j]
        BY <2>1, <4>1
      <4>3. d[i] = wire[j]
        BY <1>8, <2>2, <4>1
      <4> QED BY <4>2, <4>3
    <3> QED BY <1>12, <3>1, <3>2
  <2>6. Len(c) = m - e
    BY <1>1, <1>10, <1>12, <2>1, <2>4
  <2>7. c = d
    BY <2>1, <2>2, <2>5, <2>6, SeqEqual
  <2> QED BY <2>3, <2>7 DEF c
<1>13. Len(TheLine) \in 1..Len(a)
  BY <1>3, <1>6, <1>12
<1> QED BY <1>6, <1>7, <1>8, <1>9, <1>10, <1>11, <1>13

\* Two lines at the start of the same bytes are the same line.
LEMMA SameLine ==
    ASSUME NEW l \in Seq(Byte), NEW k \in Seq(Byte), NEW y \in Seq(Byte), Ends(l), Ends(k),
           NEW a, a = k \o y, Len(l) <= Len(a), l = SubSeq(a, 1, Len(l))
    PROVE  l = k /\ SubSeq(a, Len(l) + 1, Len(a)) = y
<1>1. Len(l) \in Nat /\ Len(k) \in Nat /\ Len(y) \in Nat
  BY LenProperties
<1>2. /\ a \in Seq(Byte) /\ Len(a) = Len(k) + Len(y)
      /\ \A i \in 1..Len(k) : a[i] = k[i]
      /\ \A i \in 1..Len(y) : a[Len(k) + i] = y[i]
  <2>1. a \in Seq(Byte) /\ Joined(a, k, y)
    BY Cat
  <2> QED BY <2>1 DEF Joined
<1>4. \A i \in 1..Len(l) : l[i] = a[i]
  <2> DEFINE n == Len(l)
  <2>1. 0 \in Nat /\ n \in Nat /\ 0 <= n /\ n <= Len(a) /\ 1 = 0 + 1 /\ l = SubSeq(a, 1, n)
    BY <1>1
  <2> HIDE DEF n
  <2>3. a \in Seq(Byte)
    BY <1>2
  <2>2. PieceOf(l, a, 0, n)
    BY <2>1, <2>3, Cut
  <2> QED BY <2>1, <2>2 DEF n, PieceOf
<1>5. Len(l) >= 1 /\ l[Len(l)] = LF /\ \A i \in 1..(Len(l) - 1) : l[i] # LF
  BY DEF Ends
<1>6. Len(k) >= 1 /\ k[Len(k)] = LF /\ \A i \in 1..(Len(k) - 1) : k[i] # LF
  BY DEF Ends
<1>7. ~ (Len(l) < Len(k))
  <2> SUFFICES ASSUME Len(l) < Len(k) PROVE FALSE
    OBVIOUS
  <2>1. Len(l) \in 1..(Len(k) - 1) /\ Len(l) \in 1..Len(l) /\ Len(l) \in 1..Len(k)
    BY <1>1, <1>5
  <2>2. l[Len(l)] = k[Len(l)]
    BY <1>1, <1>2, <1>4, <2>1
  <2> QED BY <1>5, <1>6, <2>1, <2>2
<1>8. ~ (Len(k) < Len(l))
  <2> SUFFICES ASSUME Len(k) < Len(l) PROVE FALSE
    OBVIOUS
  <2>1. Len(k) \in 1..(Len(l) - 1) /\ Len(k) \in 1..Len(l) /\ Len(k) \in 1..Len(k)
    BY <1>1, <1>6
  <2>2. l[Len(k)] = k[Len(k)]
    BY <1>1, <1>2, <1>4, <2>1
  <2> QED BY <1>5, <1>6, <2>1, <2>2
<1>9. Len(l) = Len(k)
  BY <1>1, <1>7, <1>8
<1>10. \A i \in 1..Len(l) : l[i] = k[i]
  BY <1>1, <1>2, <1>4, <1>9
<1>11. l = k
  BY <1>9, <1>10, SeqEqual
<1>12. SubSeq(a, Len(k) + 1, Len(a)) = y
  <2> DEFINE m == Len(k)
             n == Len(a)
             p == m + 1
             d == SubSeq(a, p, n)
  <2>1. m \in Nat /\ n \in Nat /\ m <= n /\ n <= Len(a) /\ p = m + 1 /\ n - m = Len(y)
        /\ m = Len(k) /\ d = SubSeq(a, p, n)
    BY <1>1, <1>2
  <2> HIDE DEF m, n, p, d
  <2>5. a \in Seq(Byte)
    BY <1>2
  <2>6. d \in Seq(Byte) /\ PieceOf(d, a, m, n)
    BY <2>1, <2>5, Cut
  <2>2. d \in Seq(Byte) /\ Len(d) = n - m /\ \A i \in 1..(n - m) : d[i] = a[m + i]
    BY <2>6 DEF PieceOf
  <2>3. \A i \in 1..Len(d) : d[i] = y[i]
    BY <1>2, <2>1, <2>2
  <2>4. d = y
    BY <2>1, <2>2, <2>3, SeqEqual
  <2> QED BY <2>4 DEF d, p, m, n
<1> QED BY <1>9, <1>11, <1>12

-----------------------------------------------------------------------------
(* What the client sends.                                                  *)

\* A request and a field of it that the client can send.
Sendable(style, f) ==
    f \in Seq(Byte) /\ Len(f) <= 9 /\ (style # "bulk" => \A i \in 1..Len(f) : f[i] # LF)
SendableRequest(style, r) ==
    /\ r \in Seq(Seq(Byte)) /\ Len(r) \in 1..9
    /\ \A j \in 1..Len(r) : Sendable(style, r[j])

\* The sessions send requests.
LEMMA SessionRequests ==
    ASSUME NEW s \in Sessions
    PROVE  /\ s.reqs \in Seq(Seq(Seq(Byte))) /\ s.rest \in Seq(Byte)
           /\ \A i \in 1..Len(s.reqs) : SendableRequest(s.style, s.reqs[i])
           /\ ~ BeginsWithRequest(s.rest)
<1>1. /\ s.reqs \in Seq(Seq(Seq(Byte))) /\ s.rest \in Seq(Byte)
      /\ ~ BeginsWithRequest(s.rest)
  BY SessionAssumption
<1>2. ASSUME NEW i \in 1..Len(s.reqs) PROVE SendableRequest(s.style, s.reqs[i])
  <2> DEFINE r == s.reqs[i]
  <2>1. i \in DOMAIN s.reqs
    BY <1>1, LenProperties
  <2>2. r \in Seq(Seq(Byte))
    BY <1>1, ElementOfSeq
  <2>3. /\ Len(r) \in 1..9
        /\ \A j \in DOMAIN r :
              Len(r[j]) <= 9 /\ (s.style # "bulk" => LF \notin Range(r[j]))
    BY <2>1, SessionAssumption
  <2> HIDE DEF r
  <2>4. ASSUME NEW j \in 1..Len(r) PROVE Sendable(s.style, r[j])
    <3>1. r[j] \in Seq(Byte)
      BY <2>2, ElementOfSeq
    <3>2. j \in DOMAIN r
      BY <2>2, LenProperties
    <3>3. Len(r[j]) <= 9 /\ (s.style # "bulk" => LF \notin Range(r[j]))
      BY <2>3, <3>2
    <3>4. ASSUME s.style # "bulk", NEW m \in 1..Len(r[j]) PROVE r[j][m] # LF
      <4>1. DOMAIN r[j] = 1..Len(r[j])
        BY <3>1, LenProperties
      <4>2. r[j][m] \in Range(r[j])
        BY <4>1 DEF Range
      <4> QED BY <3>3, <3>4, <4>2
    <3> QED BY <3>1, <3>3, <3>4 DEF Sendable
  <2> QED BY <2>2, <2>3, <2>4 DEF SendableRequest, r
<1> QED BY <1>1, <1>2

\* The line of a length: a dollar or a star, a digit, CR and LF.
LEMMA LengthLine ==
    ASSUME NEW t \in Byte, t # LF, NEW n \in 0..9
    PROVE  <<t, 48 + n>> = <<t>> \o <<48 + n>> /\ Line(<<t, 48 + n>>) \in Seq(Byte)
<1>1. <<t, 48 + n>> = <<t>> \o <<48 + n>>
  OBVIOUS
<1> DEFINE d == <<48 + n>>
           l == Line(<<t>> \o d)
<1>2. d \in Seq(Byte) /\ Len(d) = 1 /\ d[1] # LF
  BY OneDigit
<1> HIDE DEF d
<1>3. \A i \in 1..Len(d) : d[i] # LF
  BY <1>2
<1>4. l = Line(<<t>> \o d)
  OBVIOUS
<1> HIDE DEF l
<1>5. l \in Seq(Byte)
  BY <1>2, <1>3, <1>4, TypedLine
<1> QED BY <1>1, <1>5 DEF l, d

\* A field is sent as bytes.
LEMMA FieldBytes ==
    ASSUME NEW style, NEW f, Sendable(style, f)
    PROVE  Line(f) \in Seq(Byte) /\ Field(style, f) \in Seq(Byte)
<1>1. f \in Seq(Byte) /\ Len(f) \in 0..9
  <2>1. f \in Seq(Byte) /\ Len(f) <= 9
    BY DEF Sendable
  <2>2. Len(f) \in Nat
    BY <2>1, LenProperties
  <2>3. Len(f) \in 0..9
    <3>1. Len(f) <= 9
      BY <2>1
    <3>2. \A n \in Nat : n <= 9 => n \in 0..9
      OBVIOUS
    <3> QED BY <2>2, <3>1, <3>2, Zenon
  <2> QED BY <2>1, <2>3
<1>2. Line(f) \in Seq(Byte)
  <2>1. <<CR, LF>> \in Seq(Byte)
    BY DEF CR, LF, Byte
  <2>2. f \o <<CR, LF>> \in Seq(Byte)
    BY <1>1, <2>1, ConcatProperties
  <2> QED BY <2>2 DEF Line
<1>3. CASE style = "bulk"
  <2>1. Line(<<DOLLAR, 48 + Len(f)>>) \in Seq(Byte)
    <3> DEFINE n == Len(f)
    <3>1. n \in 0..9 /\ DOLLAR \in Byte /\ DOLLAR # LF
      BY <1>1 DEF DOLLAR, LF, Byte
    <3> HIDE DEF n
    <3>2. Line(<<DOLLAR, 48 + n>>) \in Seq(Byte)
      BY <3>1, LengthLine
    <3> QED BY <3>2 DEF n
  <2>2. Line(<<DOLLAR, 48 + Len(f)>>) \o Line(f) \in Seq(Byte)
    BY <1>2, <2>1, ConcatProperties
  <2>3. Field(style, f) = Line(<<DOLLAR, 48 + Len(f)>>) \o Line(f)
    BY <1>3, Zenon DEF Field
  <2> QED BY <1>2, <2>2, <2>3
<1>4. CASE style # "bulk"
  <2> DEFINE l == Line(<<PLUS>> \o f)
  <2>1. PLUS \in Byte /\ PLUS # LF
    BY DEF PLUS, Byte, LF
  <2>2. \A i \in 1..Len(f) : f[i] # LF
    BY <1>4 DEF Sendable
  <2>3. l = Line(<<PLUS>> \o f)
    OBVIOUS
  <2>4. f \in Seq(Byte)
    BY <1>1
  <2> HIDE DEF l
  <2>5. l \in Seq(Byte)
    BY <2>1, <2>2, <2>3, <2>4, TypedLine
  <2>6. Field(style, f) = l
    BY <1>4, <2>3, Zenon DEF Field
  <2> QED BY <1>2, <2>5, <2>6
<1> QED BY <1>3, <1>4

\* A request is sent as bytes, its fields one behind the other.
LEMMA RequestBytes ==
    ASSUME NEW style, NEW r, SendableRequest(style, r), NEW behind \in Seq(Byte)
    PROVE  /\ FieldsInFront(style, r, behind)
           /\ Request(style, r, behind) \in Seq(Byte)
<1>1. Len(r) \in Nat /\ Len(r) \in 1..9
  BY DEF SendableRequest
<1>2. \A i \in 1..Len(r) : Field(style, r[i]) \in Seq(Byte)
  BY FieldBytes DEF SendableRequest
<1>3. FieldsInFront(style, r, behind)
  BY <1>1, <1>2, FieldsRun
<1>4. LastFields(style, r, behind)[Len(r)] \in Seq(Byte)
  BY <1>1, <1>3 DEF FieldsInFront
<1>5. Line(<<STAR, 48 + Len(r)>>) \in Seq(Byte)
  <2> DEFINE n == Len(r)
  <2>1. n \in 0..9 /\ STAR \in Byte /\ STAR # LF
    BY <1>1 DEF STAR, LF, Byte
  <2> HIDE DEF n
  <2>2. Line(<<STAR, 48 + n>>) \in Seq(Byte)
    BY <2>1, LengthLine
  <2> QED BY <2>2 DEF n
<1>6. Request(style, r, behind) \in Seq(Byte)
  BY <1>4, <1>5, ConcatProperties DEF Request
<1> QED BY <1>3, <1>6

\* A session is sent as bytes, its requests one behind the other.
LEMMA SessionBytes ==
    ASSUME NEW s \in Sessions
    PROVE  /\ Len(s.reqs) \in Nat
           /\ \A i \in 0..Len(s.reqs) : LastRequests(s)[i] \in Seq(Byte)
           /\ LastRequests(s)[0] = s.rest
           /\ \A i \in 1..Len(s.reqs) :
                LastRequests(s)[i] =
                    Request(s.style, s.reqs[Len(s.reqs) + 1 - i], LastRequests(s)[i - 1])
<1>1. Len(s.reqs) \in Nat
  BY SessionRequests, LenProperties
<1>2. s.rest \in Seq(Byte)
  BY SessionRequests
<1>3. \A i \in 1..Len(s.reqs), b \in Seq(Byte) :
          Request(s.style, s.reqs[i], b) \in Seq(Byte)
  <2> SUFFICES ASSUME NEW i \in 1..Len(s.reqs), NEW b \in Seq(Byte)
               PROVE  Request(s.style, s.reqs[i], b) \in Seq(Byte)
    OBVIOUS
  <2>1. SendableRequest(s.style, s.reqs[i])
    BY SessionRequests
  <2> QED BY <2>1, RequestBytes
<1> QED BY <1>1, <1>2, <1>3, RequestsRun

\* A line feed is not in f; a line with f in it comes next, and y behind it; what a
\* reader that takes the line leaves in the buffer.
OneLine(f) == \A i \in 1..Len(f) : f[i] # LF
Incoming(t, f, y) == buf \o wire = Line(<<t>> \o f) \o y
Left == SubSeq(buf, Len(TheLine) + 1, Len(buf))

\* Reading the line that the client sent, when it is the first of the bytes ahead.
LEMMA TakeTyped ==
    ASSUME buf \in Seq(Byte), wire \in Seq(Byte), HasLine,
           NEW t \in Byte, t # LF, NEW f \in Seq(Byte), OneLine(f),
           NEW y \in Seq(Byte), Incoming(t, f, y)
    PROVE  /\ TheLine \in Seq(Byte) /\ Len(TheLine) >= 3 /\ TheLine[1] = t /\ Body = f
           /\ Left \in Seq(Byte) /\ Left \o wire = y
<1> DEFINE a == buf \o wire
           b == Left
           l == Line(<<t>> \o f)
<1>7. \A i \in 1..Len(f) : f[i] # LF
  BY DEF OneLine
<1>8. l = Line(<<t>> \o f) /\ b = Left /\ b = SubSeq(buf, Len(TheLine) + 1, Len(buf))
  BY DEF Left
<1>9. a = buf \o wire /\ a = l \o y
  BY DEF Incoming
<1> HIDE DEF a, b, l
<1>1. l \in Seq(Byte) /\ Ends(l) /\ Len(l) = Len(f) + 3 /\ l[1] = t /\ Inside(l) = f
  BY <1>7, <1>8, TypedLine
<1>2. a = buf \o wire /\ a = l \o y
  BY <1>9
<1>3. /\ TheLine \in Seq(Byte) /\ Ends(TheLine)
      /\ a \in Seq(Byte) /\ Len(TheLine) \in 1..Len(a)
      /\ TheLine = SubSeq(a, 1, Len(TheLine))
      /\ b \in Seq(Byte)
      /\ b \o wire = SubSeq(a, Len(TheLine) + 1, Len(a))
  BY <1>2, <1>8, TakeLine
<1>4. TheLine = l /\ SubSeq(a, Len(TheLine) + 1, Len(a)) = y
  <2> DEFINE k == TheLine
  <2>1. /\ k \in Seq(Byte) /\ Ends(k) /\ Len(k) \in 1..Len(a) /\ k = SubSeq(a, 1, Len(k))
        /\ a \in Seq(Byte)
    BY <1>3
  <2>2. k = TheLine
    OBVIOUS
  <2> HIDE DEF k
  <2>3. Len(k) <= Len(a)
    BY <2>1, LenProperties
  <2>4. l \in Seq(Byte) /\ Ends(l)
    BY <1>1
  <2>5. k = l /\ SubSeq(a, Len(k) + 1, Len(a)) = y
    BY <1>2, <2>1, <2>3, <2>4, SameLine
  <2> QED BY <2>2, <2>5
<1>5. Len(f) \in Nat
  BY LenProperties
<1>6. Len(TheLine) >= 3 /\ TheLine[1] = t /\ Body = f
  <2>3. \A n \in Nat : n + 3 >= 3
    OBVIOUS
  <2>4. Len(f) + 3 >= 3
    BY <1>5, <2>3, Zenon
  <2>1. TheLine = l /\ Len(l) >= 3 /\ l[1] = t /\ Inside(l) = f
    BY <1>1, <1>4, <2>4, Zenon
  <2>2. Body = Inside(TheLine)
    BY DEF Body
  <2> QED BY <2>1, <2>2, Zenon
<1> QED BY <1>3, <1>4, <1>6, <1>8

-----------------------------------------------------------------------------
(* Patterns.                                                               *)

\* What patternRE can have written for the pattern k: a class only behind a bracket of
\* k, and of the quoted bytes only those of k.
Char == [byte : Byte, esc : BOOLEAN]
Items(k) == {[op |-> "star"], [op |-> "any"]} \cup {Text(b) : b \in Range(k)}
            \cup {Class(c) : c \in {x \in Seq(Char) : OPEN \in Range(k)}}
Scans(k) == {s \in [mode : {"text", "class", "escape", "classEscape", "nil"},
                    re : Seq(Items(k)), class : Seq(Char)] :
                s.mode \in {"class", "classEscape"} => OPEN \in Range(k)}

\* What the moves of the scan change.
LEMMA ScanRecord ==
    ASSUME NEW k, NEW s \in Scans(k)
    PROVE  /\ \A m : [s EXCEPT !.mode = m] = [mode |-> m, re |-> s.re, class |-> s.class]
           /\ s.class = <<>> => endClass(s) = [mode |-> "nil", re |-> s.re, class |-> s.class]
           /\ s.class # <<>> =>
                  endClass(s) = [mode |-> "text", re |-> Append(s.re, Class(s.class)),
                                 class |-> <<>>]
<1>1. \A m : [s EXCEPT !.mode = m] = [mode |-> m, re |-> s.re, class |-> s.class]
  BY DEF Scans
<1>4. s.class = <<>> => endClass(s) = [mode |-> "nil", re |-> s.re, class |-> s.class]
  BY <1>1 DEF endClass
<1>5. s.class # <<>> =>
                  endClass(s) = [mode |-> "text", re |-> Append(s.re, Class(s.class)),
                                 class |-> <<>>]
  BY DEF endClass, write
<1> QED BY <1>1, <1>4, <1>5

\* One byte of the pattern.
LEMMA ScanStep ==
    ASSUME NEW k \in Seq(Byte), NEW s \in Scans(k), NEW b \in Range(k)
    PROVE  scanByte(s, b) \in Scans(k)
<1> DEFINE R == [mode : {"text", "class", "escape", "classEscape", "nil"},
                 re : Seq(Items(k)), class : Seq(Char)]
<1>1. s \in R /\ (s.mode \in {"class", "classEscape"} => OPEN \in Range(k))
  BY DEF Scans
<1>2. s = [mode |-> s.mode, re |-> s.re, class |-> s.class]
      /\ s.re \in Seq(Items(k)) /\ s.class \in Seq(Char)
  BY <1>1
<1>3. b \in Byte
  BY RangeOfSeq
<1>4. \A m \in {"text", "class", "escape", "classEscape", "nil"},
         re \in Seq(Items(k)), c \in Seq(Char) :
          (m \in {"class", "classEscape"} => OPEN \in Range(k)) =>
              [mode |-> m, re |-> re, class |-> c] \in Scans(k)
  BY DEF Scans
<1>5. ASSUME NEW item \in Items(k) PROVE write(s, item) \in Scans(k)
  <2>1. Append(s.re, item) \in Seq(Items(k))
    BY <1>2, <1>5, AppendProperties
  <2>2. write(s, item) = [mode |-> "text", re |-> Append(s.re, item), class |-> s.class]
    BY DEF write
  <2> QED BY <1>2, <1>4, <2>1, <2>2
<1>6. ASSUME NEW m \in {"text", "class", "escape", "classEscape", "nil"},
             m \in {"class", "classEscape"} => OPEN \in Range(k)
      PROVE  [s EXCEPT !.mode = m] \in Scans(k)
  <2>1. [s EXCEPT !.mode = m] = [mode |-> m, re |-> s.re, class |-> s.class]
    BY ScanRecord
  <2> QED BY <1>2, <1>4, <1>6, <2>1
<1>7. [op |-> "star"] \in Items(k) /\ [op |-> "any"] \in Items(k) /\ Text(b) \in Items(k)
  BY DEF Items
<1>8. scanText(s, b) \in Scans(k)
  <2>1. CASE b = STAR
    BY <1>5, <1>7, <2>1 DEF scanText, STAR, ANY, OPEN, ESC
  <2>2. CASE b = ANY
    BY <1>5, <1>7, <2>2 DEF scanText, STAR, ANY, OPEN, ESC
  <2>3. CASE b = OPEN
    <3>1. scanText(s, b) = [s EXCEPT !.mode = "class"]
      BY <2>3 DEF scanText, STAR, ANY, OPEN, ESC
    <3> QED BY <1>6, <2>3, <3>1
  <2>4. CASE b = ESC
    <3>1. scanText(s, b) = [s EXCEPT !.mode = "escape"]
      BY <2>4 DEF scanText, STAR, ANY, OPEN, ESC
    <3> QED BY <1>6, <3>1
  <2>5. CASE b \notin {STAR, ANY, OPEN, ESC}
    <3>1. scanText(s, b) = write(s, Text(b))
      BY <2>5 DEF scanText
    <3> QED BY <1>5, <1>7, <3>1
  <2> QED BY <2>1, <2>2, <2>3, <2>4, <2>5
<1>9. ASSUME NEW e \in BOOLEAN, s.mode \in {"class", "classEscape"}
      PROVE  keep(s, b, e) \in Scans(k)
  <2> DEFINE c == [byte |-> b, esc |-> e]
  <2>1. c \in Char
    BY <1>3 DEF Char
  <2> HIDE DEF c
  <2>2. Append(s.class, c) \in Seq(Char)
    BY <1>2, <2>1, AppendProperties
  <2>3. keep(s, b, e) = [mode |-> "class", re |-> s.re, class |-> Append(s.class, c)]
    BY DEF keep, c
  <2> QED BY <1>1, <1>2, <1>4, <1>9, <2>2, <2>3
<1>10. ASSUME s.mode \in {"class", "classEscape"} PROVE scanClass(s, b) \in Scans(k)
  <2>1. CASE b = CLOSE
    <3>1. scanClass(s, b) = endClass(s)
      BY <2>1 DEF scanClass, CLOSE, ESC
    <3>2. CASE s.class = <<>>
      <4>1. endClass(s) = [s EXCEPT !.mode = "nil"]
        BY <3>2, Zenon DEF endClass
      <4> QED BY <1>6, <3>1, <4>1
    <3>3. CASE s.class # <<>>
      <4>1. Class(s.class) \in Items(k)
        <5>1. OPEN \in Range(k)
          BY <1>1, <1>10
        <5>2. s.class \in {x \in Seq(Char) : OPEN \in Range(k)}
          BY <1>2, <5>1
        <5> QED BY <5>2 DEF Items
      <4>3. endClass(s) = [mode |-> "text", re |-> Append(s.re, Class(s.class)),
                           class |-> <<>>]
        BY <3>3, ScanRecord
      <4>4. Append(s.re, Class(s.class)) \in Seq(Items(k)) /\ <<>> \in Seq(Char)
        BY <1>2, <4>1, AppendProperties, EmptySeq
      <4> QED BY <1>4, <3>1, <4>3, <4>4
    <3> QED BY <3>2, <3>3
  <2>2. CASE b = ESC
    <3>1. scanClass(s, b) = [s EXCEPT !.mode = "classEscape"]
      BY <2>2 DEF scanClass, ESC, CLOSE
    <3> QED BY <1>1, <1>6, <1>10, <3>1
  <2>3. CASE b \notin {CLOSE, ESC}
    <3>1. scanClass(s, b) = keep(s, b, FALSE)
      BY <2>3 DEF scanClass
    <3> QED BY <1>9, <1>10, <3>1
  <2> QED BY <2>1, <2>2, <2>3
<1>11. CASE s.mode = "text"
  BY <1>8, <1>11 DEF scanByte
<1>12. CASE s.mode = "class"
  <2>1. scanByte(s, b) = scanClass(s, b)
    BY <1>12 DEF scanByte
  <2> QED BY <1>10, <1>12, <2>1
<1>13. CASE s.mode = "escape"
  <2>1. scanByte(s, b) = write(s, Text(b))
    BY <1>13 DEF scanByte
  <2> QED BY <1>5, <1>7, <2>1
<1>14. CASE s.mode = "classEscape"
  <2>1. scanByte(s, b) = keep(s, b, TRUE)
    BY <1>14 DEF scanByte
  <2> QED BY <1>9, <1>14, <2>1
<1>15. CASE s.mode = "nil"
  <2>1. scanByte(s, b) = s
    BY <1>15 DEF scanByte
  <2> QED BY <2>1
<1>16. s.mode \in {"text", "class", "escape", "classEscape", "nil"}
  BY <1>1
<1> QED BY <1>11, <1>12, <1>13, <1>14, <1>15, <1>16

\* The states of the scan of a pattern, and what is left when it ends.
Final(s) == IF s.mode = "class" THEN endClass(s) ELSE s
IsScan(k, s) ==
    /\ s[0] = Scan0
    /\ \A i \in 1..Len(k) : s[i] = scanByte(s[i - 1], k[i])
    /\ patternRE(k) = IF Final(s[Len(k)]).mode = "text" THEN Final(s[Len(k)]).re ELSE Nil

\* patternRE has a run of the scan.
LEMMA ScanRun ==
    ASSUME NEW k \in Seq(Byte)
    PROVE  \E s \in [0..Len(k) -> Scans(k)] : IsScan(k, s)
<1> DEFINE n == Len(k)
           A == Scans(k)
           base == Scan0
           Step(i, v) == scanByte(v, k[i])
           Unfold(f) == [i \in 0..n |-> IF i = 0 THEN base ELSE Step(i, f[i - 1])]
           st == [i \in 1..n |-> [v \in A |-> Step(i, v)]]
           h == CHOOSE f : f = Unfold(f)
<1>1. n \in Nat
  BY LenProperties
<1>2. base \in A
  BY EmptySeq DEF Scan0, Scans
<1>3. ASSUME NEW i \in 1..n, NEW v \in A PROVE Step(i, v) \in A
  <2>1. k[i] \in Range(k)
    <3>1. DOMAIN k = 1..n
      BY LenProperties
    <3> QED BY <3>1 DEF Range
  <2> QED BY <2>1, ScanStep
<1>5. patternRE(k) = IF Final(h[n]).mode = "text" THEN Final(h[n]).re ELSE Nil
  BY Zenon DEF patternRE, Final
<1> HIDE DEF Step, n, A, base
<1>6. Steps(st, n, A)
  BY <1>3 DEF Steps
<1>7. \E f : f = Unfold(f)
  <2>1. PICK f \in [0..n -> A] : RunOf(f, n, base, st)
    <3> HIDE DEF st
    <3> QED BY <1>1, <1>2, <1>6, HasRun
  <2>2. f[0] = base /\ \A i \in 1..n : f[i] = Step(i, f[i - 1])
    <3>1. f[0] = base /\ \A i \in 1..n : f[i] = st[i][f[i - 1]]
      BY <2>1, Zenon DEF RunOf
    <3>2. \A i \in 1..n : f[i - 1] \in A
      BY <1>1
    <3>3. \A i \in 1..n : \A v \in A : st[i][v] = Step(i, v)
      OBVIOUS
    <3> HIDE DEF st
    <3> QED BY <3>1, <3>2, <3>3, Zenon
  <2>3. f = Unfold(f)
    BY <1>1, <2>2, SMTT(30)
  <2> QED BY <2>3
<1>8. h = Unfold(h)
  <2> HIDE DEF Unfold
  <2> QED BY <1>7, Zenon
<1> HIDE DEF h
<1>9. h[0] = base /\ \A i \in 1..n : h[i] = Step(i, h[i - 1])
  BY <1>1, <1>8
<1>10. \A i \in 0..n : h[i] \in A
  <2>1. \A i \in 1..n : h[i - 1] \in A => h[i] = st[i][h[i - 1]]
    BY <1>9
  <2>2. h[0] = base
    BY <1>9
  <2> HIDE DEF st
  <2> QED BY <1>1, <1>2, <1>6, <2>1, <2>2, RunType
<1>11. h \in [0..n -> A]
  <2>1. h = [i \in 0..n |-> h[i]]
    BY <1>8, Zenon
  <2> QED BY <1>10, <2>1
<1> QED BY <1>5, <1>9, <1>11 DEF n, A, Step, base, IsScan

\* What one byte changes.
Is(s, mode, re, class) == s.mode = mode /\ s.re = re /\ s.class = class
Moved(s, b, t) ==
    /\ s.mode = "text" =>
         /\ b = STAR => Is(t, "text", Append(s.re, [op |-> "star"]), s.class)
         /\ b = ANY => Is(t, "text", Append(s.re, [op |-> "any"]), s.class)
         /\ b = OPEN => Is(t, "class", s.re, s.class)
         /\ b = ESC => Is(t, "escape", s.re, s.class)
         /\ b \notin {STAR, ANY, OPEN, ESC} => Is(t, "text", Append(s.re, Text(b)), s.class)
    /\ s.mode = "escape" => Is(t, "text", Append(s.re, Text(b)), s.class)
    /\ s.mode = "class" =>
         /\ b = CLOSE /\ s.class = <<>> => Is(t, "nil", s.re, s.class)
         /\ b = CLOSE /\ s.class # <<>> => Is(t, "text", Append(s.re, Class(s.class)), <<>>)
         /\ b = ESC => Is(t, "classEscape", s.re, s.class)
         /\ b \notin {CLOSE, ESC} =>
               Is(t, "class", s.re, Append(s.class, [byte |-> b, esc |-> FALSE]))
    /\ s.mode = "classEscape" =>
         Is(t, "class", s.re, Append(s.class, [byte |-> b, esc |-> TRUE]))
    /\ s.mode = "nil" => t = s

\* A step of the scan changes that.
LEMMA Moves ==
    ASSUME NEW k, NEW s \in Scans(k), NEW b
    PROVE  Moved(s, b, scanByte(s, b))
<1>1. \A m : Is([s EXCEPT !.mode = m], m, s.re, s.class)
  BY ScanRecord DEF Is
<1>2. \A x : Is(write(s, x), "text", Append(s.re, x), s.class)
  BY DEF write, Is
<1>3. \A f : Is(keep(s, b, f), "class", s.re, Append(s.class, [byte |-> b, esc |-> f]))
  BY DEF keep, Is
<1>4. /\ s.class = <<>> => Is(endClass(s), "nil", s.re, s.class)
      /\ s.class # <<>> => Is(endClass(s), "text", Append(s.re, Class(s.class)), <<>>)
  BY ScanRecord DEF Is
<1>5. CASE s.mode = "text"
  <2>1. scanByte(s, b) = scanText(s, b)
    BY <1>5 DEF scanByte
  <2>2. /\ b = STAR => scanText(s, b) = write(s, [op |-> "star"])
        /\ b = ANY => scanText(s, b) = write(s, [op |-> "any"])
        /\ b = OPEN => scanText(s, b) = [s EXCEPT !.mode = "class"]
        /\ b = ESC => scanText(s, b) = [s EXCEPT !.mode = "escape"]
        /\ b \notin {STAR, ANY, OPEN, ESC} => scanText(s, b) = write(s, Text(b))
    BY DEF scanText, STAR, ANY, OPEN, ESC
  <2> QED BY <1>1, <1>2, <1>5, <2>1, <2>2 DEF Moved
<1>6. CASE s.mode = "escape"
  <2>1. scanByte(s, b) = write(s, Text(b))
    BY <1>6 DEF scanByte
  <2> QED BY <1>2, <1>6, <2>1 DEF Moved
<1>7. CASE s.mode = "class"
  <2>1. scanByte(s, b) = scanClass(s, b)
    BY <1>7 DEF scanByte
  <2>2. /\ b = CLOSE => scanClass(s, b) = endClass(s)
        /\ b = ESC => scanClass(s, b) = [s EXCEPT !.mode = "classEscape"]
        /\ b \notin {CLOSE, ESC} => scanClass(s, b) = keep(s, b, FALSE)
    <3>1. b = CLOSE => scanClass(s, b) = endClass(s)
      BY DEF scanClass, CLOSE, ESC
    <3>2. b = ESC => scanClass(s, b) = [s EXCEPT !.mode = "classEscape"]
      BY DEF scanClass, CLOSE, ESC
    <3>3. b \notin {CLOSE, ESC} => scanClass(s, b) = keep(s, b, FALSE)
      BY DEF scanClass
    <3> QED BY <3>1, <3>2, <3>3
  <2> DEFINE u == scanByte(s, b)
  <2>3. /\ b = CLOSE => u = endClass(s)
        /\ b = ESC => Is(u, "classEscape", s.re, s.class)
        /\ b \notin {CLOSE, ESC} =>
               Is(u, "class", s.re, Append(s.class, [byte |-> b, esc |-> FALSE]))
    BY <1>1, <1>3, <2>1, <2>2
  <2> HIDE DEF u
  <2>4. /\ b = CLOSE /\ s.class = <<>> => Is(u, "nil", s.re, s.class)
        /\ b = CLOSE /\ s.class # <<>> => Is(u, "text", Append(s.re, Class(s.class)), <<>>)
    BY <1>4, <2>3, Zenon
  <2>5. s.mode \notin {"text", "escape", "classEscape", "nil"}
    BY <1>7
  <2>6. Moved(s, b, u)
    BY <2>3, <2>4, <2>5 DEF Moved
  <2> QED BY <2>6 DEF u
<1>8. CASE s.mode = "classEscape"
  <2>1. scanByte(s, b) = keep(s, b, TRUE)
    BY <1>8 DEF scanByte
  <2> QED BY <1>3, <1>8, <2>1 DEF Moved
<1>9. CASE s.mode = "nil"
  <2>1. scanByte(s, b) = s
    BY <1>9 DEF scanByte
  <2> QED BY <1>9, <2>1 DEF Moved
<1>10. s.mode \in {"text", "class", "escape", "classEscape", "nil"}
  BY DEF Scans
<1> QED BY <1>5, <1>6, <1>7, <1>8, <1>9, <1>10

\* What the end changes.
LEMMA Ended ==
    ASSUME NEW k, NEW s \in Scans(k)
    PROVE  /\ s.mode # "class" => Final(s) = s
           /\ s.mode = "class" /\ s.class = <<>> => Is(Final(s), "nil", s.re, s.class)
           /\ s.mode = "class" /\ s.class # <<>> =>
                  Is(Final(s), "text", Append(s.re, Class(s.class)), <<>>)
BY ScanRecord DEF Final, Is

\* Scanned: the states, their types, and how one follows from the other.
Scanned(p, s) ==
    /\ IsScan(p, s) /\ s \in [0..Len(p) -> Scans(p)]
    /\ \A i \in 1..Len(p) : Moved(s[i - 1], p[i], s[i])
Typed(s) == /\ s.mode \in {"text", "class", "escape", "classEscape", "nil"}
            /\ s.class \in Seq(Char) /\ Len(s.re) \in Nat /\ DOMAIN s.re = 1..Len(s.re)

\* Every pattern is scanned.
LEMMA ScannedRun ==
    ASSUME NEW p \in Seq(Byte)
    PROVE  \E s : Scanned(p, s)
<1>1. PICK s \in [0..Len(p) -> Scans(p)] : IsScan(p, s)
  BY ScanRun
<1>2. ASSUME NEW i \in 1..Len(p) PROVE Moved(s[i - 1], p[i], s[i])
  <2>1. s[i - 1] \in Scans(p)
    <3>1. i - 1 \in 0..Len(p)
      BY LenProperties
    <3> QED BY <3>1
  <2>2. s[i] = scanByte(s[i - 1], p[i])
    BY <1>1 DEF IsScan
  <2> QED BY <2>1, <2>2, Moves
<1> QED BY <1>1, <1>2 DEF Scanned

\* The states have their types.
LEMMA ScanTyped ==
    ASSUME NEW p, NEW s, Scanned(p, s), NEW i \in 0..Len(p)
    PROVE  Typed(s[i]) /\ s[i].re \in Seq(Items(p))
<1>1. s[i] \in Scans(p)
  BY DEF Scanned
<1>2. /\ s[i].mode \in {"text", "class", "escape", "classEscape", "nil"}
      /\ s[i].re \in Seq(Items(p)) /\ s[i].class \in Seq(Char)
  BY <1>1 DEF Scans
<1> QED BY <1>2, LenProperties DEF Typed

\* What is left when the scan ends.
LEMMA FinalTyped ==
    ASSUME NEW p, Len(p) \in Nat, NEW s, Scanned(p, s)
    PROVE  Final(s[Len(p)]).re \in Seq(Items(p))
<1> DEFINE u == s[Len(p)]
<1>1. /\ u \in Scans(p) /\ u.re \in Seq(Items(p)) /\ u.class \in Seq(Char)
      /\ u.mode = "class" => OPEN \in Range(p)
  <2>1. u \in Scans(p)
    BY DEF Scanned
  <2> HIDE DEF u
  <2> QED BY <2>1 DEF Scans
<1> HIDE DEF u
<1>2. CASE u.mode = "class" /\ u.class # <<>>
  <2>1. u.class \in {x \in Seq(Char) : OPEN \in Range(p)}
    BY <1>1, <1>2
  <2>2. Class(u.class) \in Items(p)
    BY <2>1 DEF Items
  <2>3. Final(u).re = Append(u.re, Class(u.class))
    BY <1>1, <1>2, Ended DEF Is
  <2> QED BY <1>1, <2>2, <2>3, AppendProperties DEF u
<1>3. CASE ~ (u.mode = "class" /\ u.class # <<>>)
  <2>1. Final(u).re = u.re
    BY <1>1, <1>3, Ended DEF Is
  <2> QED BY <1>1, <2>1 DEF u
<1> QED BY <1>2, <1>3

\* The expression of a pattern.
LEMMA PatternItems ==
    ASSUME NEW k \in Seq(Byte)
    PROVE  patternRE(k) = Nil \/ patternRE(k) \in Seq(Items(k))
<1>1. PICK s : Scanned(k, s)
  BY ScannedRun
<1>2. Final(s[Len(k)]).re \in Seq(Items(k))
  BY <1>1, FinalTyped, LenProperties
<1>3. patternRE(k) = IF Final(s[Len(k)]).mode = "text" THEN Final(s[Len(k)]).re ELSE Nil
  BY <1>1 DEF Scanned, IsScan
<1> QED BY <1>2, <1>3

\* MustCompile refuses only the expression of a pattern with a class, or with a
\* backslash and an E.
LEMMA RefusedPatterns ==
    ASSUME NEW k \in Seq(Byte), patternRE(k) # Nil, mustCompilePanics(patternRE(k))
    PROVE  OPEN \in Range(k) \/ {ESC, EndQuote} \subseteq Range(k)
<1> DEFINE re == patternRE(k)
<1>1. re \in Seq(Items(k))
  BY PatternItems
<1>2. \/ \E i \in DOMAIN re : re[i].op = "class" /\ badClass(re[i].chars)
      \/ \E i \in 1..(Len(re) - 1) : re[i] = Text(ESC) /\ re[i + 1] = Text(EndQuote)
  BY DEF mustCompilePanics
<1> HIDE DEF re
<1>3. Len(re) \in Nat /\ DOMAIN re = 1..Len(re)
  BY <1>1, LenProperties
<1>4. \A i \in 1..Len(re) : re[i] \in Items(k)
  BY <1>1, ElementOfSeq
<1>5. ASSUME NEW i \in DOMAIN re, re[i].op = "class" PROVE OPEN \in Range(k)
  <2>1. re[i] \in Items(k)
    BY <1>3, <1>4
  <2>2. re[i] \in {Class(c) : c \in {x \in Seq(Char) : OPEN \in Range(k)}}
    BY <1>5, <2>1 DEF Items, Text
  <2> QED BY <2>2
<1>6. ASSUME NEW b, Text(b) \in Items(k) PROVE b \in Range(k)
  BY <1>6 DEF Items, Text, Class
<1>7. ASSUME NEW i \in 1..(Len(re) - 1), re[i] = Text(ESC), re[i + 1] = Text(EndQuote)
      PROVE  {ESC, EndQuote} \subseteq Range(k)
  <2>1. i \in 1..Len(re) /\ i + 1 \in 1..Len(re)
    BY <1>3
  <2>2. Text(ESC) \in Items(k) /\ Text(EndQuote) \in Items(k)
    BY <1>4, <1>7, <2>1
  <2> QED BY <1>6, <2>2
<1> QED BY <1>2, <1>5, <1>7

\* Nor is any other pattern Foreign, but for one with a byte that is not ASCII.
LEMMA ForeignPatterns ==
    ASSUME NEW k \in Seq(Byte), Foreign(k)
    PROVE  \/ OPEN \in Range(k) \/ {ESC, EndQuote} \subseteq Range(k)
           \/ \E b \in Range(k) : b \notin ASCII
<1>1. ASSUME NEW i \in DOMAIN k, NEW j \in DOMAIN k,
             i + 1 < j, k[i] = ESC, k[i + 1] = EndQuote
      PROVE  {ESC, EndQuote} \subseteq Range(k)
  <2>1. DOMAIN k = 1..Len(k) /\ Len(k) \in Nat
    BY LenProperties
  <2>2. i + 1 \in DOMAIN k
    BY <1>1, <2>1
  <2> QED BY <1>1, <2>2 DEF Range
<1> QED BY <1>1 DEF Foreign

-----------------------------------------------------------------------------
(* Pieces of a string, and the Reads of a bulk string.                     *)

\* Strings that begin with as many bytes begin with the same and end with the same.
LEMMA SamePrefix ==
    ASSUME NEW S, NEW s \in Seq(S), NEW t \in Seq(S), NEW y \in Seq(S), NEW z \in Seq(S),
           Len(s) = Len(t), s \o y = t \o z
    PROVE  s = t /\ y = z
<1> DEFINE a == s \o y
<1>8. a = s \o y /\ a = t \o z
  OBVIOUS
<1> HIDE DEF a
<1>1. Joined(a, s, y)
  BY <1>8, Cat
<1>2. Joined(a, t, z)
  BY <1>8, Cat
<1>3. Len(s) \in Nat /\ Len(y) \in Nat /\ Len(z) \in Nat
  BY LenProperties
<1>4. s = t
  <2>1. \A i \in 1..Len(s) : s[i] = t[i]
    BY <1>1, <1>2 DEF Joined
  <2> QED BY <2>1, SeqEqual
<1>5. Len(y) = Len(z)
  BY <1>1, <1>2, <1>3 DEF Joined
<1>6. \A i \in 1..Len(y) : y[i] = z[i]
  BY <1>1, <1>2, <1>5 DEF Joined
<1>7. y = z
  BY <1>5, <1>6, SeqEqual
<1> QED BY <1>4, <1>7

\* The bytes of s behind its first m up to its n-th, and all behind its first m.
Span(s, m, n) == SubSeq(s, m + 1, n)
From(s, m) == SubSeq(s, m + 1, Len(s))

\* The bytes of a span.
LEMMA SpanType ==
    ASSUME NEW S, NEW s \in Seq(S), NEW m \in Nat, NEW n \in Nat, m <= n, n <= Len(s)
    PROVE  Span(s, m, n) \in Seq(S) /\ PieceOf(Span(s, m, n), s, m, n)
<1> DEFINE k == m + 1
           c == SubSeq(s, k, n)
<1>1. k = m + 1 /\ c = SubSeq(s, k, n) /\ Span(s, m, n) = c
  BY DEF Span
<1> HIDE DEF k, c
<1> QED BY <1>1, Cut

\* A span of a span is a span.
LEMMA SpanOfSpan ==
    ASSUME NEW S, NEW s \in Seq(S), NEW m \in Nat, NEW n \in Nat, m <= n, n <= Len(s),
           NEW i \in Nat, NEW j \in Nat, i <= j, j <= n - m,
           NEW mi, mi = m + i, NEW mj, mj = m + j
    PROVE  Span(Span(s, m, n), i, j) = Span(s, mi, mj)
<1> DEFINE t == Span(s, m, n)
           u == Span(t, i, j)
           v == Span(s, mi, mj)
<1>1. t \in Seq(S) /\ PieceOf(t, s, m, n)
  BY SpanType
<1> HIDE DEF t
<1>2. Len(t) = n - m /\ \A x \in 1..(n - m) : t[x] = s[m + x]
  BY <1>1 DEF PieceOf
<1>3. j <= Len(t) /\ mi \in Nat /\ mj \in Nat /\ mi <= mj
  BY <1>2
<1>4. mj <= Len(s)
  <2>1. Len(s) \in Nat
    BY LenProperties
  <2> QED BY <2>1
<1>5. u \in Seq(S) /\ PieceOf(u, t, i, j)
  BY <1>1, <1>3, SpanType
<1>6. v \in Seq(S) /\ PieceOf(v, s, mi, mj)
  BY <1>3, <1>4, SpanType
<1> HIDE DEF u, v
<1>7. Len(u) = j - i /\ \A x \in 1..(j - i) : u[x] = t[i + x]
  BY <1>5 DEF PieceOf
<1>8. Len(v) = mj - mi /\ \A x \in 1..(mj - mi) : v[x] = s[mi + x]
  BY <1>6 DEF PieceOf
<1>9. mj - mi = j - i
  OBVIOUS
<1>10. ASSUME NEW x \in 1..(j - i) PROVE u[x] = v[x]
  <2>1. i + x \in 1..(n - m) /\ m + (i + x) = mi + x
    OBVIOUS
  <2>2. t[i + x] = s[m + (i + x)]
    BY <1>2, <2>1
  <2>3. u[x] = t[i + x]
    BY <1>7
  <2>4. v[x] = s[mi + x]
    BY <1>8, <1>9
  <2>5. m + (i + x) = mi + x
    BY <2>1
  <2> QED BY <2>2, <2>3, <2>4, <2>5, Zenon
<1>11. u = v
  <2>1. Len(u) = Len(v) /\ \A x \in 1..Len(u) : u[x] = v[x]
    BY <1>7, <1>8, <1>9, <1>10
  <2>2. u \in Seq(S) /\ v \in Seq(S)
    BY <1>5, <1>6
  <2> QED BY <2>1, <2>2, SeqEqual
<1> QED BY <1>11 DEF u, v, t

\* The first n bytes of s and what is behind them are s.
LEMMA SpanSplit ==
    ASSUME NEW S, NEW s \in Seq(S), NEW n \in Nat, n <= Len(s)
    PROVE  Span(s, 0, n) \in Seq(S) /\ From(s, n) \in Seq(S) /\ Len(Span(s, 0, n)) = n
           /\ Span(s, 0, n) \o From(s, n) = s
<1> DEFINE u == Span(s, 0, n)
           v == From(s, n)
           w == u \o v
<1>1. Len(s) \in Nat
  BY LenProperties
<1>2. u \in Seq(S) /\ PieceOf(u, s, 0, n)
  BY SpanType
<1>3. v \in Seq(S) /\ PieceOf(v, s, n, Len(s))
  <2> DEFINE m == Len(s)
  <2>1. v = Span(s, n, m) /\ m \in Nat /\ n <= m /\ m <= Len(s)
    BY <1>1 DEF Span, From
  <2> HIDE DEF m, v
  <2>2. v \in Seq(S) /\ PieceOf(v, s, n, m)
    BY <2>1, SpanType
  <2> QED BY <2>2 DEF m
<1>4. w = u \o v
  OBVIOUS
<1> HIDE DEF u, v, w
<1>5. w \in Seq(S) /\ Joined(w, u, v)
  BY <1>2, <1>3, <1>4, Cat
<1>6. Len(u) = n /\ \A x \in 1..n : u[x] = s[x]
  BY <1>2 DEF PieceOf
<1>7. Len(v) = Len(s) - n /\ \A x \in 1..(Len(s) - n) : v[x] = s[n + x]
  BY <1>3 DEF PieceOf
<1>8. Len(w) = Len(s)
  BY <1>1, <1>5, <1>6, <1>7 DEF Joined
<1>9. ASSUME NEW x \in 1..Len(s) PROVE w[x] = s[x]
  <2>1. CASE x <= n
    BY <1>5, <1>6, <2>1 DEF Joined
  <2>2. CASE x > n
    <3> DEFINE y == x - n
    <3>1. y \in 1..(Len(s) - n) /\ n + y = x
      BY <1>1, <2>2
    <3> HIDE DEF y
    <3>2. w[Len(u) + y] = v[y]
      BY <1>5, <1>7, <3>1 DEF Joined
    <3> QED BY <1>6, <1>7, <3>1, <3>2
  <2> QED BY <1>1, <2>1, <2>2
<1>10. w = s
  <2>1. \A x \in 1..Len(w) : w[x] = s[x]
    BY <1>8, <1>9
  <2> QED BY <1>5, <1>8, <2>1, SeqEqual
<1> QED BY <1>2, <1>3, <1>4, <1>6, <1>10 DEF u, v

\* No byte is lost or moved when f, between g and w, is taken apart.
Kept(all, b, w, g, f) == all \o (b \o w) = g \o (f \o w)

\* Three pieces make the same sequence whichever two are put together first.
LEMMA Regrouped ==
    ASSUME NEW S, NEW x \in Seq(S), NEW y \in Seq(S), NEW z \in Seq(S)
    PROVE  (x \o y) \o z = x \o (y \o z)
BY ConcatAssociative

\* What is read of f goes behind g, and the rest of it stays in front of w.
LEMMA TakenApart ==
    ASSUME NEW S, NEW g \in Seq(S), NEW w \in Seq(S), NEW c \in Seq(S), NEW b \in Seq(S)
    PROVE  Kept(g \o c, b, w, g, c \o b)
<1>1. b \o w \in Seq(S)
  BY ConcatProperties
<1>2. (c \o b) \o w = c \o (b \o w)
  BY Regrouped, SMTT(60)
<1>3. (g \o c) \o (b \o w) = g \o (c \o (b \o w))
  BY <1>1, Regrouped, SMTT(60)
<1> QED BY <1>2, <1>3, Zenon DEF Kept

\* One Read: it takes a byte at least and never more than are missing, and no byte is
\* lost or moved.
LEMMA OneRead ==
    ASSUME buf \in Seq(Byte), wire \in Seq(Byte), got \in Seq(Byte), need \in Nat,
           Len(got) < need, buf # <<>>,
           NEW n, n = Least(need - Len(got), Len(buf)),
           NEW all, all = got \o SubSeq(buf, 1, n), NEW b, b = SubSeq(buf, n + 1, Len(buf))
    PROVE  /\ all \in Seq(Byte) /\ b \in Seq(Byte)
           /\ Len(all) \in (Len(got) + 1)..need
           /\ Kept(all, b, wire, got, buf)
<1>1. Len(buf) \in Nat /\ Len(got) \in Nat
  BY LenProperties
<1>2. Len(buf) > 0
  BY <1>1, EmptySeq
<1>3. n \in Nat /\ n >= 1 /\ n <= Len(buf) /\ Len(got) + n <= need
  BY <1>1, <1>2 DEF Least
<1> DEFINE c == Span(buf, 0, n)
<1>4. c \in Seq(Byte) /\ b \in Seq(Byte) /\ Len(c) = n /\ c \o b = buf
  <2>1. From(buf, n) = b
    BY DEF From
  <2> HIDE DEF c
  <2>2. Span(buf, 0, n) \in Seq(Byte) /\ From(buf, n) \in Seq(Byte) /\ Len(Span(buf, 0, n)) = n
        /\ Span(buf, 0, n) \o From(buf, n) = buf
    BY <1>3, SpanSplit
  <2> QED BY <2>1, <2>2 DEF c
<1>5. all = got \o c
  BY DEF Span
<1> HIDE DEF c
<1>6. all \in Seq(Byte) /\ Len(all) = Len(got) + n
  BY <1>4, <1>5, ConcatProperties
<1>7. Kept(all, b, wire, got, buf)
  <2>1. c \in Seq(Byte) /\ b \in Seq(Byte) /\ c \o b = buf
    BY <1>4
  <2>2. Kept(got \o c, b, wire, got, c \o b)
    BY <2>1, TakenApart
  <2> QED BY <1>5, <2>1, <2>2, Zenon
<1>8. Len(all) \in (Len(got) + 1)..need
  <2>1. \A g, x, d \in Nat : x >= 1 /\ g + x <= d => g + x \in (g + 1)..d
    OBVIOUS
  <2>2. Len(got) + n \in (Len(got) + 1)..need
    BY <1>1, <1>3, <2>1, Zenon
  <2> QED BY <1>6, <2>2, Zenon
<1> QED BY <1>4, <1>6, <1>7, <1>8

\* all and y are the stream that begins with the bulk string f; all is all of it.
InFront(all, y, f, z) == all \o y = Line(f) \o z
Complete(all, f) == Len(all) = Len(f) + 2

\* A bulk string that has been read to its end is the one that the client sent.
LEMMA WholeBulk ==
    ASSUME NEW f \in Seq(Byte), NEW all \in Seq(Byte), Complete(all, f),
           NEW y \in Seq(Byte), NEW z \in Seq(Byte), InFront(all, y, f, z)
    PROVE  SubSeq(all, 1, Len(f)) = f /\ y = z
<1> DEFINE e == <<CR, LF>>
           l == f \o e
<1>1. e \in Seq(Byte) /\ Len(e) = 2
  BY DEF CR, LF, Byte
<1> HIDE DEF e
<1>2. l \in Seq(Byte) /\ Len(l) = Len(f) + Len(e)
  BY <1>1, ConcatProperties
<1>3. l = Line(f)
  BY DEF Line, e
<1>4. all \o y = l \o z
  BY <1>3 DEF InFront
<1>5. Len(all) = Len(l)
  BY <1>1, <1>2 DEF Complete
<1>6. all = l /\ y = z
  <2> HIDE DEF l
  <2> QED BY <1>2, <1>4, <1>5, SamePrefix
<1>7. SubSeq(l, 1, Len(f)) = f
  <2> DEFINE n == Len(f)
             c == Span(l, 0, n)
  <2>1. Joined(l, f, e) /\ n \in Nat
    <3>1. l = f \o e
      OBVIOUS
    <3> HIDE DEF l
    <3> QED BY <1>1, <3>1, Cat, LenProperties
  <2>2. n <= Len(l) /\ 0 <= n
    BY <1>1, <1>2, <2>1
  <2> HIDE DEF n, l
  <2>3. c \in Seq(Byte) /\ PieceOf(c, l, 0, n)
    BY <1>2, <2>1, <2>2, SpanType
  <2>4. c = SubSeq(l, 1, n)
    BY DEF Span
  <2> HIDE DEF c
  <2>5. Len(c) = n /\ \A i \in 1..n : c[i] = l[i]
    BY <2>1, <2>3 DEF PieceOf
  <2>6. \A i \in 1..n : l[i] = f[i]
    BY <2>1 DEF Joined, n
  <2>7. c = f
    <3>1. Len(c) = Len(f) /\ \A i \in 1..Len(c) : c[i] = f[i]
      BY <2>5, <2>6 DEF n
    <3> QED BY <2>3, <3>1, SeqEqual
  <2> QED BY <2>4, <2>7 DEF n
<1> QED BY <1>6, <1>7

-----------------------------------------------------------------------------
(* What is no request, cut into fields as far as it goes.                  *)

\* An array of n fields begins s, and its first m fields end at p.
CutsTo(s, n, m, p) ==
    \E h \in 1..Len(s) :
        /\ IsNumber(SubSeq(s, 1, h), STAR) /\ Atoi(Inside(SubSeq(s, 1, h))) = n
        /\ \E cut \in [0..m -> 0..Len(s)] :
              /\ cut[0] = h /\ cut[m] = p
              /\ \A i \in 1..m : IsField(SubSeq(s, cut[i - 1] + 1, cut[i]))

\* The length of the array is read.
LEMMA NoCuts ==
    ASSUME NEW s \in Seq(Byte), NEW h \in 1..Len(s), NEW n,
           IsNumber(SubSeq(s, 1, h), STAR), Atoi(Inside(SubSeq(s, 1, h))) = n
    PROVE  CutsTo(s, n, 0, h)
<1> DEFINE cut == [i \in 0..0 |-> h]
<1>1. Len(s) \in Nat
  BY LenProperties
<1>2. cut \in [0..0 -> 0..Len(s)] /\ cut[0] = h
  BY <1>1
<1>3. \A i \in 1..0 : IsField(SubSeq(s, cut[i - 1] + 1, cut[i]))
  OBVIOUS
<1> HIDE DEF cut
<1> QED BY <1>2, <1>3 DEF CutsTo

\* One more field is read.
LEMMA MoreCuts ==
    ASSUME NEW s \in Seq(Byte), NEW n, NEW m \in Nat, NEW p \in 0..Len(s), NEW q \in 0..Len(s),
           CutsTo(s, n, m, p), IsField(Span(s, p, q)), NEW k, k = m + 1
    PROVE  CutsTo(s, n, k, q)
<1>1. Len(s) \in Nat
  BY LenProperties
<1>2. PICK h \in 1..Len(s) :
        /\ IsNumber(SubSeq(s, 1, h), STAR) /\ Atoi(Inside(SubSeq(s, 1, h))) = n
        /\ \E cut \in [0..m -> 0..Len(s)] :
              /\ cut[0] = h /\ cut[m] = p
              /\ \A i \in 1..m : IsField(SubSeq(s, cut[i - 1] + 1, cut[i]))
  BY DEF CutsTo
<1>3. PICK cut \in [0..m -> 0..Len(s)] :
        /\ cut[0] = h /\ cut[m] = p
        /\ \A i \in 1..m : IsField(SubSeq(s, cut[i - 1] + 1, cut[i]))
  BY <1>2
<1> DEFINE new == [i \in 0..k |-> IF i = k THEN q ELSE cut[i]]
<1>4. new \in [0..k -> 0..Len(s)]
  BY <1>1, <1>3
<1>5. new[k] = q /\ \A i \in 0..m : new[i] = cut[i]
  BY <1>3
<1> HIDE DEF new
<1>6. new[0] = h
  BY <1>3, <1>5
<1>7. ASSUME NEW i \in 1..k PROVE IsField(SubSeq(s, new[i - 1] + 1, new[i]))
  <2>1. CASE i \in 1..m
    <3>1. i - 1 \in 0..m /\ i \in 0..m
      BY <2>1
    <3>2. new[i - 1] = cut[i - 1] /\ new[i] = cut[i]
      BY <1>5, <3>1
    <3>3. IsField(SubSeq(s, cut[i - 1] + 1, cut[i]))
      BY <1>3, <2>1
    <3> QED BY <3>2, <3>3, Zenon
  <2>2. CASE i = k
    <3>1. i - 1 = m
      BY <2>2
    <3>2. new[i - 1] = p /\ new[i] = q
      BY <1>3, <1>5, <2>2, <3>1
    <3>3. IsField(SubSeq(s, p + 1, q))
      BY DEF Span
    <3> QED BY <3>2, <3>3, Zenon
  <2> QED BY <2>1, <2>2
<1> QED BY <1>2, <1>4, <1>5, <1>6, <1>7 DEF CutsTo

\* An array all of whose fields are read is a request.
LEMMA AllCuts ==
    ASSUME NEW s \in Seq(Byte), NEW n \in Nat, n > 0, NEW p, CutsTo(s, n, n, p)
    PROVE  BeginsWithRequest(s)
BY DEF CutsTo, BeginsWithRequest

-----------------------------------------------------------------------------
(* The invariant.  The bytes that have arrived and are not consumed, and    *)
(* those that have not arrived, are what the client sent behind the last    *)
(* request that was answered, less what the reader has taken of the next.   *)

Ahead == buf \o wire
Replies == {OK, Unknown, WrongNumber, Untold} \cup {Answer(ks) : ks \in SUBSET Names}

WireTypes ==
    /\ TypeOK
    /\ session \in Sessions /\ wire \in Seq(Byte)
    /\ answered \in Seq([req : Seq(Seq(Byte)), reply : Replies])
    /\ pc = "bulk" => todo > 0 /\ Len(got) < need

\* The requests that are behind the one that is read, as bytes, and with them those
\* of its last i fields.
Behind == LastRequests(session)[Len(session.reqs) - (Len(answered) + 1)]
After(i) == LastFields(session.style, LastRequest, Behind)[i]

\* The fields before the last i have been read; and the one that is read.
HasRead(i) ==
    /\ Len(fields) = Len(LastRequest) - i
    /\ \A j \in 1..Len(fields) : fields[j] = LastRequest[j]
NextField == LastRequest[Len(LastRequest) + 1 - todo]

\* The reader is in one of the client's requests.
InRequest ==
    /\ pc = "array" => Ahead = Request(session.style, LastRequest, Behind)
    /\ pc = "field" => /\ todo \in 1..Len(LastRequest) /\ HasRead(todo)
                       /\ Ahead = After(todo)
    /\ pc = "bulk" => /\ todo \in 1..Len(LastRequest) /\ HasRead(todo)
                      /\ need = Len(NextField) + 2
                      /\ got \o Ahead = Line(NextField) \o After(todo - 1)
    /\ pc = "dispatch" => fields = LastRequest /\ Ahead = Behind

\* The reader is behind them, in what is no request: it may read fields of one but
\* does not come to its end.
InRest ==
    LET s == session.rest
    IN /\ pc = "array" => Ahead = s
       /\ pc = "field" => \E p \in 0..Len(s) :
             /\ CutsTo(s, Len(fields) + todo, Len(fields), p)
             /\ Ahead = From(s, p)
       /\ pc = "bulk" => \E p \in 0..Len(s), e \in 1..Len(s) :
             /\ CutsTo(s, Len(fields) + todo, Len(fields), p) /\ p < e
             /\ IsNumber(Span(s, p, e), DOLLAR)
             /\ Atoi(Inside(Span(s, p, e))) = need - 2 /\ need >= 2
             /\ got \o Ahead = From(s, e)
       /\ pc = "dispatch" => fields = <<>> /\ NoFields(s)

\* The invariant of the connection.
WireInv ==
    /\ WireTypes /\ ExactlyWhatWasSent /\ DiesOnlyOn
    /\ Len(answered) <= Len(session.reqs)
    /\ Len(answered) < Len(session.reqs) => InRequest
    /\ Len(answered) = Len(session.reqs) => InRest

-----------------------------------------------------------------------------
(* Types.                                                                   *)

\* A line that is not bad has an inside, and its length is an int.
LEMMA GoodLine ==
    ASSUME buf \in Seq(Byte), wire \in Seq(Byte), HasLine, NEW types, ~ BadLine(types)
    PROVE  /\ TheLine \in Seq(Byte) /\ Ends(TheLine) /\ IsLine(TheLine)
           /\ TheLine[1] \in types /\ Body \in Seq(Byte) /\ Body = Inside(TheLine)
           /\ TheLine[1] \in {STAR, DOLLAR} =>
                  ~ AtoiFails(Body) /\ Atoi(Body) \in Int /\ Atoi(Body) <= MaxInt
<1> DEFINE a == buf \o wire
           b == SubSeq(buf, Len(TheLine) + 1, Len(buf))
           l == TheLine
<1>1. l \in Seq(Byte) /\ Ends(l)
  <2>1. a = buf \o wire /\ b = SubSeq(buf, Len(TheLine) + 1, Len(buf))
    OBVIOUS
  <2> HIDE DEF a, b
  <2>2. TheLine \in Seq(Byte) /\ Ends(TheLine)
    BY <2>1, TakeLine
  <2> QED BY <2>2
<1>2. /\ Len(l) >= 3 /\ l[1] \in types
      /\ l[1] \in {STAR, DOLLAR} => ~ AtoiFails(Body)
  <2>1. Len(l) \in Nat
    BY <1>1, LenProperties
  <2> QED BY <2>1 DEF BadLine
<1>3. Body = Inside(l)
  BY DEF Body
<1> HIDE DEF l
<1>4. Inside(l) \in Seq(Byte)
  <2> DEFINE n == Len(l) - 2
             c == Span(l, 1, n)
  <2>1. Len(l) \in Nat
    BY <1>1, LenProperties
  <2>2. n \in Nat /\ 1 <= n /\ n <= Len(l) /\ 1 \in Nat
    BY <1>2, <2>1
  <2>3. Inside(l) = c
    BY DEF Inside, Span
  <2> HIDE DEF n, c
  <2>4. Span(l, 1, n) \in Seq(Byte)
    BY <1>1, <2>2, SpanType
  <2> QED BY <2>3, <2>4 DEF c
<1>5. IsLine(l)
  BY <1>1, <1>2 DEF IsLine, Ends
<1>6. ~ AtoiFails(Body) => Atoi(Body) \in Int /\ Atoi(Body) <= MaxInt
  <2>1. Body \in Seq(Byte)
    BY <1>3, <1>4
  <2> QED BY <2>1, AtoiRange
<1>7. l = TheLine
  BY DEF l
<1> QED BY <1>1, <1>2, <1>3, <1>4, <1>5, <1>6, <1>7, Zenon

\* Before the first byte.
LEMMA WireTypesInit ==
    ASSUME Init
    PROVE  WireTypes
<1>1. session \in Sessions /\ wire = Bytes(session)
  BY DEF Init
<1>2. wire \in Seq(Byte)
  <2> DEFINE n == Len(session.reqs)
  <2>1. n \in 0..n
    BY <1>1, SessionBytes
  <2>2. LastRequests(session)[n] \in Seq(Byte)
    BY <1>1, <2>1, SessionBytes
  <2> QED BY <1>1, <2>2 DEF Bytes
<1>3. TypeOK
  <2>1. 0 \in 0..MaxInt /\ 0 \in 0..MaxAlloc
    BY IntAssumption
  <2>2. << >> \in Seq(Byte) /\ << >> \in Seq(Seq(Byte)) /\ Len(<< >>) <= 0
    BY EmptySeq
  <2> QED BY <2>1, <2>2 DEF Init, TypeOK
<1>4. answered \in Seq([req : Seq(Seq(Byte)), reply : Replies])
  BY EmptySeq DEF Init
<1>5. pc # "bulk"
  BY DEF Init
<1> QED BY <1>1, <1>2, <1>3, <1>4, <1>5 DEF WireTypes

\* What a line leaves in the buffer.
LEMMA ConsumeType ==
    ASSUME WireTypes, HasLine, Consume
    PROVE  buf' \in Seq(Byte)
<1> DEFINE a == buf \o wire
           b == SubSeq(buf, Len(TheLine) + 1, Len(buf))
<1>1. a = buf \o wire /\ b = SubSeq(buf, Len(TheLine) + 1, Len(buf)) /\ buf' = b
  BY DEF Consume
<1>2. buf \in Seq(Byte) /\ wire \in Seq(Byte)
  BY DEF WireTypes, TypeOK
<1> HIDE DEF a, b
<1>3. b \in Seq(Byte)
  BY <1>1, <1>2, TakeLine
<1> QED BY <1>1, <1>3

\* The command's answer.
LEMMA ReplyType ==
    ASSUME NEW args
    PROVE  cmdKeys(args) \in Replies
<1>1. matchKeys(Names, args[1]) \in SUBSET Names
  BY DEF matchKeys
<1>2. Answer(matchKeys(Names, args[1])) \in Replies
  BY <1>1 DEF Replies
<1> QED BY <1>2 DEF cmdKeys, Replies

\* Every step of a connection keeps the types.
LEMMA WireTypesStep ==
    ASSUME WireTypes, [Next]_vars
    PROVE  WireTypes'
<1>1. /\ buf \in Seq(Byte) /\ eof \in BOOLEAN
      /\ pc \in {"array", "field", "bulk", "dispatch", "closed", "dead"}
      /\ todo \in 0..MaxInt /\ (pc = "field" => todo > 0)
      /\ need \in 0..MaxAlloc /\ got \in Seq(Byte) /\ Len(got) <= need
      /\ fields \in Seq(Seq(Byte))
      /\ session \in Sessions /\ wire \in Seq(Byte)
      /\ answered \in Seq([req : Seq(Seq(Byte)), reply : Replies])
      /\ pc = "bulk" => todo > 0 /\ Len(got) < need
  BY DEF WireTypes, TypeOK
<1>2. MaxInt \in Nat /\ MaxAlloc \in Nat
  BY IntAssumption
<1>3. Len(got) \in Nat /\ Len(buf) \in Nat
  BY <1>1, LenProperties
<1>4. CASE Deliver
  <2>1. Head(wire) \in Byte /\ Tail(wire) \in Seq(Byte)
    BY <1>1, <1>4, HeadTailProperties DEF Deliver
  <2>2. Append(buf, Head(wire)) \in Seq(Byte)
    BY <1>1, <2>1, AppendProperties
  <2> QED BY <1>1, <1>4, <2>1, <2>2 DEF Deliver, WireTypes, TypeOK
<1>5. CASE Hangup
  BY <1>1, <1>5 DEF Hangup, WireTypes, TypeOK
<1>6. CASE ReadFails
  BY <1>1, <1>6 DEF ReadFails, Leave, WireTypes, TypeOK
<1>7. CASE readArray
  <2>1. buf' \in Seq(Byte) /\ HasLine
    BY <1>7, ConsumeType DEF readArray
  <2>2. CASE BadLine({STAR})
    BY <1>1, <1>7, <2>1, <2>2 DEF readArray, Leave, WireTypes, TypeOK
  <2>3. CASE ~ BadLine({STAR})
    <3>1. Atoi(Body) \in Int /\ Atoi(Body) <= MaxInt
      BY <1>1, <2>1, <2>3, GoodLine
    <3>2. /\ todo' = IF Atoi(Body) > 0 THEN Atoi(Body) ELSE 0
          /\ pc' = IF Atoi(Body) > 0 THEN "field" ELSE "dispatch"
          /\ fields' = << >>
          /\ UNCHANGED <<eof, need, got, session, wire, answered>>
      BY <1>7, <2>3 DEF readArray
    <3>3. todo' \in 0..MaxInt /\ (pc' = "field" => todo' > 0) /\ pc' \in {"field", "dispatch"}
      BY <1>2, <3>1, <3>2
    <3>4. fields' \in Seq(Seq(Byte))
      BY <3>2, EmptySeq
    <3> QED BY <1>1, <2>1, <3>2, <3>3, <3>4 DEF WireTypes, TypeOK
  <2> QED BY <2>2, <2>3
<1>8. CASE readString
  <2>1. /\ buf' \in Seq(Byte) /\ HasLine /\ pc = "field"
        /\ UNCHANGED <<session, wire, answered>>
    BY <1>8, ConsumeType DEF readString
  <2> DEFINE types == {PLUS, MINUS, COLON, DOLLAR}
  <2>2. CASE BadLine(types)
    BY <1>1, <1>8, <2>1, <2>2 DEF readString, Leave, WireTypes, TypeOK
  <2>3. ASSUME ~ BadLine(types), NEW f \in Seq(Byte), Add(f), UNCHANGED <<eof, need, got>>
        PROVE  WireTypes'
    <3>1. fields' \in Seq(Seq(Byte))
      BY <1>1, <2>3, AppendProperties DEF Add
    <3>2. todo' \in 0..MaxInt /\ (pc' = "field" => todo' > 0) /\ pc' \in {"field", "dispatch"}
      BY <1>1, <1>2, <2>1, <2>3 DEF Add
    <3> QED BY <1>1, <2>1, <2>3, <3>1, <3>2 DEF WireTypes, TypeOK
  <2>4. CASE ~ BadLine(types)
    <3>1. /\ Body \in Seq(Byte) /\ << >> \in Seq(Byte)
          /\ TheLine[1] \in {STAR, DOLLAR} => Atoi(Body) \in Int
      BY <1>1, <2>1, <2>4, GoodLine, EmptySeq
    <3>2. CASE TheLine[1] # DOLLAR
      <4>1. Add(Body) /\ UNCHANGED <<eof, need, got>>
        BY <1>8, <2>4, <3>2 DEF readString
      <4> QED BY <2>3, <2>4, <3>1, <4>1
    <3>3. CASE TheLine[1] = DOLLAR /\ Atoi(Body) < 0
      <4>1. Add(<< >>) /\ UNCHANGED <<eof, need, got>>
        BY <1>8, <2>4, <3>3 DEF readString
      <4> QED BY <2>3, <2>4, <3>1, <4>1
    <3>4. CASE TheLine[1] = DOLLAR /\ ~ (Atoi(Body) < 0) /\ makePanics(Atoi(Body))
      <4>1. Panic
        BY <1>8, <2>4, <3>4 DEF readString
      <4> QED BY <1>1, <2>1, <4>1 DEF Panic, WireTypes, TypeOK
    <3>5. CASE TheLine[1] = DOLLAR /\ ~ (Atoi(Body) < 0) /\ ~ makePanics(Atoi(Body))
      <4>1. /\ need' = Atoi(Body) + 2 /\ got' = << >> /\ pc' = "bulk"
            /\ UNCHANGED <<eof, todo, fields>>
        BY <1>8, <2>4, <3>5 DEF readString
      <4>2. need' \in 0..MaxAlloc /\ 0 < need'
        BY <1>2, <3>1, <3>5, <4>1 DEF makePanics
      <4>3. got' \in Seq(Byte) /\ Len(got') = 0
        BY <4>1, EmptySeq
      <4>4. Len(got') < need' /\ Len(got') <= need'
        BY <1>2, <4>2, <4>3
      <4> QED BY <1>1, <2>1, <4>1, <4>2, <4>3, <4>4 DEF WireTypes, TypeOK
    <3> QED BY <3>2, <3>3, <3>4, <3>5
  <2> QED BY <2>2, <2>4
<1>9. CASE readBulk
  <2> DEFINE n == Least(need - Len(got), Len(buf))
             all == got \o SubSeq(buf, 1, n)
             b == SubSeq(buf, n + 1, Len(buf))
  <2>1. /\ pc = "bulk" /\ buf # << >> /\ buf' = b /\ got' = all
        /\ UNCHANGED <<session, wire, eof, need, answered>>
        /\ IF Len(all) = need THEN Add(SubSeq(all, 1, need - 2))
           ELSE UNCHANGED <<pc, todo, fields>>
    BY <1>9 DEF readBulk
  <2>2. n = Least(need - Len(got), Len(buf)) /\ all = got \o SubSeq(buf, 1, n)
        /\ b = SubSeq(buf, n + 1, Len(buf))
    OBVIOUS
  <2> HIDE DEF n, all, b
  <2>3. all \in Seq(Byte) /\ b \in Seq(Byte) /\ Len(all) \in (Len(got) + 1)..need
    <3>1. need \in Nat /\ Len(got) < need /\ buf \in Seq(Byte) /\ wire \in Seq(Byte)
          /\ got \in Seq(Byte) /\ buf # <<>>
      BY <1>1, <1>2, <2>1
    <3> QED BY <2>2, <3>1, OneRead
  <2>4. Len(all) \in Nat /\ need \in Nat /\ Len(all) <= need
    BY <1>1, <1>2, <1>3, <2>3
  <2>5. CASE Len(all) = need
    <3>1. SubSeq(all, 1, need - 2) \in Seq(Byte)
      <4> DEFINE m == need - 2
      <4>1. \A i \in 1..m : all[i] \in Byte
        BY <2>3, <2>4, <2>5, ElementOfSeq
      <4>2. m \in Int
        BY <2>4
      <4> HIDE DEF m
      <4>3. SubSeq(all, 1, m) \in Seq(Byte)
        BY <4>1, <4>2, SubSeqProperties
      <4> QED BY <4>3 DEF m
    <3>2. fields' \in Seq(Seq(Byte))
      <4> DEFINE f == SubSeq(all, 1, need - 2)
      <4>1. fields' = Append(fields, f)
        BY <2>1, <2>5 DEF Add
      <4>2. f \in Seq(Byte) /\ fields \in Seq(Seq(Byte))
        BY <1>1, <3>1
      <4> HIDE DEF f
      <4> QED BY <4>1, <4>2, AppendProperties
    <3>3. todo' \in 0..MaxInt /\ (pc' = "field" => todo' > 0) /\ pc' \in {"field", "dispatch"}
      BY <1>1, <1>2, <2>1, <2>5 DEF Add
    <3> QED BY <1>1, <2>1, <2>3, <2>4, <3>2, <3>3 DEF WireTypes, TypeOK
  <2>6. CASE Len(all) # need
    <3>1. Len(all) < need
      BY <2>4, <2>6
    <3> QED BY <1>1, <2>1, <2>3, <2>4, <2>6, <3>1 DEF WireTypes, TypeOK
  <2> QED BY <2>5, <2>6
<1>10. CASE dispatch
  <2>1. ASSUME NEW r \in Replies, Reply(r), UNCHANGED <<session, wire, buf>>
        PROVE  WireTypes'
    <3> DEFINE x == [req |-> fields, reply |-> r]
    <3>1. x \in [req : Seq(Seq(Byte)), reply : Replies]
      BY <1>1
    <3>2. answered' = Append(answered, x)
      BY <2>1 DEF Reply
    <3> HIDE DEF x
    <3>3. answered' \in Seq([req : Seq(Seq(Byte)), reply : Replies])
      BY <1>1, <3>1, <3>2, AppendProperties
    <3> QED BY <1>1, <2>1, <3>3 DEF Reply, WireTypes, TypeOK
  <2>2. ASSUME Panic, UNCHANGED <<session, wire, buf, answered>> PROVE WireTypes'
    BY <1>1, <2>2 DEF Panic, WireTypes, TypeOK
  <2>3. cmdKeys(Tail(fields)) \in Replies /\ {OK, Unknown, Untold} \subseteq Replies
    BY ReplyType DEF Replies
  <2> QED BY <1>10, <2>1, <2>2, <2>3 DEF dispatch
<1>11. CASE UNCHANGED vars
  BY <1>1, <1>11 DEF vars, WireTypes, TypeOK
<1> QED BY <1>4, <1>5, <1>6, <1>7, <1>8, <1>9, <1>10, <1>11 DEF Next, servePeer

-----------------------------------------------------------------------------
(* The network.                                                            *)

\* What the invariant says of the bytes and of the answers.
WireContent ==
    /\ ExactlyWhatWasSent /\ DiesOnlyOn
    /\ Len(answered) <= Len(session.reqs)
    /\ Len(answered) < Len(session.reqs) => InRequest
    /\ Len(answered) = Len(session.reqs) => InRest

\* The types that the steps need.
LEMMA Types ==
    ASSUME WireTypes
    PROVE  /\ buf \in Seq(Byte) /\ wire \in Seq(Byte) /\ got \in Seq(Byte)
           /\ Ahead \in Seq(Byte) /\ session \in Sessions
           /\ Len(answered) \in Nat /\ Len(session.reqs) \in Nat
           /\ fields \in Seq(Seq(Byte)) /\ Len(fields) \in Nat
           /\ todo \in Nat /\ need \in Nat
<1>1. /\ buf \in Seq(Byte) /\ wire \in Seq(Byte) /\ got \in Seq(Byte)
      /\ fields \in Seq(Seq(Byte)) /\ session \in Sessions
      /\ answered \in Seq([req : Seq(Seq(Byte)), reply : Replies])
      /\ todo \in 0..MaxInt /\ need \in 0..MaxAlloc
  BY DEF WireTypes, TypeOK
<1>2. Ahead \in Seq(Byte)
  BY <1>1, ConcatProperties DEF Ahead
<1>3. Len(answered) \in Nat /\ Len(fields) \in Nat
  BY <1>1, LenProperties
<1>4. Len(session.reqs) \in Nat
  BY <1>1, SessionBytes
<1>5. todo \in Nat /\ need \in Nat
  BY <1>1, IntAssumption
<1> QED BY <1>1, <1>2, <1>3, <1>4, <1>5

\* The bytes of a session behind its first k requests.
LEMMA BytesBehind ==
    ASSUME NEW s \in Sessions, NEW k \in 0..Len(s.reqs), NEW b,
           b = LastRequests(s)[Len(s.reqs) - k]
    PROVE  /\ b \in Seq(Byte)
           /\ k = Len(s.reqs) => b = s.rest
           /\ k < Len(s.reqs) =>
                 b = Request(s.style, s.reqs[k + 1], LastRequests(s)[Len(s.reqs) - (k + 1)])
<1> DEFINE n == Len(s.reqs)
           L == LastRequests(s)
<1>1. n \in Nat
  BY SessionBytes
<1>2. \A i \in 0..n : L[i] \in Seq(Byte)
  BY SessionBytes
<1>3. L[0] = s.rest
  BY SessionBytes
<1>4. \A i \in 1..n : L[i] = Request(s.style, s.reqs[n + 1 - i], L[i - 1])
  BY SessionBytes
<1>5. n - k \in 0..n /\ (k = n => n - k = 0)
      /\ (k < n => /\ n - k \in 1..n /\ n + 1 - (n - k) = k + 1
                   /\ (n - k) - 1 = n - (k + 1))
  BY <1>1
<1>6. b = L[n - k]
  OBVIOUS
<1> HIDE DEF n, L
<1>7. b \in Seq(Byte)
  BY <1>2, <1>5, <1>6
<1>8. k = n => b = s.rest
  BY <1>3, <1>5, <1>6
<1>9. k < n => b = Request(s.style, s.reqs[k + 1], L[n - (k + 1)])
  <2>1. k < n => b = Request(s.style, s.reqs[n + 1 - (n - k)], L[(n - k) - 1])
    BY <1>4, <1>5, <1>6
  <2> QED BY <1>5, <2>1
<1> QED BY <1>7, <1>8, <1>9 DEF n, L

\* The request that is read and what is behind it.
LEMMA Current ==
    ASSUME WireTypes, Len(answered) < Len(session.reqs)
    PROVE  /\ SendableRequest(session.style, LastRequest) /\ Behind \in Seq(Byte)
           /\ Len(LastRequest) \in 1..9
           /\ FieldsInFront(session.style, LastRequest, Behind)
<1>1. /\ session \in Sessions /\ Len(answered) \in Nat /\ Len(session.reqs) \in Nat
  BY Types
<1> DEFINE k == Len(answered) + 1
<1>2. k \in 1..Len(session.reqs) /\ k \in 0..Len(session.reqs)
  BY <1>1
<1>3. LastRequest = session.reqs[k] /\ Behind = LastRequests(session)[Len(session.reqs) - k]
  BY DEF LastRequest, Behind
<1> HIDE DEF k
<1>4. SendableRequest(session.style, session.reqs[k])
  BY <1>1, <1>2, SessionRequests
<1>5. Behind \in Seq(Byte)
  BY <1>1, <1>2, <1>3, BytesBehind
<1>6. SendableRequest(session.style, LastRequest)
  BY <1>3, <1>4
<1>7. FieldsInFront(session.style, LastRequest, Behind)
  BY <1>5, <1>6, RequestBytes
<1>8. Len(LastRequest) \in 1..9
  BY <1>6 DEF SendableRequest
<1> QED BY <1>5, <1>6, <1>7, <1>8

\* A step that answers nothing leaves the session where it is.
LEMMA SamePlace ==
    ASSUME UNCHANGED <<session, answered>>
    PROVE  /\ LastRequest' = LastRequest /\ Behind' = Behind
           /\ \A i : After(i)' = After(i)
           /\ ExactlyWhatWasSent <=> ExactlyWhatWasSent'
BY DEF LastRequest, Behind, After, ExactlyWhatWasSent

\* The network moves a byte, which stays where it is in the stream.
LEMMA SameAhead ==
    ASSUME WireTypes, Deliver
    PROVE  Ahead' = Ahead
<1> DEFINE h == Head(wire)
           t == Tail(wire)
           b == Append(buf, h)
<1>1. buf \in Seq(Byte) /\ wire \in Seq(Byte) /\ wire # <<>>
  BY Types DEF Deliver
<1>2. h \in Byte /\ t \in Seq(Byte) /\ Len(t) = Len(wire) - 1
      /\ \A i \in 1..Len(t) : t[i] = wire[i + 1]
  BY <1>1, HeadTailProperties
<1>3. h = wire[1]
  BY <1>1
<1>4. Len(wire) \in Nat /\ Len(buf) \in Nat /\ Len(wire) # 0
  BY <1>1, LenProperties, EmptySeq
<1>5. buf' = b /\ wire' = t
  BY DEF Deliver
<1> HIDE DEF h, t
<1>6. b \in Seq(Byte) /\ Len(b) = Len(buf) + 1 /\ b[Len(buf) + 1] = h
      /\ \A i \in 1..Len(buf) : b[i] = buf[i]
  BY <1>1, <1>2, AppendProperties
<1> DEFINE x == buf \o wire
           y == b \o t
<1>7. x = buf \o wire /\ y = b \o t
  OBVIOUS
<1> HIDE DEF b, x, y
<1>8. x \in Seq(Byte) /\ Joined(x, buf, wire)
  BY <1>1, <1>7, Cat
<1>9. y \in Seq(Byte) /\ Joined(y, b, t)
  BY <1>2, <1>6, <1>7, Cat
<1>10. Len(x) = Len(y)
  BY <1>2, <1>4, <1>6, <1>8, <1>9 DEF Joined
<1>11. ASSUME NEW i \in 1..Len(x) PROVE x[i] = y[i]
  <2>1. Len(x) = Len(buf) + Len(wire)
    BY <1>8 DEF Joined
  <2>2. CASE i \in 1..Len(buf)
    <3>1. x[i] = buf[i]
      BY <1>8, <2>2 DEF Joined
    <3>2. i \in 1..Len(b)
      BY <1>4, <1>6, <2>2
    <3>3. y[i] = b[i]
      BY <1>9, <3>2 DEF Joined
    <3> QED BY <1>6, <2>2, <3>1, <3>3
  <2>3. CASE i = Len(buf) + 1
    <3>1. 1 \in 1..Len(wire) /\ i \in 1..Len(b)
      BY <1>4, <1>6, <2>3
    <3>2. x[i] = wire[1]
      BY <1>8, <2>3, <3>1 DEF Joined
    <3>3. y[i] = b[i]
      BY <1>9, <3>1 DEF Joined
    <3> QED BY <1>3, <1>6, <2>3, <3>2, <3>3
  <2>4. CASE i \in (Len(buf) + 2)..Len(x)
    <3> DEFINE j == i - Len(buf)
               m == j - 1
    <3>1. j \in 1..Len(wire) /\ Len(buf) + j = i /\ m \in 1..Len(t) /\ Len(b) + m = i /\ m + 1 = j
      BY <1>2, <1>4, <1>6, <2>1, <2>4
    <3> HIDE DEF j, m
    <3>2. x[i] = wire[j]
      BY <1>8, <3>1 DEF Joined
    <3>3. y[i] = t[m]
      BY <1>9, <3>1 DEF Joined
    <3> QED BY <1>2, <3>1, <3>2, <3>3
  <2> QED BY <1>4, <2>1, <2>2, <2>3, <2>4
<1>12. x = y
  BY <1>8, <1>9, <1>10, <1>11, SeqEqual
<1> QED BY <1>5, <1>7, <1>12 DEF Ahead

\* The network keeps the invariant.
LEMMA NetworkContent ==
    ASSUME WireTypes, WireContent, Deliver \/ Hangup \/ UNCHANGED vars
    PROVE  WireContent'
<1>1. Ahead' = Ahead
  <2>1. CASE Deliver
    BY <2>1, SameAhead
  <2>2. CASE Hangup \/ UNCHANGED vars
    BY <2>2 DEF Hangup, vars, Ahead
  <2> QED BY <2>1, <2>2
<1>2. UNCHANGED <<session, pc, todo, fields, need, got, answered>>
  BY DEF Deliver, Hangup, vars
<1>3. LastRequest' = LastRequest /\ Behind' = Behind /\ (\A i : After(i)' = After(i))
      /\ (ExactlyWhatWasSent <=> ExactlyWhatWasSent')
  BY <1>2, SamePlace
<1>4. InRequest => InRequest'
  BY <1>1, <1>2, <1>3, Zenon DEF InRequest, HasRead, NextField
<1>5. InRest => InRest'
  BY <1>1, <1>2, Zenon DEF InRest
<1>6. DiesOnlyOn => DiesOnlyOn'
  BY <1>2, <1>3, Zenon DEF DiesOnlyOn
<1> QED BY <1>2, <1>3, <1>4, <1>5, <1>6 DEF WireContent

\* A connection that is closed is closed.
LEMMA LeaveContent ==
    ASSUME WireContent, UNCHANGED <<session, answered>>, pc' = "closed"
    PROVE  WireContent'
<1>1. ExactlyWhatWasSent'
  BY SamePlace DEF WireContent
<1> QED BY <1>1 DEF WireContent, InRequest, InRest, DiesOnlyOn

\* At the start everything the client sent is ahead.
LEMMA ContentInit ==
    ASSUME Init
    PROVE  WireContent
<1> DEFINE s == session
           b == Bytes(session)
<1>1. s \in Sessions /\ wire = b /\ buf = <<>> /\ pc = "array" /\ answered = <<>>
  BY DEF Init
<1>2. Len(s.reqs) \in Nat /\ Len(answered) = 0 /\ DOMAIN answered = {}
  BY <1>1, SessionBytes
<1>3. 0 \in 0..Len(s.reqs) /\ Len(s.reqs) - 0 = Len(s.reqs) /\ 0 + 1 = 1
  BY <1>2
<1>4. b = LastRequests(s)[Len(s.reqs) - 0]
  BY <1>3 DEF Bytes
<1> HIDE DEF b
<1>5. /\ b \in Seq(Byte)
      /\ 0 = Len(s.reqs) => b = s.rest
      /\ 0 < Len(s.reqs) =>
            b = Request(s.style, s.reqs[0 + 1], LastRequests(s)[Len(s.reqs) - (0 + 1)])
  <2> HIDE DEF s
  <2> QED BY <1>1, <1>3, <1>4, BytesBehind
<1>6. Ahead = b
  BY <1>1, <1>5 DEF Ahead
<1>7. 0 < Len(session.reqs) => InRequest
  BY <1>1, <1>2, <1>3, <1>5, <1>6 DEF InRequest, LastRequest, Behind
<1>8. 0 = Len(session.reqs) => InRest
  BY <1>1, <1>5, <1>6 DEF InRest
<1> QED BY <1>1, <1>2, <1>7, <1>8 DEF WireContent, ExactlyWhatWasSent, DiesOnlyOn

-----------------------------------------------------------------------------
(* readArray *)

\* The reader takes a line: the rest of the stream comes behind it.
LEMMA LineTaken ==
    ASSUME WireTypes, HasLine, Consume, UNCHANGED wire,
           NEW t \in Byte, t # LF, NEW f \in Seq(Byte), OneLine(f),
           NEW y \in Seq(Byte), Incoming(t, f, y)
    PROVE  /\ TheLine \in Seq(Byte) /\ Len(TheLine) >= 3 /\ TheLine[1] = t /\ Body = f
           /\ Ahead' = y
<1>1. buf \in Seq(Byte) /\ wire \in Seq(Byte)
  BY Types
<1>2. /\ TheLine \in Seq(Byte) /\ Len(TheLine) >= 3 /\ TheLine[1] = t /\ Body = f
      /\ Left \in Seq(Byte) /\ Left \o wire = y
  BY <1>1, TakeTyped
<1>3. buf' = Left /\ wire' = wire
  BY DEF Consume, Left
<1> QED BY <1>2, <1>3 DEF Ahead

\* The same of a line with a length of one digit.
LEMMA LengthTaken ==
    ASSUME WireTypes, HasLine, Consume, UNCHANGED wire,
           NEW t \in {STAR, DOLLAR}, NEW n \in 0..9,
           NEW y \in Seq(Byte), Ahead = Line(<<t, 48 + n>>) \o y
    PROVE  /\ TheLine[1] = t /\ Len(TheLine) \in Nat /\ Len(TheLine) >= 3
           /\ AtoiFails(Body) <=> n > MaxInt
           /\ Atoi(Body) = n
           /\ Ahead' = y
<1> DEFINE f == <<48 + n>>
<1>1. t \in Byte /\ t # LF
  BY DEF Byte, STAR, DOLLAR, LF
<1>2. /\ f \in Seq(Byte) /\ Len(f) = 1 /\ f[1] # LF
      /\ AtoiFails(f) <=> n > MaxInt
      /\ Atoi(f) = n
  BY OneDigit
<1>3. <<t, 48 + n>> = <<t>> \o f
  BY <1>1, LengthLine
<1> HIDE DEF f
<1>4. OneLine(f)
  BY <1>2 DEF OneLine
<1>5. Incoming(t, f, y)
  BY <1>3 DEF Ahead, Incoming
<1>6. /\ TheLine \in Seq(Byte) /\ Len(TheLine) >= 3 /\ TheLine[1] = t /\ Body = f
      /\ Ahead' = y
  BY <1>1, <1>2, <1>4, <1>5, LineTaken
<1>7. Len(TheLine) \in Nat
  BY <1>6, LenProperties
<1> QED BY <1>2, <1>6, <1>7

\* The length of a request: its fields come next.
LEMMA ReadArrayInRequest ==
    ASSUME WireTypes, WireContent, readArray, Len(answered) < Len(session.reqs)
    PROVE  WireContent'
<1> DEFINE r == LastRequest
           n == Len(r)
           y == LastFields(session.style, r, Behind)[n]
<1>1. Behind \in Seq(Byte) /\ n \in 1..9 /\ FieldsInFront(session.style, r, Behind)
  BY Current
<1>2. /\ pc = "array" /\ HasLine /\ Consume /\ UNCHANGED <<session, wire, answered>>
      /\ InRequest
  BY DEF readArray, WireContent
<1>3. y \in Seq(Byte)
  BY <1>1 DEF FieldsInFront
<1>4. Ahead = Line(<<STAR, 48 + n>>) \o y
  BY <1>2 DEF InRequest, Request
<1>5. n \in 0..9 /\ STAR \in {STAR, DOLLAR}
  BY <1>1
<1>6. UNCHANGED wire
  BY <1>2
<1>14. y = LastFields(session.style, r, Behind)[n] /\ n = Len(LastRequest) /\ r = LastRequest
  OBVIOUS
<1> HIDE DEF r, n, y
<1>7. /\ TheLine[1] = STAR /\ Len(TheLine) \in Nat /\ Len(TheLine) >= 3
      /\ AtoiFails(Body) <=> n > MaxInt
      /\ Atoi(Body) = n
      /\ Ahead' = y
  BY <1>2, <1>3, <1>4, <1>5, <1>6, LengthTaken
<1>8. CASE n > MaxInt
  <2>1. BadLine({STAR})
    BY <1>7, <1>8 DEF BadLine
  <2>2. pc' = "closed"
    BY <2>1 DEF readArray, Leave
  <2> QED BY <1>2, <2>2, LeaveContent
<1>9. CASE ~ (n > MaxInt)
  <2>1. ~ BadLine({STAR})
    BY <1>7, <1>9 DEF BadLine
  <2>2. todo' = n /\ pc' = "field" /\ fields' = <<>>
    BY <1>5, <1>1, <1>7, <2>1 DEF readArray
  <2>3. LastRequest' = r /\ Behind' = Behind /\ (ExactlyWhatWasSent <=> ExactlyWhatWasSent')
    BY <1>2, <1>14, SamePlace
  <2>4. After(todo)' = y
    BY <1>2, <1>14, <2>2, <2>3 DEF After
  <2>5. HasRead(todo)'
    <3>1. Len(fields') = 0 /\ n - n = 0
      BY <1>1, <2>2
    <3> QED BY <1>14, <2>2, <2>3, <3>1 DEF HasRead
  <2>6. InRequest'
    BY <1>1, <1>7, <1>14, <2>2, <2>3, <2>4, <2>5 DEF InRequest
  <2> QED BY <1>2, <2>2, <2>3, <2>6 DEF WireContent, DiesOnlyOn
<1> QED BY <1>8, <1>9

\* A line taken from what is behind the requests, or from a part of it.
LEMMA RestLine ==
    ASSUME WireTypes, HasLine, Consume, UNCHANGED wire,
           NEW s \in Seq(Byte), NEW p \in 0..Len(s), Ahead = From(s, p)
    PROVE  \E h \in 1..Len(s) :
              /\ p < h /\ TheLine = Span(s, p, h) /\ Ahead' = From(s, h)
<1> DEFINE a == buf \o wire
           m == Len(TheLine)
           h == p + m
           n == Len(s)
           b == SubSeq(buf, m + 1, Len(buf))
<1>1. buf \in Seq(Byte) /\ wire \in Seq(Byte)
  BY Types
<1>2. a = buf \o wire /\ b = SubSeq(buf, Len(TheLine) + 1, Len(buf))
  OBVIOUS
<1>3. buf' = b /\ wire' = wire
  BY DEF Consume
<1>4. a = Span(s, p, n)
  BY DEF Ahead, From, Span
<1>5. Len(s) \in Nat /\ n = Len(s)
  BY LenProperties
<1> HIDE DEF a, b, n
<1>6. /\ TheLine \in Seq(Byte) /\ a \in Seq(Byte) /\ Len(TheLine) \in 1..Len(a)
      /\ TheLine = SubSeq(a, 1, Len(TheLine))
      /\ b \o wire = SubSeq(a, Len(TheLine) + 1, Len(a))
  BY <1>1, <1>2, TakeLine
<1>7. p \in Nat /\ n \in Nat /\ p <= n /\ n <= Len(s)
  BY <1>5
<1>8. PieceOf(Span(s, p, n), s, p, n)
  BY <1>7, SpanType
<1>9. Len(a) = n - p
  BY <1>4, <1>8 DEF PieceOf
<1>10. m \in Nat /\ 1 <= m /\ m <= n - p /\ 0 \in Nat /\ n - p \in Nat
  BY <1>6, <1>7, <1>9
<1>11. h \in 1..Len(s) /\ p < h /\ h = p + m
  BY <1>5, <1>7, <1>10
<1>12. p = p + 0 /\ n = p + (n - p) /\ 0 <= m /\ n - p <= n - p
  BY <1>5, <1>7, <1>10
<1>13. m = Len(TheLine)
  OBVIOUS
<1> HIDE DEF m, h
<1> DEFINE d == n - p
<1>14. d = n - p /\ d \in Nat /\ m <= d /\ d <= n - p /\ n = p + d
  BY <1>10, <1>12
<1> HIDE DEF d
<1>15. Span(Span(s, p, n), 0, m) = Span(s, p, h)
  BY <1>7, <1>10, <1>11, <1>12, SpanOfSpan
<1>16. Span(Span(s, p, n), m, d) = Span(s, h, n)
  BY <1>7, <1>10, <1>11, <1>14, SpanOfSpan
<1>17. TheLine = Span(s, p, h)
  <2>1. TheLine = SubSeq(a, 1, m)
    BY <1>6, <1>13, Zenon
  <2>2. Span(a, 0, m) = SubSeq(a, 1, m)
    BY DEF Span
  <2> QED BY <1>4, <1>15, <2>1, <2>2, Zenon
<1>18. b \o wire = From(s, h)
  <2>1. b \o wire = SubSeq(a, m + 1, d)
    BY <1>6, <1>9, <1>13, <1>14
  <2> QED BY <1>4, <1>5, <1>16, <2>1 DEF Span, From
<1>19. Ahead' = From(s, h)
  BY <1>3, <1>18 DEF Ahead
<1> QED BY <1>11, <1>17, <1>19

\* Behind the requests: no array, one without fields, or the first line of one.
LEMMA ReadArrayInRest ==
    ASSUME WireTypes, WireContent, readArray, Len(answered) = Len(session.reqs)
    PROVE  WireContent'
<1> DEFINE s == session.rest
<1>1. s \in Seq(Byte)
  BY Types, SessionRequests
<1>2. /\ pc = "array" /\ HasLine /\ Consume /\ UNCHANGED <<session, wire, answered>>
      /\ InRest
  BY DEF readArray, WireContent
<1>3. Ahead = s /\ UNCHANGED wire
  BY <1>2 DEF InRest
<1>4. Len(s) \in Nat /\ 0 \in 0..Len(s)
  BY <1>1, LenProperties
<1>5. s = From(s, 0)
  <2>1. SubSeq(s, 1, Len(s)) = s
    BY <1>1
  <2> QED BY <2>1 DEF From
<1>6. s = session.rest
  OBVIOUS
<1> HIDE DEF s
<1>7. PICK h \in 1..Len(s) : 0 < h /\ TheLine = Span(s, 0, h) /\ Ahead' = From(s, h)
  BY <1>1, <1>2, <1>3, <1>4, <1>5, RestLine
<1>8. CASE BadLine({STAR})
  <2>1. pc' = "closed"
    BY <1>8 DEF readArray, Leave
  <2> QED BY <1>2, <2>1, LeaveContent
<1>9. CASE ~ BadLine({STAR})
  <2>1. buf \in Seq(Byte) /\ wire \in Seq(Byte)
    BY Types
  <2>2. /\ IsLine(TheLine) /\ TheLine[1] \in {STAR} /\ Body = Inside(TheLine)
        /\ TheLine[1] \in {STAR, DOLLAR} =>
                  ~ AtoiFails(Body) /\ Atoi(Body) \in Int /\ Atoi(Body) <= MaxInt
    BY <1>2, <1>9, <2>1, GoodLine
  <2> DEFINE n == Atoi(Body)
  <2>3. TheLine = SubSeq(s, 1, h)
    BY <1>7 DEF Span
  <2>4. IsNumber(SubSeq(s, 1, h), STAR) /\ Atoi(Inside(SubSeq(s, 1, h))) = n /\ n \in Int
    BY <2>2, <2>3 DEF IsNumber
  <2>5. /\ todo' = IF n > 0 THEN n ELSE 0
        /\ pc' = IF n > 0 THEN "field" ELSE "dispatch"
        /\ fields' = <<>>
    BY <1>9 DEF readArray
  <2> HIDE DEF n
  <2>6. CASE n > 0
    <3>1. CutsTo(s, n, 0, h)
      BY <1>1, <2>4, NoCuts
    <3>2. fields' = <<>> /\ todo' = n /\ pc' = "field" /\ Len(fields') + todo' = n
          /\ Len(fields') = 0
      BY <2>4, <2>5, <2>6
    <3>3. h \in 0..Len(s)
      BY <1>4
    <3>4. session'.rest = s
      BY <1>2, <1>6
    <3>5. InRest'
      BY <1>7, <3>1, <3>2, <3>3, <3>4 DEF InRest
    <3>6. ExactlyWhatWasSent'
      BY <1>2, SamePlace DEF WireContent
    <3> QED BY <1>2, <3>2, <3>5, <3>6 DEF WireContent, DiesOnlyOn
  <2>7. CASE ~ (n > 0)
    <3>1. n <= 0
      BY <2>4, <2>7
    <3>2. NoFields(s)
      BY <2>4, <3>1 DEF NoFields
    <3>3. fields' = <<>> /\ pc' = "dispatch"
      BY <2>5, <2>7
    <3>4. session'.rest = s
      BY <1>2, <1>6
    <3>5. InRest'
      BY <3>2, <3>3, <3>4 DEF InRest
    <3>6. ExactlyWhatWasSent'
      BY <1>2, SamePlace DEF WireContent
    <3> QED BY <1>2, <3>3, <3>5, <3>6 DEF WireContent, DiesOnlyOn
  <2> QED BY <2>6, <2>7
<1> QED BY <1>8, <1>9

-----------------------------------------------------------------------------
(* readString *)

\* The field that is read next, and the stream before and behind it.
LEMMA FieldAhead ==
    ASSUME WireTypes, Len(answered) < Len(session.reqs), todo \in 1..Len(LastRequest)
    PROVE  /\ Sendable(session.style, NextField) /\ NextField \in Seq(Byte)
           /\ Len(NextField) \in 0..9 /\ Len(LastRequest) \in Nat
           /\ \E i \in DOMAIN LastRequest : LastRequest[i] = NextField
           /\ After(todo) \in Seq(Byte) /\ After(todo - 1) \in Seq(Byte)
           /\ After(0) = Behind
           /\ After(todo) = Field(session.style, NextField) \o After(todo - 1)
<1> DEFINE r == LastRequest
           n == Len(r)
           i == n + 1 - todo
<1>1. /\ SendableRequest(session.style, r) /\ n \in 1..9
      /\ FieldsInFront(session.style, r, Behind)
  BY Current
<1>2. i \in 1..n /\ todo \in 1..n /\ todo - 1 \in 0..n /\ todo \in 0..n
  BY <1>1
<1>3. r[i] = NextField
  BY DEF NextField
<1>4. Sendable(session.style, r[i]) /\ r \in Seq(Seq(Byte))
  BY <1>1, <1>2 DEF SendableRequest
<1>5. NextField \in Seq(Byte) /\ Len(NextField) <= 9
  BY <1>3, <1>4 DEF Sendable
<1>6. Len(NextField) \in 0..9
  <2>1. Len(NextField) \in Nat
    BY <1>5, LenProperties
  <2>2. \A x \in Nat : x <= 9 => x \in 0..9
    OBVIOUS
  <2> QED BY <1>5, <2>1, <2>2, Zenon
<1>7. i \in DOMAIN r
  BY <1>2, <1>4, LenProperties
<1>8. /\ \A j \in 0..n : After(j) \in Seq(Byte)
      /\ After(0) = Behind
      /\ \A j \in 1..n : After(j) = Field(session.style, r[n + 1 - j]) \o After(j - 1)
  BY <1>1 DEF FieldsInFront, After
<1>9. After(todo) = Field(session.style, r[i]) \o After(todo - 1)
  BY <1>2, <1>8
<1>10. \E j \in DOMAIN LastRequest : LastRequest[j] = NextField
  BY <1>3, <1>7
<1>11. Len(LastRequest) \in Nat /\ Sendable(session.style, NextField)
  BY <1>1, <1>3, <1>4
<1>12. After(todo) \in Seq(Byte) /\ After(todo - 1) \in Seq(Byte) /\ After(0) = Behind
  BY <1>2, <1>8
<1>13. After(todo) = Field(session.style, NextField) \o After(todo - 1)
  BY <1>3, <1>9
<1> QED BY <1>5, <1>6, <1>10, <1>11, <1>12, <1>13, Zenon

\* One more field of a request has been read.
LEMMA AddInRequest ==
    ASSUME WireTypes, WireContent, Len(answered) < Len(session.reqs),
           todo \in 1..Len(LastRequest), HasRead(todo), Add(NextField),
           UNCHANGED <<session, answered>>, Ahead' = After(todo - 1)
    PROVE  WireContent'
<1> DEFINE r == LastRequest
           n == Len(r)
           f == NextField
<1>1. /\ f \in Seq(Byte) /\ n \in Nat /\ After(0) = Behind
  BY FieldAhead
<1>2. fields \in Seq(Seq(Byte)) /\ Len(fields) \in Nat /\ todo \in 1..n
  BY Types
<1>3. /\ Len(fields) = n - todo
      /\ \A j \in 1..Len(fields) : fields[j] = r[j]
  BY DEF HasRead
<1>4. f = r[n + 1 - todo]
  BY DEF NextField
<1>5. /\ fields' = Append(fields, f) /\ todo' = todo - 1
      /\ pc' = IF todo > 1 THEN "field" ELSE "dispatch"
  BY DEF Add
<1>6. r = LastRequest /\ n = Len(r)
  OBVIOUS
<1>7. r \in Seq(Seq(Byte))
  BY Current DEF SendableRequest
<1> HIDE DEF r, n, f
<1> DEFINE g == Append(fields, f)
<1>8. /\ g \in Seq(Seq(Byte)) /\ Len(g) = Len(fields) + 1
      /\ g[Len(fields) + 1] = f /\ \A j \in 1..Len(fields) : g[j] = fields[j]
  BY <1>1, <1>2, AppendProperties
<1>9. Len(fields) + 1 = n + 1 - todo
  BY <1>1, <1>2, <1>3
<1>10. fields' = g
  BY <1>5
<1> HIDE DEF g
<1>11. \A j \in 1..Len(g) : g[j] = r[j]
  <2> SUFFICES ASSUME NEW j \in 1..Len(g) PROVE g[j] = r[j]
    OBVIOUS
  <2>1. CASE j = Len(fields) + 1
    BY <1>4, <1>8, <1>9, <2>1
  <2>2. CASE j \in 1..Len(fields)
    BY <1>3, <1>8, <2>2
  <2> QED BY <1>2, <1>8, <2>1, <2>2
<1>12. /\ LastRequest' = r /\ Behind' = Behind /\ (\A i : After(i)' = After(i))
       /\ (ExactlyWhatWasSent <=> ExactlyWhatWasSent')
  BY <1>6, SamePlace
<1>13. ExactlyWhatWasSent' /\ UNCHANGED <<session, answered>>
  BY <1>12 DEF WireContent
<1>14. After(todo)' = After(todo - 1)
  BY <1>5, <1>12 DEF After
<1>15. CASE todo > 1
  <2>1. todo' \in 1..n /\ pc' = "field" /\ Len(g) = n - (todo - 1)
    BY <1>1, <1>2, <1>5, <1>8, <1>9, <1>15
  <2>2. HasRead(todo)'
    BY <1>5, <1>6, <1>10, <1>11, <1>12, <2>1 DEF HasRead
  <2>3. InRequest'
    BY <1>6, <1>12, <1>14, <2>1, <2>2 DEF InRequest
  <2> QED BY <1>13, <2>1, <2>3 DEF WireContent, DiesOnlyOn
<1>16. CASE todo = 1
  <2>1. pc' = "dispatch" /\ Len(g) = Len(r) /\ todo - 1 = 0
    BY <1>1, <1>2, <1>5, <1>6, <1>8, <1>9, <1>16
  <2>2. g = r
    BY <1>7, <1>8, <1>11, <2>1, SeqEqual
  <2>3. Ahead' = Behind
    BY <1>1, <2>1
  <2>4. InRequest'
    BY <1>10, <1>12, <2>1, <2>2, <2>3 DEF InRequest
  <2> QED BY <1>13, <2>1, <2>4 DEF WireContent, DiesOnlyOn
<1> QED BY <1>2, <1>15, <1>16

\* One more field has been read of what is no request: there must be another.
LEMMA AddInRest ==
    ASSUME WireTypes, WireContent, Len(answered) = Len(session.reqs), todo > 0,
           NEW f \in Seq(Byte), Add(f), UNCHANGED <<session, answered>>,
           NEW p \in 0..Len(session.rest), NEW q \in 0..Len(session.rest),
           CutsTo(session.rest, Len(fields) + todo, Len(fields), p),
           IsField(Span(session.rest, p, q)), Ahead' = From(session.rest, q)
    PROVE  WireContent'
<1> DEFINE s == session.rest
           n == Len(fields) + todo
           m == Len(fields)
           k == m + 1
<1>1. s \in Seq(Byte) /\ ~ BeginsWithRequest(s)
  BY Types, SessionRequests
<1>2. fields \in Seq(Seq(Byte)) /\ m \in Nat /\ todo \in Nat /\ k = m + 1
  BY Types
<1>3. n \in Nat /\ n > 0
  BY <1>2
<1>4. /\ fields' = Append(fields, f) /\ todo' = todo - 1
      /\ pc' = IF todo > 1 THEN "field" ELSE "dispatch"
  BY DEF Add
<1>5. CutsTo(s, n, m, p) /\ IsField(Span(s, p, q)) /\ p \in 0..Len(s) /\ q \in 0..Len(s)
  OBVIOUS
<1>6. s = session.rest /\ n = m + todo /\ m = Len(fields) /\ Ahead' = From(s, q)
  OBVIOUS
<1> HIDE DEF s, n, m, k
<1>7. CutsTo(s, n, k, q)
  BY <1>1, <1>2, <1>5, MoreCuts
<1>8. todo > 1
  <2> SUFFICES ASSUME todo = 1 PROVE FALSE
    BY <1>2
  <2>1. k = n
    BY <1>2, <1>6
  <2>2. CutsTo(s, n, n, q)
    BY <1>7, <2>1
  <2>3. BeginsWithRequest(s)
    BY <1>1, <1>3, <2>2, AllCuts
  <2> QED BY <1>1, <2>3
<1> DEFINE g == Append(fields, f)
<1>9. Len(g) = Len(fields) + 1
  BY <1>2, AppendProperties
<1>10. fields' = g
  BY <1>4
<1> HIDE DEF g
<1>11. pc' = "field" /\ Len(fields') = k /\ Len(fields') + todo' = n
  <2>1. pc' = "field" /\ todo' = todo - 1
    BY <1>4, <1>8
  <2>2. Len(g) = k
    BY <1>2, <1>6, <1>9
  <2>3. k + (todo - 1) = n
    BY <1>2, <1>6
  <2> QED BY <1>10, <2>1, <2>2, <2>3, Zenon
<1>12. session'.rest = s
  BY <1>6
<1>13. InRest'
  BY <1>5, <1>6, <1>7, <1>11, <1>12 DEF InRest
<1>14. ExactlyWhatWasSent'
  BY SamePlace DEF WireContent
<1> QED BY <1>11, <1>13, <1>14 DEF WireContent, DiesOnlyOn

\* The header of a bulk string.
LEMMA ReadHeader ==
    ASSUME WireTypes, WireContent, readString, Len(answered) < Len(session.reqs),
           session.style = "bulk"
    PROVE  WireContent'
<1> DEFINE f == NextField
           n == Len(f)
           z == After(todo - 1)
           y == Line(f) \o z
           types == {PLUS, MINUS, COLON, DOLLAR}
<1>1. /\ pc = "field" /\ HasLine /\ Consume /\ UNCHANGED <<session, wire, answered>>
      /\ InRequest /\ UNCHANGED wire
  BY DEF readString, WireContent
<1>2. todo \in 1..Len(LastRequest) /\ HasRead(todo) /\ Ahead = After(todo)
  BY <1>1 DEF InRequest
<1>3. /\ Sendable(session.style, f) /\ f \in Seq(Byte) /\ n \in 0..9
      /\ (\E i \in DOMAIN LastRequest : LastRequest[i] = f)
      /\ z \in Seq(Byte)
      /\ After(todo) = Field(session.style, f) \o z
  BY <1>2, FieldAhead
<1>4. Line(f) \in Seq(Byte) /\ y \in Seq(Byte)
  <2>1. Line(f) \in Seq(Byte)
    BY <1>3, FieldBytes
  <2> QED BY <1>3, <2>1, ConcatProperties
<1> DEFINE l == Line(<<DOLLAR, 48 + n>>)
<1>5. l \in Seq(Byte)
  <2>1. DOLLAR \in Byte /\ DOLLAR # LF
    BY DEF DOLLAR, LF, Byte
  <2> HIDE DEF n
  <2> QED BY <1>3, <2>1, LengthLine
<1>6. Ahead = l \o y
  <2>1. Ahead = (l \o Line(f)) \o z
    BY <1>2, <1>3 DEF Field
  <2> DEFINE k == Line(f)
  <2>2. Ahead = (l \o k) \o z /\ y = k \o z
    BY <2>1
  <2>4. k \in Seq(Byte) /\ z \in Seq(Byte) /\ l \in Seq(Byte)
    BY <1>3, <1>4, <1>5
  <2> HIDE DEF l, f, y, z, k
  <2>3. (l \o k) \o z = l \o (k \o z)
    BY <2>4, ConcatAssociative
  <2> QED BY <2>2, <2>3, Zenon
<1>7. n = Len(f) /\ f = NextField /\ z = After(todo - 1) /\ y = Line(f) \o z
      /\ l = Line(<<DOLLAR, 48 + n>>) /\ DOLLAR \in {STAR, DOLLAR}
      /\ DOLLAR # STAR /\ DOLLAR \in types
  BY DEF STAR, DOLLAR
<1> HIDE DEF n, y, l, f, z, types
<1>8. /\ TheLine[1] = DOLLAR /\ Len(TheLine) \in Nat /\ Len(TheLine) >= 3
      /\ AtoiFails(Body) <=> n > MaxInt
      /\ Atoi(Body) = n
      /\ Ahead' = y
  BY <1>1, <1>3, <1>4, <1>6, <1>7, LengthTaken
<1>9. CASE n > MaxInt
  <2>1. BadLine(types)
    BY <1>7, <1>8, <1>9 DEF BadLine
  <2>2. pc' = "closed"
    BY <2>1 DEF readString, Leave, types
  <2> QED BY <1>1, <2>2, LeaveContent
<1>10. CASE ~ (n > MaxInt)
  <2>1. ~ BadLine(types)
    BY <1>7, <1>8, <1>10 DEF BadLine
  <2>2. ~ (n < 0)
    BY <1>3
  <2>3. IF makePanics(n) THEN Panic
        ELSE need' = n + 2 /\ got' = <<>> /\ pc' = "bulk" /\ UNCHANGED <<eof, todo, fields>>
    BY <1>8, <2>1, <2>2 DEF readString, types
  <2>4. /\ LastRequest' = LastRequest /\ Behind' = Behind /\ (\A i : After(i)' = After(i))
        /\ (ExactlyWhatWasSent <=> ExactlyWhatWasSent')
    BY <1>1, SamePlace
  <2>5. CASE makePanics(n)
    <3>1. pc' = "dead"
      BY <2>3, <2>5 DEF Panic
    <3>2. \E i \in DOMAIN LastRequest : makePanics(Len(LastRequest[i]))
      BY <1>3, <1>7, <2>5
    <3>3. Len(answered) # Len(session.reqs)
      BY Types
    <3>4. DiesOnlyOn'
      BY <1>1, <2>4, <3>2, <3>3, Zenon DEF DiesOnlyOn
    <3>5. InRequest'
      BY <3>1 DEF InRequest
    <3> QED BY <1>1, <2>4, <3>3, <3>4, <3>5 DEF WireContent
  <2>6. CASE ~ makePanics(n)
    <3>1. need' = n + 2 /\ got' = <<>> /\ pc' = "bulk" /\ UNCHANGED <<todo, fields>>
      BY <2>3, <2>6
    <3>2. HasRead(todo)'
      BY <1>2, <2>4, <3>1 DEF HasRead
    <3>3. NextField' = f
      BY <1>7, <2>4, <3>1 DEF NextField
    <3>4. After(todo - 1)' = z
      BY <1>7, <2>4, <3>1 DEF After
    <3>5. got' \o Ahead' = y
      BY <1>4, <1>8, <3>1
    <3>6. InRequest'
      BY <1>2, <1>7, <2>4, <3>1, <3>2, <3>3, <3>4, <3>5 DEF InRequest
    <3> QED BY <1>1, <2>4, <3>1, <3>6 DEF WireContent, DiesOnlyOn
  <2> QED BY <2>5, <2>6
<1> QED BY <1>9, <1>10

\* A field that is sent as a line.
LEMMA ReadSimple ==
    ASSUME WireTypes, WireContent, readString, Len(answered) < Len(session.reqs),
           session.style # "bulk"
    PROVE  WireContent'
<1> DEFINE f == NextField
           z == After(todo - 1)
           types == {PLUS, MINUS, COLON, DOLLAR}
<1>1. /\ pc = "field" /\ HasLine /\ Consume /\ UNCHANGED <<session, wire, answered>>
      /\ InRequest /\ UNCHANGED wire
  BY DEF readString, WireContent
<1>2. todo \in 1..Len(LastRequest) /\ HasRead(todo) /\ Ahead = After(todo)
  BY <1>1 DEF InRequest
<1>3. /\ Sendable(session.style, f) /\ f \in Seq(Byte)
      /\ z \in Seq(Byte)
      /\ After(todo) = Field(session.style, f) \o z
  BY <1>2, FieldAhead
<1>4. OneLine(f)
  BY <1>3 DEF Sendable, OneLine
<1>5. Incoming(PLUS, f, z)
  BY <1>2, <1>3 DEF Incoming, Field, Ahead
<1>6. PLUS \in Byte /\ PLUS # LF /\ PLUS \notin {STAR, DOLLAR} /\ PLUS \in types
  BY DEF PLUS, LF, STAR, DOLLAR, Byte
<1>7. f = NextField /\ z = After(todo - 1)
  OBVIOUS
<1> HIDE DEF f, z, types
<1>8. /\ TheLine \in Seq(Byte) /\ Len(TheLine) >= 3 /\ TheLine[1] = PLUS /\ Body = f
      /\ Ahead' = z
  BY <1>1, <1>3, <1>4, <1>5, <1>6, LineTaken
<1>9. ~ BadLine(types)
  <2>1. Len(TheLine) \in Nat
    BY <1>8, LenProperties
  <2> QED BY <1>6, <1>8, <2>1 DEF BadLine
<1>10. Add(f)
  BY <1>6, <1>8, <1>9 DEF readString, types
<1>11. Add(NextField) /\ Ahead' = After(todo - 1) /\ UNCHANGED <<session, answered>>
  BY <1>1, <1>7, <1>8, <1>10
<1> QED BY <1>2, <1>11, AddInRequest

\* A line that is no bulk string's, and the header of a nil string, is a field.
LEMMA LineIsField ==
    ASSUME NEW t \in Seq(Byte), IsLine(t),
           \/ t[1] \in {PLUS, MINUS, COLON}
           \/ IsNumber(t, DOLLAR) /\ Atoi(Inside(t)) < 0
    PROVE  IsField(t)
<1> DEFINE h == Len(t)
<1>1. h \in Nat /\ h >= 3
  BY LenProperties DEF IsLine
<1>2. h \in 1..Len(t) /\ Len(t) = h /\ h + 0 = h
  BY <1>1
<1>3. SubSeq(t, 1, h) = t
  BY <1>1
<1> HIDE DEF h
<1>4. CASE t[1] \in {PLUS, MINUS, COLON}
  BY <1>2, <1>3, <1>4, Zenon DEF IsField
<1>5. CASE IsNumber(t, DOLLAR) /\ Atoi(Inside(t)) < 0
  <2>1. Len(t) = h + IF Atoi(Inside(t)) < 0 THEN 0 ELSE Atoi(Inside(t)) + 2
    BY <1>2, <1>5
  <2> QED BY <1>2, <1>3, <1>5, <2>1, Zenon DEF IsField
<1> QED BY <1>4, <1>5

\* The header of a bulk string and what it announces is a field.
LEMMA BulkIsField ==
    ASSUME NEW s \in Seq(Byte), NEW p \in Nat, NEW e \in Nat, NEW q \in Nat,
           p < e, e <= q, q <= Len(s), NEW n \in Nat, q = e + n, n >= 2,
           IsNumber(Span(s, p, e), DOLLAR), Atoi(Inside(Span(s, p, e))) = n - 2
    PROVE  IsField(Span(s, p, q))
<1> DEFINE t == Span(s, p, q)
           h == e - p
<1>1. t \in Seq(Byte) /\ PieceOf(t, s, p, q)
  BY SpanType
<1>2. Len(t) = q - p
  BY <1>1 DEF PieceOf
<1>3. h \in Nat /\ h \in 1..(q - p) /\ q - p = h + n /\ 0 <= h /\ h <= q - p
      /\ p = p + 0 /\ e = p + h /\ p <= q
  OBVIOUS
<1>4. t = Span(s, p, q)
  OBVIOUS
<1> HIDE DEF h
<1>5. Span(Span(s, p, q), 0, h) = Span(s, p, e)
  BY <1>3, SpanOfSpan
<1> HIDE DEF t
<1>6. SubSeq(t, 1, h) = Span(s, p, e)
  <2>1. Span(t, 0, h) = SubSeq(t, 1, h)
    BY DEF Span
  <2> QED BY <1>4, <1>5, <2>1, Zenon
<1> DEFINE l == SubSeq(t, 1, h)
<1>7. IsNumber(l, DOLLAR) /\ Atoi(Inside(l)) = n - 2
  BY <1>6
<1> HIDE DEF l
<1>8. Len(t) = h + (IF Atoi(Inside(l)) < 0 THEN 0 ELSE Atoi(Inside(l)) + 2)
  <2>1. Atoi(Inside(l)) = n - 2
    BY <1>7
  <2>2. ~ (n - 2 < 0) /\ n - 2 + 2 = n
    OBVIOUS
  <2> QED BY <1>2, <1>3, <2>1, <2>2
<1>9. h \in 1..Len(t)
  BY <1>2, <1>3
<1> QED BY <1>4, <1>7, <1>8, <1>9, Zenon DEF IsField, l

\* A line behind the requests: a field, or the header of one.
LEMMA ReadStringInRest ==
    ASSUME WireTypes, WireContent, readString, Len(answered) = Len(session.reqs)
    PROVE  WireContent'
<1> DEFINE s == session.rest
           types == {PLUS, MINUS, COLON, DOLLAR}
           n == Len(fields) + todo
<1>1. s \in Seq(Byte)
  BY Types, SessionRequests
<1>2. /\ pc = "field" /\ HasLine /\ Consume /\ UNCHANGED <<session, wire, answered>>
      /\ InRest /\ UNCHANGED wire
  BY DEF readString, WireContent
<1>3. PICK p \in 0..Len(s) : CutsTo(s, n, Len(fields), p) /\ Ahead = From(s, p)
  BY <1>2 DEF InRest
<1>4. Len(s) \in Nat /\ todo > 0 /\ fields \in Seq(Seq(Byte))
      /\ buf \in Seq(Byte) /\ wire \in Seq(Byte)
  BY <1>1, <1>2, LenProperties, Types DEF WireTypes, TypeOK
<1>5. s = session.rest /\ n = Len(fields) + todo
  OBVIOUS
<1> HIDE DEF s, n, types
<1>6. PICK h \in 1..Len(s) : p < h /\ TheLine = Span(s, p, h) /\ Ahead' = From(s, h)
  BY <1>1, <1>2, <1>3, RestLine
<1>7. CASE BadLine(types)
  <2>1. pc' = "closed"
    BY <1>7 DEF readString, Leave, types
  <2> QED BY <1>2, <2>1, LeaveContent
<1>8. CASE ~ BadLine(types)
  <2> DEFINE t == TheLine
             m == Atoi(Body)
  <2>1. /\ t \in Seq(Byte) /\ IsLine(t)
        /\ t[1] \in types /\ Body \in Seq(Byte) /\ Body = Inside(t)
        /\ t[1] \in {STAR, DOLLAR} =>
                  ~ AtoiFails(Body) /\ Atoi(Body) \in Int /\ Atoi(Body) <= MaxInt
    BY <1>2, <1>4, <1>8, GoodLine
  <2>2. t = TheLine /\ m = Atoi(Body) /\ t = Span(s, p, h)
    BY <1>6
  <2>3. h \in 0..Len(s)
    BY <1>4
  <2>4. IF TheLine[1] # DOLLAR THEN Add(Body) /\ UNCHANGED <<eof, need, got>>
        ELSE IF m < 0 THEN Add(<< >>) /\ UNCHANGED <<eof, need, got>>
        ELSE IF makePanics(m) THEN Panic
        ELSE need' = m + 2 /\ got' = << >> /\ pc' = "bulk" /\ UNCHANGED <<eof, todo, fields>>
    BY <1>8 DEF readString, types
  <2> HIDE DEF t, m
  <2>5. ASSUME NEW f \in Seq(Byte), Add(f), IsField(t) PROVE WireContent'
    <3>1. IsField(Span(session.rest, p, h)) /\ Ahead' = From(session.rest, h)
          /\ CutsTo(session.rest, Len(fields) + todo, Len(fields), p)
          /\ p \in 0..Len(session.rest) /\ h \in 0..Len(session.rest)
      BY <1>3, <1>5, <1>6, <2>2, <2>3, <2>5
    <3>2. UNCHANGED <<session, answered>>
      BY <1>2
    <3> QED BY <1>4, <2>5, <3>1, <3>2, AddInRest
  <2>6. CASE t[1] # DOLLAR
    <3>1. t[1] \in {PLUS, MINUS, COLON}
      BY <2>1, <2>6 DEF types
    <3>2. IsField(t)
      BY <2>1, <3>1, LineIsField
    <3>3. Add(Body)
      BY <2>2, <2>4, <2>6
    <3> QED BY <2>1, <2>5, <3>2, <3>3
  <2>7. CASE t[1] = DOLLAR
    <3>1. IsNumber(t, DOLLAR) /\ Atoi(Inside(t)) = m /\ m \in Int
      BY <2>1, <2>2, <2>7 DEF IsNumber
    <3>2. CASE m < 0
      <4>1. IsField(t)
        BY <2>1, <3>1, <3>2, LineIsField
      <4>2. Add(<<>>) /\ <<>> \in Seq(Byte)
        BY <2>2, <2>4, <2>7, <3>2
      <4> QED BY <2>5, <4>1, <4>2
    <3>3. CASE ~ (m < 0) /\ makePanics(m)
      <4>1. pc' = "dead"
        BY <2>2, <2>4, <2>7, <3>3 DEF Panic
      <4> DEFINE i == p + 1
      <4>2. i \in 1..Len(s) /\ SubSeq(s, i, h) = t
        BY <1>4, <1>6, <2>2 DEF Span
      <4> HIDE DEF i
      <4>3. TooLong(s)
        BY <3>1, <3>3, <4>2, Zenon DEF TooLong
      <4>4. DiesOnlyOn'
        BY <1>2, <1>5, <4>3, Zenon DEF DiesOnlyOn
      <4>5. InRest' /\ ExactlyWhatWasSent'
        BY <1>2, <4>1, SamePlace DEF InRest, WireContent
      <4> QED BY <1>2, <4>4, <4>5 DEF WireContent
    <3>4. CASE ~ (m < 0) /\ ~ makePanics(m)
      <4>1. need' = m + 2 /\ got' = << >> /\ pc' = "bulk" /\ UNCHANGED <<todo, fields>>
        BY <2>2, <2>4, <2>7, <3>4
      <4>2. need' >= 2 /\ m = need' - 2
        BY <3>1, <3>4, <4>1
      <4>3. From(s, h) \in Seq(Byte)
        BY <1>1, <1>4, SpanSplit
      <4>4. got' \o Ahead' = From(s, h)
        BY <1>6, <4>1, <4>3
      <4>5. session'.rest = s /\ Len(fields') + todo' = n /\ Len(fields') = Len(fields)
        BY <1>2, <1>5, <4>1
      <4>6. IsNumber(Span(s, p, h), DOLLAR) /\ Atoi(Inside(Span(s, p, h))) = need' - 2
        BY <2>2, <3>1, <4>2
      <4>7. InRest'
        BY <1>3, <1>6, <4>1, <4>2, <4>4, <4>5, <4>6, Zenon DEF InRest
      <4>8. ExactlyWhatWasSent'
        BY <1>2, SamePlace DEF WireContent
      <4> QED BY <1>2, <4>1, <4>7, <4>8 DEF WireContent, DiesOnlyOn
    <3> QED BY <3>2, <3>3, <3>4
  <2> QED BY <2>6, <2>7
<1> QED BY <1>7, <1>8

-----------------------------------------------------------------------------
(* readBulk *)

\* What a Read leaves in got, and what it does besides.
LEMMA BulkRead ==
    ASSUME WireTypes, readBulk
    PROVE  /\ got' \in Seq(Byte) /\ Len(got') <= need /\ Len(got') \in Nat
           /\ Ahead' \in Seq(Byte)
           /\ got' \o Ahead' = got \o Ahead
           /\ IF Len(got') = need THEN Add(SubSeq(got', 1, need - 2))
              ELSE UNCHANGED <<pc, todo, fields>>
<1> DEFINE n == Least(need - Len(got), Len(buf))
           all == got \o SubSeq(buf, 1, n)
           b == SubSeq(buf, n + 1, Len(buf))
<1>1. /\ buf \in Seq(Byte) /\ wire \in Seq(Byte) /\ got \in Seq(Byte) /\ need \in Nat
  BY Types
<1>2. pc = "bulk" /\ buf # <<>> /\ UNCHANGED <<session, wire, eof, need, answered>>
  BY DEF readBulk
<1>3. Len(got) < need
  BY <1>2 DEF WireTypes
<1>4. /\ buf' = b /\ got' = all
      /\ IF Len(all) = need THEN Add(SubSeq(all, 1, need - 2))
         ELSE UNCHANGED <<pc, todo, fields>>
  BY DEF readBulk
<1>5. n = Least(need - Len(got), Len(buf)) /\ all = got \o SubSeq(buf, 1, n)
      /\ b = SubSeq(buf, n + 1, Len(buf))
  OBVIOUS
<1> HIDE DEF n, all, b
<1>6. /\ all \in Seq(Byte) /\ b \in Seq(Byte)
      /\ Len(all) \in (Len(got) + 1)..need
      /\ Kept(all, b, wire, got, buf)
  BY <1>1, <1>2, <1>3, <1>5, OneRead
<1>7. all \o (b \o wire) = got \o (buf \o wire)
  BY <1>6 DEF Kept
<1>8. Ahead' = b \o wire /\ Ahead = buf \o wire
  BY <1>2, <1>4 DEF Ahead
<1>9. Ahead' \in Seq(Byte)
  BY <1>1, <1>6, <1>8, ConcatProperties
<1>10. Len(all) \in Nat
  BY <1>6, LenProperties
<1>11. Len(all) <= need
  BY <1>1, <1>6
<1>12. got' \o Ahead' = got \o Ahead
  BY <1>4, <1>7, <1>8, Zenon
<1> QED BY <1>4, <1>6, <1>9, <1>10, <1>11, <1>12, Zenon

\* The bytes of a bulk string, and of the two behind it.
LEMMA ReadBulkInRequest ==
    ASSUME WireTypes, WireContent, readBulk, Len(answered) < Len(session.reqs)
    PROVE  WireContent'
<1> DEFINE f == NextField
           z == After(todo - 1)
           all == got'
           y == Ahead'
<1>1. pc = "bulk" /\ UNCHANGED <<session, wire, eof, need, answered>> /\ InRequest
  BY DEF readBulk, WireContent
<1>2. /\ todo \in 1..Len(LastRequest) /\ HasRead(todo)
      /\ need = Len(f) + 2
      /\ got \o Ahead = Line(f) \o z
  BY <1>1 DEF InRequest
<1>3. f \in Seq(Byte) /\ z \in Seq(Byte)
  BY <1>2, FieldAhead
<1>4. /\ all \in Seq(Byte) /\ Len(all) <= need /\ Len(all) \in Nat
      /\ y \in Seq(Byte)
      /\ all \o y = got \o Ahead
      /\ IF Len(all) = need THEN Add(SubSeq(all, 1, need - 2))
         ELSE UNCHANGED <<pc, todo, fields>>
  BY BulkRead
<1>5. all \o y = Line(f) \o z
  BY <1>2, <1>4
<1>6. f = NextField /\ z = After(todo - 1) /\ all = got' /\ y = Ahead'
  OBVIOUS
<1> HIDE DEF f, z, all, y
<1>7. CASE Len(all) = need
  <2>1. Len(all) = Len(f) + 2
    BY <1>2, <1>7
  <2>2. SubSeq(all, 1, Len(f)) = f /\ y = z
    <3>1. all \in Seq(Byte) /\ y \in Seq(Byte)
      BY <1>4
    <3>2. InFront(all, y, f, z) /\ Complete(all, f)
      BY <1>5, <2>1 DEF InFront, Complete
    <3> QED BY <1>3, <3>1, <3>2, WholeBulk
  <2>3. need - 2 = Len(f)
    BY <1>2, <1>3, LenProperties
  <2>4. Add(NextField) /\ Ahead' = After(todo - 1)
    BY <1>4, <1>6, <1>7, <2>2, <2>3
  <2>5. UNCHANGED <<session, answered>>
    BY <1>1
  <2> QED BY <1>2, <2>4, <2>5, AddInRequest
<1>8. CASE Len(all) # need
  <2>1. UNCHANGED <<pc, todo, fields, need>>
    BY <1>1, <1>4, <1>8
  <2>4. /\ LastRequest' = LastRequest /\ Behind' = Behind /\ (\A i : After(i)' = After(i))
        /\ (ExactlyWhatWasSent <=> ExactlyWhatWasSent')
    BY <1>1, SamePlace
  <2>5. HasRead(todo)'
    BY <1>2, <2>1, <2>4 DEF HasRead
  <2>6. NextField' = f
    BY <1>6, <2>1, <2>4 DEF NextField
  <2>7. After(todo - 1)' = z
    BY <1>6, <2>1, <2>4 DEF After
  <2>8. InRequest'
    BY <1>1, <1>2, <1>5, <1>6, <2>1, <2>4, <2>5, <2>6, <2>7 DEF InRequest
  <2> QED BY <1>1, <2>1, <2>4, <2>8 DEF WireContent, DiesOnlyOn
<1> QED BY <1>7, <1>8

\* The same behind the requests: the field is complete, the request is not.
LEMMA ReadBulkInRest ==
    ASSUME WireTypes, WireContent, readBulk, Len(answered) = Len(session.reqs)
    PROVE  WireContent'
<1> DEFINE s == session.rest
           n == Len(fields) + todo
           all == got'
           y == Ahead'
<1>1. s \in Seq(Byte)
  BY Types, SessionRequests
<1>2. pc = "bulk" /\ UNCHANGED <<session, wire, eof, need, answered>> /\ InRest
  BY DEF readBulk, WireContent
<1>3. PICK p \in 0..Len(s), e \in 1..Len(s) :
         /\ CutsTo(s, n, Len(fields), p) /\ p < e
         /\ IsNumber(Span(s, p, e), DOLLAR)
         /\ Atoi(Inside(Span(s, p, e))) = need - 2 /\ need >= 2
         /\ got \o Ahead = From(s, e)
  BY <1>2 DEF InRest
<1>4. Len(s) \in Nat /\ todo > 0 /\ need \in Nat
  BY <1>1, <1>2, LenProperties, Types DEF WireTypes
<1>5. /\ all \in Seq(Byte) /\ Len(all) <= need /\ Len(all) \in Nat
      /\ y \in Seq(Byte)
      /\ all \o y = got \o Ahead
      /\ IF Len(all) = need THEN Add(SubSeq(all, 1, need - 2))
         ELSE UNCHANGED <<pc, todo, fields>>
  BY BulkRead
<1>6. s = session.rest /\ n = Len(fields) + todo /\ all = got' /\ y = Ahead'
  OBVIOUS
<1> HIDE DEF s, n, all, y
<1>7. CASE Len(all) = need
  <2> DEFINE u == From(s, e)
             q == e + need
             f == SubSeq(all, 1, need - 2)
  <2>1. e \in Nat /\ e <= Len(s) /\ p \in Nat /\ p < e
    BY <1>3, <1>4
  <2>2. u \in Seq(Byte) /\ PieceOf(u, s, e, Len(s))
    <3>1. Span(s, e, Len(s)) \in Seq(Byte) /\ PieceOf(Span(s, e, Len(s)), s, e, Len(s))
      BY <1>1, <1>4, <2>1, SpanType
    <3> QED BY <3>1 DEF Span, From
  <2>3. Len(u) = Len(s) - e
    BY <2>2 DEF PieceOf
  <2>4. u = all \o y
    BY <1>3, <1>5
  <2>5. Len(y) \in Nat /\ Len(u) = need + Len(y)
    <3> HIDE DEF u
    <3>1. Len(u) = Len(all) + Len(y)
      BY <1>5, <2>4, ConcatProperties
    <3>2. Len(y) \in Nat
      BY <1>5, LenProperties
    <3> QED BY <1>7, <3>1, <3>2
  <2>6. q \in 0..Len(s) /\ q \in Nat /\ q <= Len(s) /\ e <= q /\ q = e + need
    BY <1>4, <2>1, <2>3, <2>5
  <2> HIDE DEF u, q
  <2>7. /\ Span(u, 0, need) \in Seq(Byte) /\ From(u, need) \in Seq(Byte)
        /\ Len(Span(u, 0, need)) = need
        /\ Span(u, 0, need) \o From(u, need) = u
    <3>1. u \in Seq(Byte) /\ need \in Nat /\ need <= Len(u)
      BY <1>4, <2>2, <2>5
    <3> QED BY <3>1, SpanSplit
  <2>8. y = From(u, need)
    <3> DEFINE v == Span(u, 0, need)
               w == From(u, need)
    <3>1. v \in Seq(Byte) /\ w \in Seq(Byte)
      BY <2>7
    <3>2. Len(all) = Len(v) /\ all \o y = v \o w
      BY <1>7, <2>4, <2>7
    <3> HIDE DEF v, w
    <3>3. y = w
      BY <1>5, <3>1, <3>2, SamePrefix
    <3> QED BY <3>3 DEF w
  <2>9. From(u, need) = From(s, q)
    <3> DEFINE d == Len(s) - e
               k == Len(s)
    <3>1. d = k - e /\ d \in Nat /\ need <= d /\ d <= k - e /\ k = e + d /\ k \in Nat
          /\ e <= k /\ k <= Len(s)
      BY <1>4, <2>1, <2>3, <2>5
    <3>2. Span(s, e, k) = u /\ From(s, q) = Span(s, q, k) /\ Len(u) = d
      BY <2>3 DEF Span, From, u
    <3> HIDE DEF d, k
    <3>3. Span(Span(s, e, k), need, d) = Span(s, q, k)
      BY <1>1, <1>4, <2>1, <2>6, <3>1, SpanOfSpan
    <3>4. From(u, need) = Span(u, need, d)
      BY <3>2 DEF Span, From
    <3> QED BY <3>2, <3>3, <3>4, Zenon
  <2>10. IsField(Span(s, p, q))
    BY <1>1, <1>3, <1>4, <2>1, <2>6, BulkIsField
  <2>11. f \in Seq(Byte)
    <3> DEFINE m == need - 2
    <3>1. m \in Nat /\ 0 \in Nat /\ 0 <= m /\ m <= Len(all)
      BY <1>3, <1>4, <1>7
    <3>2. Span(all, 0, m) = f
      BY DEF Span
    <3> HIDE DEF m, f
    <3>3. Span(all, 0, m) \in Seq(Byte)
      BY <1>5, <3>1, SpanType
    <3> QED BY <3>2, <3>3
  <2>12. Add(f)
    BY <1>5, <1>7
  <2> HIDE DEF f
  <2>13. UNCHANGED <<session, answered>>
    BY <1>2
  <2>14. /\ CutsTo(session.rest, Len(fields) + todo, Len(fields), p)
         /\ IsField(Span(session.rest, p, q)) /\ Ahead' = From(session.rest, q)
         /\ p \in 0..Len(session.rest) /\ q \in 0..Len(session.rest)
    BY <1>3, <1>6, <2>6, <2>8, <2>9, <2>10
  <2> QED BY <1>4, <2>11, <2>12, <2>13, <2>14, AddInRest
<1>8. CASE Len(all) # need
  <2>1. UNCHANGED <<pc, todo, fields, need>>
    BY <1>2, <1>5, <1>8
  <2>2. session'.rest = s /\ Len(fields') + todo' = n /\ Len(fields') = Len(fields)
    BY <1>2, <1>6, <2>1
  <2>3. got' \o Ahead' = From(s, e)
    BY <1>3, <1>5, <1>6
  <2>4. InRest'
    BY <1>2, <1>3, <2>1, <2>2, <2>3, Zenon DEF InRest
  <2>5. ExactlyWhatWasSent'
    BY <1>2, SamePlace DEF WireContent
  <2> QED BY <1>2, <2>1, <2>4, <2>5 DEF WireContent, DiesOnlyOn
<1> QED BY <1>7, <1>8

-----------------------------------------------------------------------------
(* dispatch *)

\* The request that was read is answered: the next is ahead, or what is behind them
\* all.
LEMMA ReplyContent ==
    ASSUME WireTypes, WireContent, Len(answered) < Len(session.reqs),
           fields = LastRequest, Ahead = Behind, NEW x \in Replies, Reply(x),
           UNCHANGED <<session, wire, buf>>
    PROVE  WireContent'
<1> DEFINE k == Len(answered)
           N == Len(session.reqs)
           a == [req |-> fields, reply |-> x]
           new == Append(answered, a)
           k1 == k + 1
<1>1. /\ k \in Nat /\ N \in Nat /\ session \in Sessions /\ fields \in Seq(Seq(Byte))
  BY Types
<1>2. answered \in Seq([req : Seq(Seq(Byte)), reply : Replies])
  BY DEF WireTypes
<1>3. a \in [req : Seq(Seq(Byte)), reply : Replies]
  BY <1>1
<1>4. answered' = new /\ pc' \in {"array", "closed"}
  BY DEF Reply
<1>5. a.req = session.reqs[k1]
  BY DEF LastRequest
<1>6. Behind = LastRequests(session)[N - k1]
  BY DEF Behind
<1>7. k1 = k + 1 /\ k = Len(answered) /\ N = Len(session.reqs) /\ k < N
  OBVIOUS
<1> HIDE DEF a
<1>8. /\ Len(new) = k1 /\ DOMAIN new = 1..k1 /\ new[k1] = a
      /\ \A i \in 1..k : new[i] = answered[i]
  <2>1. /\ new \in Seq([req : Seq(Seq(Byte)), reply : Replies]) /\ Len(new) = Len(answered) + 1
        /\ new[Len(answered) + 1] = a /\ \A i \in 1..Len(answered) : new[i] = answered[i]
    BY <1>2, <1>3, AppendProperties
  <2>2. DOMAIN new = 1..Len(new)
    BY <2>1, LenProperties
  <2> HIDE DEF new
  <2> QED BY <1>7, <2>1, <2>2
<1> HIDE DEF new, k, k1, N
<1>9. k1 \in 1..N /\ k1 \in 0..N /\ N \in Nat /\ k1 <= N
  BY <1>1, <1>7
<1>10. ExactlyWhatWasSent'
  <2>1. \A i \in 1..k : i <= N /\ answered[i].req = session.reqs[i]
    <3>1. DOMAIN answered = 1..k
      BY <1>2, <1>7, LenProperties
    <3> QED BY <1>7, <3>1 DEF WireContent, ExactlyWhatWasSent
  <2>2. ASSUME NEW i \in 1..k1 PROVE i <= N /\ new[i].req = session.reqs[i]
    <3>1. CASE i = k1
      BY <1>5, <1>8, <1>9, <3>1
    <3>2. CASE i \in 1..k
      BY <1>8, <2>1, <3>2
    <3> QED BY <1>1, <1>7, <3>1, <3>2
  <2> QED BY <1>4, <1>7, <1>8, <2>2 DEF ExactlyWhatWasSent
<1> DEFINE b == Behind
<1>11. b = Behind /\ b = LastRequests(session)[N - k1]
  BY <1>6
<1> HIDE DEF b
<1>12. /\ k1 = Len(session.reqs) => b = session.rest
       /\ k1 < Len(session.reqs) =>
             b = Request(session.style, session.reqs[k1 + 1],
                         LastRequests(session)[Len(session.reqs) - (k1 + 1)])
  BY <1>1, <1>7, <1>9, <1>11, BytesBehind
<1>13. Ahead' = b /\ UNCHANGED session
  BY <1>11 DEF Ahead
<1>14. Len(answered') = k1
  BY <1>4, <1>8
<1>15. k1 < N => InRequest'
  BY <1>4, <1>7, <1>12, <1>13, <1>14 DEF InRequest, LastRequest, Behind
<1>16. k1 = N => InRest'
  BY <1>4, <1>7, <1>12, <1>13 DEF InRest
<1> QED BY <1>4, <1>7, <1>9, <1>10, <1>13, <1>14, <1>15, <1>16 DEF WireContent, DiesOnlyOn

\* A request is dispatched: it is answered, or its pattern is refused or Foreign.
LEMMA DispatchInRequest ==
    ASSUME WireTypes, WireContent, dispatch, Len(answered) < Len(session.reqs)
    PROVE  WireContent'
<1> DEFINE r == LastRequest
           args == Tail(fields)
<1>1. pc = "dispatch" /\ UNCHANGED <<session, wire, buf>> /\ InRequest
  BY DEF dispatch, WireContent
<1>2. fields = r /\ Ahead = Behind
  BY <1>1 DEF InRequest
<1>3. r \in Seq(Seq(Byte)) /\ Len(r) \in 1..9
  BY Current DEF SendableRequest
<1>4. r # <<>>
  <2> HIDE DEF r
  <2>1. Len(r) # 0
    <3>1. \A x \in 1..9 : x # 0
      OBVIOUS
    <3> QED BY <1>3, <3>1, Zenon
  <2> QED BY <1>3, <2>1, EmptySeq
<1>5. /\ args \in Seq(Seq(Byte)) /\ Len(args) = Len(r) - 1
      /\ Len(args) = 1 => args[1] = r[2]
  <2>1. /\ args \in Seq(Seq(Byte)) /\ Len(args) = Len(r) - 1
        /\ \A i \in 1..Len(args) : args[i] = r[i + 1]
    BY <1>2, <1>3, <1>4, HeadTailProperties
  <2>2. Len(args) = 1 => 1 \in 1..Len(args) /\ 1 + 1 = 2
    OBVIOUS
  <2> HIDE DEF args
  <2> QED BY <2>1, <2>2
<1>6. r = LastRequest
  OBVIOUS
<1> HIDE DEF r, args
<1>7. ASSUME NEW x \in Replies, Reply(x) PROVE WireContent'
  BY <1>1, <1>2, <1>6, <1>7, ReplyContent
<1>8. CASE \E x \in {OK, Unknown, Untold, cmdKeys(args)} : Reply(x)
  <2>1. {OK, Unknown, Untold, cmdKeys(args)} \subseteq Replies
    BY ReplyType DEF Replies
  <2> QED BY <1>7, <1>8, <2>1
<1>9. \/ \E x \in {OK, Unknown, Untold, cmdKeys(args)} : Reply(x)
      \/ /\ ToUpper(fields[1]) = KEYS /\ Panic /\ UNCHANGED answered
         /\ foreign(args) \/ patternPanics(args)
  BY <1>2, <1>4 DEF dispatch, args
<1>10. CASE /\ ToUpper(fields[1]) = KEYS /\ Panic /\ UNCHANGED answered
            /\ foreign(args) \/ patternPanics(args)
  <2>1. pc' = "dead" /\ UNCHANGED answered
    BY <1>10 DEF Panic
  <2> DEFINE k == args[1]
  <2>2. /\ Len(args) = 1
        /\ \/ Foreign(k)
           \/ patternRE(k) # Nil /\ mustCompilePanics(patternRE(k))
    BY <1>10 DEF patternPanics, foreign
  <2>3. Len(r) = 2 /\ k = r[2]
    <3>1. \A x \in 1..9 : x - 1 = 1 => x = 2
      OBVIOUS
    <3>2. args[1] = r[2]
      BY <1>5, <2>2
    <3> HIDE DEF k
    <3>3. Len(r) = 2
      BY <1>3, <1>5, <2>2, <3>1, Zenon
    <3> QED BY <3>2, <3>3 DEF k
  <2>4. k \in Seq(Byte)
    <3>1. 2 \in 1..Len(r)
      BY <2>3
    <3>2. r[2] \in Seq(Byte)
      BY <1>3, <3>1, ElementOfSeq
    <3> QED BY <2>3, <3>2
  <2> HIDE DEF k
  <2>5. \/ OPEN \in Range(k) \/ {ESC, EndQuote} \subseteq Range(k)
        \/ \E b \in Range(k) : b \notin ASCII
    BY <2>2, <2>4, RefusedPatterns, ForeignPatterns
  <2>6. LastRequest' = LastRequest /\ ExactlyWhatWasSent'
    BY <1>1, <2>1, SamePlace DEF WireContent
  <2>7. Len(answered) # Len(session.reqs)
    BY Types
  <2>8. Len(LastRequest) = 2 /\ ToUpper(LastRequest[1]) = KEYS
        /\ \/ OPEN \in Range(LastRequest[2])
           \/ {ESC, EndQuote} \subseteq Range(LastRequest[2])
           \/ \E b \in Range(LastRequest[2]) : b \notin ASCII
    BY <1>2, <1>6, <1>10, <2>3, <2>5
  <2>9. DiesOnlyOn'
    BY <1>1, <2>1, <2>6, <2>7, <2>8, Zenon DEF DiesOnlyOn
  <2>10. InRequest'
    BY <2>1 DEF InRequest
  <2> QED BY <1>1, <2>1, <2>6, <2>7, <2>9, <2>10 DEF WireContent
<1> QED BY <1>8, <1>9, <1>10

\* Behind the requests only an array without fields is dispatched.
LEMMA DispatchInRest ==
    ASSUME WireTypes, WireContent, dispatch, Len(answered) = Len(session.reqs)
    PROVE  WireContent'
<1>1. pc = "dispatch" /\ UNCHANGED <<session, wire, buf>> /\ InRest
  BY DEF dispatch, WireContent
<1>2. fields = <<>> /\ NoFields(session.rest)
  BY <1>1 DEF InRest
<1>3. pc' = "dead" /\ UNCHANGED answered
  BY <1>2 DEF dispatch, Panic
<1>4. DiesOnlyOn'
  BY <1>1, <1>2, <1>3, Zenon DEF DiesOnlyOn
<1>5. InRest' /\ ExactlyWhatWasSent'
  BY <1>1, <1>3, SamePlace DEF InRest, WireContent
<1> QED BY <1>1, <1>3, <1>4, <1>5 DEF WireContent

-----------------------------------------------------------------------------
(* Recursive functions with several ways on.  Each has the values its      *)
(* equations give, as every place looks at places behind it only.          *)

\* A recursion over the elements of D, the value at x a function of the values at the
\* elements of lower rank: the recursive functions of two arguments, or with several
\* ways on, are well defined.
Looks(D, V, rank, rhs) ==
    \A x \in D : \A f, g \in [D -> V] :
        (\A y \in D : rank[y] < rank[x] => f[y] = g[y]) => rhs[x][f] = rhs[x][g]

Recursion(D, V, n, rank, rhs) ==
    /\ V # {} /\ n \in Nat /\ rank \in [D -> 0..n]
    /\ rhs \in [D -> [[D -> V] -> V]] /\ Looks(D, V, rank, rhs)
Solution(D, V, rhs, f) == f \in [D -> V] /\ \A x \in D : f[x] = rhs[x][f]

\* Such a recursion has a solution.
LEMMA HasFunction ==
    ASSUME NEW D, NEW V, NEW n, NEW rank, NEW rhs, Recursion(D, V, n, rank, rhs)
    PROVE  \E f : Solution(D, V, rhs, f)
<1>0. n \in Nat /\ rank \in [D -> 0..n] /\ rhs \in [D -> [[D -> V] -> V]] /\ Looks(D, V, rank, rhs)
  BY DEF Recursion
<1>00. PICK v0 \in V : TRUE
  BY DEF Recursion
<1> DEFINE Solves(f, m) == \A x \in D : rank[x] < m => f[x] = rhs[x][f]
           Good == {m \in Nat : \E f \in [D -> V] : Solves(f, m)}
<1>1. 0 \in Good
  <2>1. [x \in D |-> v0] \in [D -> V] /\ Solves([x \in D |-> v0], 0)
    BY <1>0, <1>00
  <2> QED BY <2>1
<1>2. ASSUME NEW m \in 0..n, m \in Good PROVE m + 1 \in Good
  <2>1. PICK f \in [D -> V] : Solves(f, m)
    BY <1>2
  <2> DEFINE g == [x \in D |-> IF rank[x] < m THEN f[x] ELSE rhs[x][f]]
  <2>2. g \in [D -> V]
    BY <1>0, <2>1
  <2>3. \A x \in D : g[x] = IF rank[x] < m THEN f[x] ELSE rhs[x][f]
    OBVIOUS
  <2> HIDE DEF g
  <2>4. ASSUME NEW x \in D, rank[x] < m + 1 PROVE g[x] = rhs[x][g]
    <3>1. \A y \in D : rank[y] < rank[x] => f[y] = g[y]
      BY <1>0, <2>3, <2>4
    <3>2. rhs[x][f] = rhs[x][g]
      BY <1>0, <2>1, <2>2, <3>1 DEF Looks
    <3>3. g[x] = rhs[x][f]
      BY <1>0, <2>1, <2>3, <2>4
    <3> QED BY <3>2, <3>3
  <2> QED BY <2>2, <2>4
<1>3. n + 1 \in Good
  <2> HIDE DEF Good
  <2>1. n + 1 \in Nat /\ 0..((n + 1) - 1) = 0..n
    BY <1>0
  <2> DEFINE k == n + 1
  <2>2. k \in Nat /\ \A m \in 0..(k - 1) : m \in Good => m + 1 \in Good
    BY <1>2, <2>1
  <2> HIDE DEF k
  <2>3. \A m \in 0..k : m \in Good
    BY <1>1, <2>2, UpTo
  <2>4. \A m \in 0..(n + 1) : m \in Good
    BY <2>3 DEF k
  <2> QED BY <1>0, <2>4
<1>4. PICK f \in [D -> V] : Solves(f, n + 1)
  BY <1>3
<1>5. \A x \in D : rank[x] < n + 1
  BY <1>0
<1> QED BY <1>4, <1>5 DEF Solution

\* Glob's recursion: the places of k from which the rest of p, from its i-th byte on,
\* matches.
GlobFrom(p, k, f, i) ==
    IF i > Len(p) THEN {Len(k) + 1}
    ELSE IF p[i] = STAR
    THEN {j \in 1..(Len(k) + 1) : \E x \in f[i + 1] : j <= x}
    ELSE {j \in 1..Len(k) :
            \/ p[i] = ANY /\ j + 1 \in f[i + 1]
            \/ p[i] = ESC /\ i < Len(p) /\ p[i + 1] = k[j] /\ j + 1 \in f[i + 2]
            \/ /\ p[i] = OPEN
               /\ LET e == classEnd(p, i + 1)
                  IN /\ i + 1 < e /\ e <= Len(p) + 1
                     /\ inClass(p, i + 1, e, k[j])
                     /\ j + 1 \in f[IF e > Len(p) THEN e ELSE e + 1]
            \/ /\ p[i] \notin {ANY, ESC, OPEN}
               /\ p[i] = k[j] /\ j + 1 \in f[i + 1]}
GlobEq(p, k, f) == f = [i \in 1..(Len(p) + 1) |-> GlobFrom(p, k, f, i)]

\* Glob asks for the first place of one.
LEMMA GlobIs ==
    ASSUME NEW p, NEW k
    PROVE  Glob(p, k) = (1 \in (CHOOSE f : GlobEq(p, k, f))[1])
BY Zenon DEF Glob, GlobEq, GlobFrom

\* The recursion, one kind of byte at a time.  A place before one of S, at a byte of k
\* that is in B.
Before(k, S, B) == {j \in 1..Len(k) : k[j] \in B /\ j + 1 \in S}
BeforeStar(k, S) == {j \in 1..(Len(k) + 1) : \E x \in S : j <= x}
InClass(p, k, i) == {b \in Range(k) : inClass(p, i + 1, classEnd(p, i + 1), b)}
BehindClass(p, i) == IF classEnd(p, i + 1) > Len(p) THEN classEnd(p, i + 1)
                 ELSE classEnd(p, i + 1) + 1

GlobRules(p, k, f, i) ==
    /\ p[i] = STAR => GlobFrom(p, k, f, i) = BeforeStar(k, f[i + 1])
    /\ p[i] = ANY => GlobFrom(p, k, f, i) = Before(k, f[i + 1], Byte)
    /\ p[i] = ESC /\ i < Len(p) => GlobFrom(p, k, f, i) = Before(k, f[i + 2], {p[i + 1]})
    /\ p[i] = ESC /\ ~ (i < Len(p)) => GlobFrom(p, k, f, i) = {}
    /\ p[i] = OPEN /\ i + 1 < classEnd(p, i + 1) /\ classEnd(p, i + 1) <= Len(p) + 1 =>
           GlobFrom(p, k, f, i) = Before(k, f[BehindClass(p, i)], InClass(p, k, i))
    /\ p[i] = OPEN /\ ~ (i + 1 < classEnd(p, i + 1) /\ classEnd(p, i + 1) <= Len(p) + 1) =>
           GlobFrom(p, k, f, i) = {}
    /\ p[i] \notin {STAR, ANY, ESC, OPEN} => GlobFrom(p, k, f, i) = Before(k, f[i + 1], {p[i]})

\* Glob does so.
LEMMA GlobCases ==
    ASSUME NEW p, NEW k \in Seq(Byte), NEW f, NEW i, ~ (i > Len(p))
    PROVE  GlobRules(p, k, f, i)
<1> USE DEF GlobRules
<1>0. \A j \in 1..Len(k) : k[j] \in Byte /\ k[j] \in Range(k)
  <2>1. DOMAIN k = 1..Len(k)
    BY LenProperties
  <2> QED BY <2>1, ElementOfSeq DEF Range
<1>1. CASE p[i] = STAR
  <2>1. p[i] \notin {ANY, ESC, OPEN}
    BY <1>1 DEF STAR, ANY, ESC, OPEN
  <2>2. GlobFrom(p, k, f, i) = BeforeStar(k, f[i + 1])
    BY <1>1, Zenon DEF GlobFrom, BeforeStar
  <2> QED BY <1>1, <2>1, <2>2
<1>2. CASE p[i] = ANY
  <2>1. p[i] \notin {STAR, ESC, OPEN}
    BY <1>2 DEF STAR, ANY, ESC, OPEN
  <2>2. GlobFrom(p, k, f, i) = {j \in 1..Len(k) : j + 1 \in f[i + 1]}
    BY <1>2, <2>1 DEF GlobFrom
  <2>3. GlobFrom(p, k, f, i) = Before(k, f[i + 1], Byte)
    BY <1>0, <2>2 DEF Before
  <2> QED BY <1>2, <2>1, <2>3
<1>3. CASE p[i] = ESC
  <2>1. p[i] \notin {STAR, ANY, OPEN}
    BY <1>3 DEF STAR, ANY, ESC, OPEN
  <2>2. GlobFrom(p, k, f, i) =
                {j \in 1..Len(k) : i < Len(p) /\ p[i + 1] = k[j] /\ j + 1 \in f[i + 2]}
    BY <1>3, <2>1 DEF GlobFrom
  <2>3. i < Len(p) => GlobFrom(p, k, f, i) = Before(k, f[i + 2], {p[i + 1]})
    BY <2>2 DEF Before
  <2>4. ~ (i < Len(p)) => GlobFrom(p, k, f, i) = {}
    BY <2>2
  <2> QED BY <1>3, <2>1, <2>3, <2>4
<1>4. CASE p[i] = OPEN
  <2>1. p[i] \notin {STAR, ANY, ESC}
    BY <1>4 DEF STAR, ANY, ESC, OPEN
  <2>2. GlobFrom(p, k, f, i) =
                {j \in 1..Len(k) :
                    /\ i + 1 < classEnd(p, i + 1) /\ classEnd(p, i + 1) <= Len(p) + 1
                    /\ inClass(p, i + 1, classEnd(p, i + 1), k[j])
                    /\ j + 1 \in f[IF classEnd(p, i + 1) > Len(p) THEN classEnd(p, i + 1)
                                   ELSE classEnd(p, i + 1) + 1]}
    BY <1>4, <2>1 DEF GlobFrom
  <2>3. GlobFrom(p, k, f, i) =
                {j \in 1..Len(k) :
                    /\ i + 1 < classEnd(p, i + 1) /\ classEnd(p, i + 1) <= Len(p) + 1
                    /\ inClass(p, i + 1, classEnd(p, i + 1), k[j])
                    /\ j + 1 \in f[BehindClass(p, i)]}
    BY <2>2, Zenon DEF BehindClass
  <2>4. \A j \in 1..Len(k) :
           k[j] \in InClass(p, k, i) <=> inClass(p, i + 1, classEnd(p, i + 1), k[j])
    BY <1>0 DEF InClass
  <2> DEFINE ok == i + 1 < classEnd(p, i + 1) /\ classEnd(p, i + 1) <= Len(p) + 1
  <2>5. GlobFrom(p, k, f, i) =
            {j \in 1..Len(k) : ok /\ k[j] \in InClass(p, k, i) /\ j + 1 \in f[BehindClass(p, i)]}
    BY <2>3, <2>4
  <2> HIDE DEF ok
  <2>6. ok => GlobFrom(p, k, f, i) = Before(k, f[BehindClass(p, i)], InClass(p, k, i))
    BY <2>5 DEF Before
  <2>7. ~ ok => GlobFrom(p, k, f, i) = {}
    BY <2>5
  <2> QED BY <1>4, <2>1, <2>6, <2>7 DEF ok
<1>5. CASE p[i] \notin {STAR, ANY, ESC, OPEN}
  <2>2. GlobFrom(p, k, f, i) = {j \in 1..Len(k) : p[i] = k[j] /\ j + 1 \in f[i + 1]}
    BY <1>5 DEF GlobFrom
  <2>3. GlobFrom(p, k, f, i) = Before(k, f[i + 1], {p[i]})
    BY <2>2 DEF Before
  <2> QED BY <1>5, <2>3
<1> QED BY <1>1, <1>2, <1>3, <1>4, <1>5

\* It looks at higher places of p only.
LEMMA GlobLooks ==
    ASSUME NEW p, NEW k \in Seq(Byte), Len(p) \in Nat, NEW i \in 1..(Len(p) + 1),
           classEnd(p, i + 1) \in Int,
           NEW f, NEW g, \A y \in 1..(Len(p) + 1) : y > i => f[y] = g[y]
    PROVE  GlobFrom(p, k, f, i) = GlobFrom(p, k, g, i)
<1>1. CASE i > Len(p)
  BY <1>1 DEF GlobFrom
<1>2. CASE i <= Len(p)
  <2>0. GlobRules(p, k, f, i) /\ GlobRules(p, k, g, i)
    <3>1. ~ (i > Len(p))
      BY <1>2
    <3> QED BY <3>1, GlobCases
  <2>1. f[i + 1] = g[i + 1]
    BY <1>2
  <2>2. i < Len(p) => f[i + 2] = g[i + 2]
    OBVIOUS
  <2>3. CASE p[i] = STAR
    BY <2>0, <2>1, <2>3, Zenon DEF GlobRules
  <2>4. CASE p[i] = ANY
    BY <2>0, <2>1, <2>4, Zenon DEF GlobRules
  <2>5. CASE p[i] = ESC
    BY <2>0, <2>2, <2>5, Zenon DEF GlobRules
  <2>6. CASE p[i] = OPEN
    <3>1. i + 1 < classEnd(p, i + 1) /\ classEnd(p, i + 1) <= Len(p) + 1
             => f[BehindClass(p, i)] = g[BehindClass(p, i)]
      BY DEF BehindClass
    <3> QED BY <2>0, <2>6, <3>1, Zenon DEF GlobRules
  <2>7. CASE p[i] \notin {STAR, ANY, ESC, OPEN}
    BY <2>0, <2>1, <2>7, Zenon DEF GlobRules
  <2> QED BY <2>3, <2>4, <2>5, <2>6, <2>7
<1> QED BY <1>1, <1>2

\* Its values are places of k.
LEMMA GlobType ==
    ASSUME NEW p, NEW k, NEW f, NEW i, Len(k) \in Nat
    PROVE  GlobFrom(p, k, f, i) \in SUBSET (1..(Len(k) + 1))
<1>1. CASE i > Len(p)
  BY <1>1 DEF GlobFrom
<1>2. CASE ~ (i > Len(p)) /\ p[i] = STAR
  <2>1. GlobFrom(p, k, f, i) \subseteq 1..(Len(k) + 1)
    BY <1>2, Zenon DEF GlobFrom
  <2> QED BY <2>1
<1>3. CASE ~ (i > Len(p)) /\ p[i] # STAR
  <2>1. GlobFrom(p, k, f, i) \subseteq 1..Len(k)
    BY <1>3, Zenon DEF GlobFrom
  <2> QED BY <2>1
<1> QED BY <1>1, <1>2, <1>3

\* The places from which the rest of p matches.
GlobSets(p, k, f) ==
    /\ f \in [1..(Len(p) + 1) -> SUBSET (1..(Len(k) + 1))]
    /\ \A i \in 1..(Len(p) + 1) : f[i] = GlobFrom(p, k, f, i)

\* Glob has them.
LEMMA GlobRun ==
    ASSUME NEW p, NEW k \in Seq(Byte), Len(p) \in Nat,
           \A i \in 1..(Len(p) + 1) : classEnd(p, i + 1) \in Int
    PROVE  \E f : GlobSets(p, k, f) /\ (Glob(p, k) <=> 1 \in f[1])
<1> DEFINE D == 1..(Len(p) + 1)
           V == SUBSET (1..(Len(k) + 1))
           n == Len(p) + 1
           rank == [i \in D |-> n - i]
           rhs == [i \in D |-> [f \in [D -> V] |-> GlobFrom(p, k, f, i)]]
           h == CHOOSE f : GlobEq(p, k, f)
<1>0. Len(k) \in Nat
  BY LenProperties
<1>1. n \in Nat /\ rank \in [D -> 0..n] /\ {} \in V
  OBVIOUS
<1>2. rhs \in [D -> [[D -> V] -> V]]
  BY <1>0, GlobType
<1>3. \A i \in D : \A f \in [D -> V] : rhs[i][f] = GlobFrom(p, k, f, i)
  OBVIOUS
<1> HIDE DEF V, rhs
<1>4. Looks(D, V, rank, rhs)
  <2> SUFFICES ASSUME NEW i \in D, NEW f \in [D -> V], NEW g \in [D -> V],
                      \A y \in D : rank[y] < rank[i] => f[y] = g[y]
               PROVE  rhs[i][f] = rhs[i][g]
    BY DEF Looks
  <2>1. \A y \in 1..(Len(p) + 1) : y > i => f[y] = g[y]
    OBVIOUS
  <2>2. GlobFrom(p, k, f, i) = GlobFrom(p, k, g, i)
    BY <2>1, GlobLooks
  <2> QED BY <1>3, <2>2
<1>10. Recursion(D, V, n, rank, rhs)
  BY <1>1, <1>2, <1>4 DEF Recursion
<1>5. \E f : GlobEq(p, k, f)
  <2>1. PICK f : Solution(D, V, rhs, f)
    BY <1>10, HasFunction
  <2>2. f = [i \in D |-> GlobFrom(p, k, f, i)]
    BY <1>3, <2>1 DEF Solution
  <2> QED BY <2>2 DEF GlobEq
<1>6. GlobEq(p, k, h)
  BY <1>5, Zenon
<1>7. Glob(p, k) <=> 1 \in h[1]
  BY GlobIs
<1> HIDE DEF h
<1>8. \A i \in D : h[i] = GlobFrom(p, k, h, i)
  BY <1>6 DEF GlobEq
<1>9. h \in [D -> V]
  <2>1. \A i \in D : h[i] \in V
    BY <1>0, <1>8, GlobType DEF V
  <2> QED BY <1>6, <2>1 DEF GlobEq
<1> QED BY <1>7, <1>8, <1>9 DEF GlobSets, V

\* What holds of a place when it holds of the places behind it holds of every place.
LEMMA FromBehind ==
    ASSUME NEW n \in Nat, NEW S,
           \A m \in 0..n : (\A j \in (m + 1)..n : j \in S) => m \in S
    PROVE  \A m \in 0..n : m \in S
<1> DEFINE Good == {d \in 0..n : \A m \in (n - d)..n : m \in S}
<1>1. 0 \in Good
  <2>1. n \in S
    <3>1. n \in 0..n /\ (n + 1)..n = {}
      OBVIOUS
    <3> QED BY <3>1
  <2> QED BY <2>1
<1>2. ASSUME NEW d \in 0..(n - 1), d \in Good PROVE d + 1 \in Good
  <2> DEFINE m == n - (d + 1)
  <2>1. m \in 0..n /\ (m + 1)..n = (n - d)..n
    OBVIOUS
  <2>2. \A j \in (n - d)..n : j \in S
    BY <1>2
  <2>3. \A j \in (m + 1)..n : j \in S
    BY <2>1, <2>2
  <2>4. m \in S
    BY <2>1, <2>3
  <2>5. \A j \in m..n : j \in S
    BY <2>1, <2>2, <2>4
  <2> QED BY <2>5
<1>3. \A d \in 0..n : d \in Good
  <2> HIDE DEF Good
  <2> QED BY <1>1, <1>2, UpTo
<1>4. n \in Good
  BY <1>3
<1> QED BY <1>4

\* classEnd's recursion.
EndFrom(p, f, x) ==
    IF x > Len(p) \/ p[x] = CLOSE THEN x ELSE f[IF p[x] = ESC THEN x + 2 ELSE x + 1]
EndEq(p, f) == f = [x \in 1..(Len(p) + 2) |-> EndFrom(p, f, x)]

\* classEnd looks its value up.
LEMMA EndIs ==
    ASSUME NEW p, NEW i
    PROVE  classEnd(p, i) = (CHOOSE f : EndEq(p, f))[i]
BY Zenon DEF classEnd, EndEq, EndFrom

\* A class ends here, or where it ends behind the next character.
LEMMA EndStep ==
    ASSUME NEW p, Len(p) \in Nat, NEW x \in 1..(Len(p) + 2)
    PROVE  /\ x > Len(p) \/ p[x] = CLOSE => \A f : EndFrom(p, f, x) = x
           /\ ~ (x > Len(p) \/ p[x] = CLOSE) =>
                 \/ x + 2 \in 1..(Len(p) + 2) /\ p[x] = ESC /\ \A f : EndFrom(p, f, x) = f[x + 2]
                 \/ x + 1 \in 1..(Len(p) + 2) /\ p[x] # ESC /\ \A f : EndFrom(p, f, x) = f[x + 1]
BY DEF EndFrom

\* classEnd has the values its equations give.
LEMMA EndRun ==
    ASSUME NEW p, Len(p) \in Nat
    PROVE  \E f \in [1..(Len(p) + 2) -> 1..(Len(p) + 2)] :
              /\ \A x \in 1..(Len(p) + 2) : f[x] = EndFrom(p, f, x)
              /\ \A i : classEnd(p, i) = f[i]
<1> DEFINE n == Len(p) + 2
           D == 1..n
           rank == [x \in D |-> n - x]
           rhs == [x \in D |-> [f \in [D -> D] |-> EndFrom(p, f, x)]]
           h == CHOOSE f : EndEq(p, f)
<1>1. n \in Nat /\ rank \in [D -> 0..n] /\ D # {}
  <2>1. 1 \in D /\ n \in Nat
    OBVIOUS
  <2>2. \A x \in D : n - x \in 0..n
    OBVIOUS
  <2> QED BY <2>1, <2>2
<1>2. ASSUME NEW x \in D, NEW f \in [D -> D] PROVE EndFrom(p, f, x) \in D
  <2>1. CASE x > Len(p) \/ p[x] = CLOSE
    <3>1. EndFrom(p, f, x) = x
      BY <2>1, EndStep
    <3> QED BY <3>1
  <2>2. CASE ~ (x > Len(p) \/ p[x] = CLOSE)
    <3>1. \/ x + 2 \in D /\ EndFrom(p, f, x) = f[x + 2]
          \/ x + 1 \in D /\ EndFrom(p, f, x) = f[x + 1]
      BY <2>2, EndStep
    <3> HIDE DEF D
    <3> QED BY <3>1
  <2> QED BY <2>1, <2>2
<1>3. /\ rhs \in [D -> [[D -> D] -> D]]
      /\ \A x \in D : \A f \in [D -> D] : rhs[x][f] = EndFrom(p, f, x)
  BY <1>2
<1> HIDE DEF rhs
<1>4. Looks(D, D, rank, rhs)
  <2> SUFFICES ASSUME NEW x \in D, NEW f \in [D -> D], NEW g \in [D -> D],
                      \A y \in D : rank[y] < rank[x] => f[y] = g[y]
               PROVE  rhs[x][f] = rhs[x][g]
    BY Zenon DEF Looks
  <2>1. \A y \in D : y > x => f[y] = g[y]
    OBVIOUS
  <2>2. EndFrom(p, f, x) = EndFrom(p, g, x)
    <3>1. CASE x > Len(p) \/ p[x] = CLOSE
      BY <3>1, EndStep
    <3>2. CASE ~ (x > Len(p) \/ p[x] = CLOSE)
      <4>1. \/ x + 2 \in D /\ \A q : EndFrom(p, q, x) = q[x + 2]
            \/ x + 1 \in D /\ \A q : EndFrom(p, q, x) = q[x + 1]
        BY <3>2, EndStep
      <4> QED BY <2>1, <4>1
    <3> QED BY <3>1, <3>2
  <2> QED BY <1>3, <2>2
<1>10. Recursion(D, D, n, rank, rhs)
  BY <1>1, <1>3, <1>4 DEF Recursion
<1>5. \E f : EndEq(p, f)
  <2>1. PICK f : Solution(D, D, rhs, f)
    BY <1>10, HasFunction
  <2>2. f = [x \in D |-> EndFrom(p, f, x)]
    BY <1>3, <2>1 DEF Solution
  <2> QED BY <2>2 DEF EndEq
<1>6. EndEq(p, h)
  BY <1>5, Zenon
<1>7. \A i : classEnd(p, i) = h[i]
  BY EndIs
<1> HIDE DEF h
<1>8. \A x \in D : h[x] = EndFrom(p, h, x)
  BY <1>6 DEF EndEq
<1>9. \A x \in D : h[x] \in D
  <2> DEFINE S == {x \in 0..n : x \in D => h[x] \in D}
  <2>1. ASSUME NEW x \in 0..n, \A y \in (x + 1)..n : y \in S PROVE x \in S
    <3> SUFFICES ASSUME x \in D PROVE h[x] \in D
      OBVIOUS
    <3>1. CASE x > Len(p) \/ p[x] = CLOSE
      BY <1>8, <3>1, EndStep
    <3>2. CASE ~ (x > Len(p) \/ p[x] = CLOSE)
      <4>1. \/ x + 2 \in D /\ h[x] = h[x + 2]
            \/ x + 1 \in D /\ h[x] = h[x + 1]
        BY <1>8, <3>2, EndStep
      <4> QED BY <2>1, <4>1
    <3> QED BY <3>1, <3>2
  <2>2. \A x \in 0..n : x \in S
    <3> HIDE DEF S
    <3> QED BY <1>1, <2>1, FromBehind
  <2> QED BY <2>2
<1>11. h \in [D -> D]
  BY <1>6, <1>9 DEF EndEq
<1> QED BY <1>7, <1>8, <1>11

\* The characters of a class, with the places of p where they are.
Spells(p, i, e, c, pos) ==
    /\ Len(c) \in Nat
    /\ pos \in [1..(Len(c) + 1) -> 1..(Len(p) + 2)] /\ pos[1] = i /\ pos[Len(c) + 1] = e
    /\ \A m \in 1..Len(c) :
         /\ pos[m] <= Len(p) /\ p[pos[m]] # CLOSE
         /\ \/ /\ p[pos[m]] # ESC /\ pos[m + 1] = pos[m] + 1
               /\ c[m] = [byte |-> p[pos[m]], esc |-> FALSE]
            \/ /\ p[pos[m]] = ESC /\ pos[m] + 1 <= Len(p) /\ pos[m + 1] = pos[m] + 2
               /\ c[m] = [byte |-> p[pos[m] + 1], esc |-> TRUE]

\* A class ends where it ends behind its first characters.
LEMMA EndBehind ==
    ASSUME NEW p, Len(p) \in Nat, NEW i, NEW e, NEW c, NEW pos, Spells(p, i, e, c, pos)
    PROVE  /\ i \in 1..(Len(p) + 2) /\ e \in 1..(Len(p) + 2)
           /\ classEnd(p, i) = classEnd(p, e)
<1>0. PICK f \in [1..(Len(p) + 2) -> 1..(Len(p) + 2)] :
              /\ \A x \in 1..(Len(p) + 2) : f[x] = EndFrom(p, f, x)
              /\ \A j : classEnd(p, j) = f[j]
  BY EndRun
<1> DEFINE n == Len(c) + 1
           S == {m \in 0..n : m > 0 => f[pos[m]] = f[e]}
<1>1. n \in Nat /\ pos \in [1..n -> 1..(Len(p) + 2)] /\ pos[1] = i /\ pos[n] = e
  BY DEF Spells
<1>2. ASSUME NEW m \in 0..n, \A j \in (m + 1)..n : j \in S PROVE m \in S
  <2>1. CASE m = 0 \/ m = n
    BY <1>1, <2>1
  <2>2. CASE m \in 1..Len(c)
    <3>0. pos[m] <= Len(p) /\ p[pos[m]] # CLOSE
      BY <2>2 DEF Spells
    <3>00. m \in 1..n /\ m + 1 \in (m + 1)..n
      BY <1>1, <2>2
    <3>1. pos[m] \in 1..(Len(p) + 2) /\ m + 1 \in S /\ pos[m] <= Len(p) /\ p[pos[m]] # CLOSE
      <4> HIDE DEF n, S
      <4> QED BY <1>1, <1>2, <3>0, <3>00
    <3>2. \/ p[pos[m]] # ESC /\ pos[m + 1] = pos[m] + 1
          \/ p[pos[m]] = ESC /\ pos[m + 1] = pos[m] + 2
      BY <2>2 DEF Spells
    <3>3. f[pos[m]] = EndFrom(p, f, pos[m])
      BY <1>0, <3>1
    <3>4. f[pos[m]] = f[pos[m + 1]]
      <4>1. ~ (pos[m] > Len(p) \/ p[pos[m]] = CLOSE)
        BY <3>1
      <4>2. \/ p[pos[m]] = ESC /\ EndFrom(p, f, pos[m]) = f[pos[m] + 2]
            \/ p[pos[m]] # ESC /\ EndFrom(p, f, pos[m]) = f[pos[m] + 1]
        <5> DEFINE y == pos[m]
        <5>1. y \in 1..(Len(p) + 2) /\ ~ (y > Len(p) \/ p[y] = CLOSE)
          BY <3>1, <4>1
        <5> HIDE DEF y
        <5>2. \/ p[y] = ESC /\ EndFrom(p, f, y) = f[y + 2]
              \/ p[y] # ESC /\ EndFrom(p, f, y) = f[y + 1]
          BY <5>1, EndStep
        <5> QED BY <5>2 DEF y
      <4> QED BY <3>2, <3>3, <4>2
    <3>5. f[pos[m + 1]] = f[e]
      BY <2>2, <3>1
    <3> QED BY <2>2, <3>4, <3>5
  <2> QED BY <1>1, <2>1, <2>2 DEF Spells
<1>3. \A m \in 0..n : m \in S
  <2> HIDE DEF S, n
  <2> QED BY <1>1, <1>2, FromBehind
<1>4. 1 \in S
  BY <1>1, <1>3 DEF Spells
<1>5. f[i] = f[e]
  BY <1>1, <1>4
<1>6. 1 \in 1..n /\ n \in 1..n
  BY <1>1 DEF Spells
<1> HIDE DEF n
<1> QED BY <1>0, <1>1, <1>5, <1>6

\* Where a class ends.
LEMMA EndHere ==
    ASSUME NEW p, Len(p) \in Nat, NEW e \in 1..(Len(p) + 2)
    PROVE  /\ e > Len(p) \/ p[e] = CLOSE => classEnd(p, e) = e
           /\ e = Len(p) /\ p[e] = ESC => classEnd(p, e) = Len(p) + 2
           /\ classEnd(p, e) \in Int
<1>0. PICK f \in [1..(Len(p) + 2) -> 1..(Len(p) + 2)] :
              /\ \A x \in 1..(Len(p) + 2) : f[x] = EndFrom(p, f, x)
              /\ \A j : classEnd(p, j) = f[j]
  BY EndRun
<1>1. e > Len(p) \/ p[e] = CLOSE => f[e] = e
  BY <1>0, EndStep
<1>2. CASE e = Len(p) /\ p[e] = ESC
  <2>1. ~ (e > Len(p) \/ p[e] = CLOSE)
    BY <1>2 DEF ESC, CLOSE
  <2>2. f[e] = f[e + 2]
    BY <1>0, <1>2, <2>1, EndStep
  <2>3. e + 2 \in 1..(Len(p) + 2) /\ e + 2 > Len(p)
    BY <1>2
  <2>4. f[e + 2] = e + 2
    BY <1>0, <2>3, EndStep
  <2> QED BY <1>0, <1>1, <1>2, <2>2, <2>4
<1>3. f[e] \in Int
  BY <1>0
<1> QED BY <1>0, <1>1, <1>2, <1>3

\* The recursion of inClass.
PlaceOf(p, x) == IF p[x] = ESC THEN x + 1 ELSE x
InFrom(p, f, e, b, x) ==
    IF x >= e THEN FALSE
    ELSE LET y == PlaceOf(p, x) + 1
         IN IF y + 1 < e /\ p[y] = DASH
            THEN b \in p[PlaceOf(p, x)]..p[PlaceOf(p, y + 1)] \/ f[PlaceOf(p, y + 1) + 1]
            ELSE b = p[PlaceOf(p, x)] \/ f[y]
InEq(p, f, e, b) == f = [x \in 1..(e + 3) |-> InFrom(p, f, e, b, x)]

\* inClass looks its value up, behind a caret if there is one.
LEMMA InIs ==
    ASSUME NEW p, NEW i, NEW e, NEW b
    PROVE  inClass(p, i, e, b) = (IF p[i] = CARET THEN ~ (CHOOSE f : InEq(p, f, e, b))[i + 1]
                                  ELSE (CHOOSE f : InEq(p, f, e, b))[i])
BY Zenon DEF inClass, InEq, InFrom, PlaceOf

\* One character, or the three of a range.
InOne(p, f, e, b, x, y) == InFrom(p, f, e, b, x) <=> (b = p[PlaceOf(p, x)] \/ f[y])
InRange(p, f, e, b, x, z) ==
    InFrom(p, f, e, b, x) <=> (b \in p[PlaceOf(p, x)]..p[z - 1] \/ f[z])

\* The character or the range at x is before what is behind it.
LEMMA InStep ==
    ASSUME NEW p, NEW e \in Nat, NEW b, NEW x \in 1..(e + 3), NEW y, y = PlaceOf(p, x) + 1,
           NEW z, z = PlaceOf(p, y + 1) + 1
    PROVE  /\ y \in Nat /\ z \in Nat
           /\ x >= e => \A f : InFrom(p, f, e, b, x) = FALSE
           /\ ~ (x >= e) /\ y + 1 < e /\ p[y] = DASH =>
                 z \in (x + 1)..(e + 3) /\ \A f : InRange(p, f, e, b, x, z)
           /\ ~ (x >= e) /\ ~ (y + 1 < e /\ p[y] = DASH) =>
                 y \in (x + 1)..(e + 3) /\ \A f : InOne(p, f, e, b, x, y)
<1>1. y \in (x + 1)..(x + 2) /\ z \in (y + 2)..(y + 3)
  BY DEF PlaceOf
<1>2. x >= e => \A f : InFrom(p, f, e, b, x) = FALSE
  BY DEF InFrom
<1>3. ASSUME ~ (x >= e), y + 1 < e, p[y] = DASH, NEW f PROVE InRange(p, f, e, b, x, z)
  <2>1. z - 1 = PlaceOf(p, y + 1)
    BY DEF PlaceOf
  <2>2. InFrom(p, f, e, b, x) =
          (b \in p[PlaceOf(p, x)]..p[PlaceOf(p, y + 1)] \/ f[PlaceOf(p, y + 1) + 1])
    BY <1>3, Zenon DEF InFrom
  <2> QED BY <2>1, <2>2, Zenon DEF InRange
<1>4. ASSUME ~ (x >= e), ~ (y + 1 < e /\ p[y] = DASH), NEW f PROVE InOne(p, f, e, b, x, y)
  <2>2. InFrom(p, f, e, b, x) = (b = p[PlaceOf(p, x)] \/ f[y])
    BY <1>4, Zenon DEF InFrom
  <2> QED BY <2>2, Zenon DEF InOne
<1>5. ~ (x >= e) /\ y + 1 < e => z \in (x + 1)..(e + 3)
  BY <1>1
<1>6. ~ (x >= e) => y \in (x + 1)..(e + 3)
  BY <1>1
<1>7. y \in Nat /\ z \in Nat
  BY <1>1
<1> QED BY <1>2, <1>3, <1>4, <1>5, <1>6, <1>7

\* It looks at higher places of p only.
LEMMA InLooks ==
    ASSUME NEW p, NEW e \in Nat, NEW b, NEW x \in 1..(e + 3), NEW f, NEW g,
           \A y \in 1..(e + 3) : y > x => f[y] = g[y]
    PROVE  InFrom(p, f, e, b, x) = InFrom(p, g, e, b, x)
<1> DEFINE y == PlaceOf(p, x) + 1
           z == PlaceOf(p, y + 1) + 1
<1>1. /\ x >= e => \A q : InFrom(p, q, e, b, x) = FALSE
      /\ ~ (x >= e) /\ y + 1 < e /\ p[y] = DASH =>
                 z \in (x + 1)..(e + 3) /\ \A q : InRange(p, q, e, b, x, z)
      /\ ~ (x >= e) /\ ~ (y + 1 < e /\ p[y] = DASH) =>
                 y \in (x + 1)..(e + 3) /\ \A q : InOne(p, q, e, b, x, y)
  BY InStep
<1>2. \A q : InFrom(p, q, e, b, x) \in BOOLEAN
  BY Zenon DEF InFrom
<1>3. \A u \in (x + 1)..(e + 3) : f[u] = g[u]
  OBVIOUS
<1> HIDE DEF y, z
<1>4. CASE x >= e
  BY <1>1, <1>4
<1>5. CASE ~ (x >= e) /\ y + 1 < e /\ p[y] = DASH
  <2>1. f[z] = g[z] /\ InRange(p, f, e, b, x, z) /\ InRange(p, g, e, b, x, z)
    BY <1>1, <1>3, <1>5
  <2> QED BY <1>2, <2>1, Zenon DEF InRange
<1>6. CASE ~ (x >= e) /\ ~ (y + 1 < e /\ p[y] = DASH)
  <2>1. f[y] = g[y] /\ InOne(p, f, e, b, x, y) /\ InOne(p, g, e, b, x, y)
    BY <1>1, <1>3, <1>6
  <2> QED BY <1>2, <2>1, Zenon DEF InOne
<1> QED BY <1>4, <1>5, <1>6

InSolved(p, f, e, b) == \A x \in 1..(e + 3) : f[x] = InFrom(p, f, e, b, x)

\* inClass has the values its equations give.
LEMMA InRun ==
    ASSUME NEW p, NEW e \in Nat, NEW b
    PROVE  \E f : /\ InSolved(p, f, e, b)
                  /\ \A i : inClass(p, i, e, b) = (IF p[i] = CARET THEN ~ f[i + 1] ELSE f[i])
<1> DEFINE n == e + 3
           D == 1..n
           V == BOOLEAN
           rank == [x \in D |-> n - x]
           rhs == [x \in D |-> [f \in [D -> V] |-> InFrom(p, f, e, b, x)]]
           h == CHOOSE f : InEq(p, f, e, b)
<1>1. n \in Nat /\ rank \in [D -> 0..n] /\ V # {}
  <2>1. \A x \in D : n - x \in 0..n
    OBVIOUS
  <2>2. TRUE \in V /\ n \in Nat
    OBVIOUS
  <2> HIDE DEF V
  <2> QED BY <2>1, <2>2
<1>2. ASSUME NEW x \in D, NEW f \in [D -> V] PROVE InFrom(p, f, e, b, x) \in V
  BY Zenon DEF InFrom
<1>3. /\ rhs \in [D -> [[D -> V] -> V]]
      /\ \A x \in D : \A f \in [D -> V] : rhs[x][f] = InFrom(p, f, e, b, x)
  <2>1. \A x \in D, f \in [D -> V] : InFrom(p, f, e, b, x) \in V
    BY <1>2
  <2> HIDE DEF D, V
  <2> QED BY <2>1
<1> HIDE DEF rhs
<1>4. Looks(D, V, rank, rhs)
  <2> SUFFICES ASSUME NEW x \in D, NEW f \in [D -> V], NEW g \in [D -> V],
                      \A y \in D : rank[y] < rank[x] => f[y] = g[y]
               PROVE  rhs[x][f] = rhs[x][g]
    BY Zenon DEF Looks
  <2>1. \A y \in D : y > x => f[y] = g[y]
    OBVIOUS
  <2>2. InFrom(p, f, e, b, x) = InFrom(p, g, e, b, x)
    BY <2>1, InLooks
  <2> QED BY <1>3, <2>2
<1>10. Recursion(D, V, n, rank, rhs)
  BY <1>1, <1>3, <1>4 DEF Recursion
<1>5. \E f : InEq(p, f, e, b)
  <2>1. PICK f : Solution(D, V, rhs, f)
    BY <1>10, HasFunction
  <2>2. f = [x \in D |-> InFrom(p, f, e, b, x)]
    BY <1>3, <2>1 DEF Solution
  <2> QED BY <2>2 DEF InEq
<1>6. InEq(p, h, e, b)
  BY <1>5, Zenon
<1>7. \A i : inClass(p, i, e, b) = (IF p[i] = CARET THEN ~ h[i + 1] ELSE h[i])
  BY InIs
<1> HIDE DEF h
<1>8. \A x \in D : h[x] = InFrom(p, h, e, b, x)
  BY <1>6 DEF InEq
<1> QED BY <1>7, <1>8 DEF InSolved

\* The recursion of ranges.
Dash(c) == c = [byte |-> DASH, esc |-> FALSE]
Pair(c, i, j) == <<classByte(c[i]), classByte(c[j])>>
RangeFrom(c, f, i) ==
    IF i > Len(c) THEN {}
    ELSE IF i + 2 <= Len(c) /\ Dash(c[i + 1]) THEN {Pair(c, i, i + 2)} \cup f[i + 3]
    ELSE {Pair(c, i, i)} \cup f[i + 1]
RangeEq(c, f) == f = [i \in 1..(Len(c) + 1) |-> RangeFrom(c, f, i)]

\* ranges looks its value up, behind a caret if there is one.
LEMMA RangesIs ==
    ASSUME NEW c
    PROVE  ranges(c) = (CHOOSE f : RangeEq(c, f))[IF negated(c) THEN 2 ELSE 1]
BY Zenon DEF ranges, RangeEq, RangeFrom, Dash, Pair

RangeRules(c, f, i) ==
    /\ i > Len(c) => RangeFrom(c, f, i) = {}
    /\ ~ (i > Len(c)) /\ i + 2 <= Len(c) /\ Dash(c[i + 1]) =>
          RangeFrom(c, f, i) = {Pair(c, i, i + 2)} \cup f[i + 3]
    /\ ~ (i > Len(c)) /\ ~ (i + 2 <= Len(c) /\ Dash(c[i + 1])) =>
          RangeFrom(c, f, i) = {Pair(c, i, i)} \cup f[i + 1]

\* ranges takes one of the two.
LEMMA RangeCases ==
    ASSUME NEW c, NEW f, NEW i
    PROVE  RangeRules(c, f, i)
BY Zenon DEF RangeRules, RangeFrom

RangesSolved(c, f) == \A i \in 1..(Len(c) + 1) : f[i] = RangeFrom(c, f, i)

\* ranges has the values its equations give.
LEMMA RangesRun ==
    ASSUME NEW c, Len(c) \in Nat
    PROVE  \E f : /\ RangesSolved(c, f)
                  /\ ranges(c) = f[IF negated(c) THEN 2 ELSE 1]
<1> DEFINE n == Len(c) + 1
           D == 1..n
           V == SUBSET {Pair(c, u[1], u[2]) : u \in (1..Len(c)) \X (1..Len(c))}
           rank == [x \in D |-> n - x]
           rhs == [x \in D |-> [f \in [D -> V] |-> RangeFrom(c, f, x)]]
           h == CHOOSE f : RangeEq(c, f)
<1>1. n \in Nat /\ rank \in [D -> 0..n] /\ V # {}
  <2>1. \A x \in D : n - x \in 0..n
    OBVIOUS
  <2>2. {} \in V /\ n \in Nat
    OBVIOUS
  <2> HIDE DEF V
  <2> QED BY <2>1, <2>2
<1>11. ASSUME NEW i \in 1..Len(c), NEW j \in 1..Len(c), NEW s \in V
       PROVE  {Pair(c, i, j)} \cup s \in V
  <2>1. Pair(c, i, j) \in {Pair(c, u[1], u[2]) : u \in (1..Len(c)) \X (1..Len(c))}
    <3>1. <<i, j>> \in (1..Len(c)) \X (1..Len(c)) /\ <<i, j>>[1] = i /\ <<i, j>>[2] = j
      OBVIOUS
    <3> QED BY <3>1
  <2> QED BY <2>1
<1>12. {} \in V
  OBVIOUS
<1> HIDE DEF V
<1>2. ASSUME NEW x \in D, NEW f \in [D -> V] PROVE RangeFrom(c, f, x) \in V
  <2>0. RangeRules(c, f, x)
    BY RangeCases
  <2>1. CASE x > Len(c)
    BY <1>12, <2>0, <2>1 DEF RangeRules
  <2>2. CASE ~ (x > Len(c)) /\ x + 2 <= Len(c) /\ Dash(c[x + 1])
    <3>1. x \in 1..Len(c) /\ x + 2 \in 1..Len(c) /\ x + 3 \in D
      BY <2>2
    <3>2. f[x + 3] \in V
      BY <3>1
    <3>3. RangeFrom(c, f, x) = {Pair(c, x, x + 2)} \cup f[x + 3]
      BY <2>0, <2>2, Zenon DEF RangeRules
    <3> QED BY <1>11, <3>1, <3>2, <3>3
  <2>3. CASE ~ (x > Len(c)) /\ ~ (x + 2 <= Len(c) /\ Dash(c[x + 1]))
    <3>1. x \in 1..Len(c) /\ x + 1 \in D
      BY <2>3
    <3>2. f[x + 1] \in V
      BY <3>1
    <3>3. RangeFrom(c, f, x) = {Pair(c, x, x)} \cup f[x + 1]
      BY <2>0, <2>3, Zenon DEF RangeRules
    <3> QED BY <1>11, <3>1, <3>2, <3>3
  <2> QED BY <2>1, <2>2, <2>3
<1>3. /\ rhs \in [D -> [[D -> V] -> V]]
      /\ \A x \in D : \A f \in [D -> V] : rhs[x][f] = RangeFrom(c, f, x)
  <2>1. \A x \in D, f \in [D -> V] : RangeFrom(c, f, x) \in V
    BY <1>2
  <2> HIDE DEF D
  <2> QED BY <2>1
<1> HIDE DEF rhs
<1>4. Looks(D, V, rank, rhs)
  <2> SUFFICES ASSUME NEW x \in D, NEW f \in [D -> V], NEW g \in [D -> V],
                      \A y \in D : rank[y] < rank[x] => f[y] = g[y]
               PROVE  rhs[x][f] = rhs[x][g]
    BY Zenon DEF Looks
  <2>1. \A y \in D : y > x => f[y] = g[y]
    OBVIOUS
  <2>2. RangeFrom(c, f, x) = RangeFrom(c, g, x)
    <3>0. RangeRules(c, f, x) /\ RangeRules(c, g, x)
      BY RangeCases
    <3>1. x + 2 <= Len(c) => f[x + 3] = g[x + 3]
      BY <2>1
    <3>2. ~ (x > Len(c)) => f[x + 1] = g[x + 1]
      BY <2>1
    <3> QED BY <3>0, <3>1, <3>2, Zenon DEF RangeRules
  <2> QED BY <1>3, <2>2
<1>10. Recursion(D, V, n, rank, rhs)
  BY <1>1, <1>3, <1>4 DEF Recursion
<1>5. \E f : RangeEq(c, f)
  <2>1. PICK f : Solution(D, V, rhs, f)
    BY <1>10, HasFunction
  <2>2. f = [x \in D |-> RangeFrom(c, f, x)]
    BY <1>3, <2>1 DEF Solution
  <2> QED BY <2>2 DEF RangeEq
<1>6. RangeEq(c, h)
  BY <1>5, Zenon
<1>7. ranges(c) = h[IF negated(c) THEN 2 ELSE 1]
  BY RangesIs
<1> HIDE DEF h
<1>8. \A x \in D : h[x] = RangeFrom(c, h, x)
  BY <1>6 DEF RangeEq
<1> QED BY <1>7, <1>8 DEF RangesSolved

-----------------------------------------------------------------------------
(* Classes.  A class means the same to the pattern and to the expression.  *)

\* The byte that a character of a class is.
Shown(p, pos, m) == p[PlaceOf(p, pos[m])]
CharOf(p, pos, c, m) ==
    /\ PlaceOf(p, pos[m]) + 1 = pos[m + 1] /\ PlaceOf(p, pos[m]) \in 1..Len(p)
    /\ Shown(p, pos, m) \in Byte /\ c[m].byte = Shown(p, pos, m)
    /\ c[m].esc <=> p[pos[m]] = ESC
    /\ classByte(c[m]) # Refused => classByte(c[m]) = Shown(p, pos, m)

\* Each character of a class is the byte of p at its place.
LEMMA Spelled ==
    ASSUME NEW p \in Seq(Byte), ~ EscapedLetter(p),
           NEW i, NEW e, NEW c, NEW pos, Spells(p, i, e, c, pos)
    PROVE  /\ \A m \in 1..Len(c) : CharOf(p, pos, c, m) /\ pos[m] < e /\ pos[m] < pos[m + 1]
           /\ \A m \in 1..(Len(c) + 1) : pos[m] \in 1..(Len(p) + 2) /\ pos[m] <= e
<1>1. Len(p) \in Nat /\ Len(c) \in Nat /\ pos \in [1..(Len(c) + 1) -> 1..(Len(p) + 2)]
      /\ pos[Len(c) + 1] = e
  BY LenProperties DEF Spells
<1>2. ASSUME NEW m \in 1..Len(c) PROVE CharOf(p, pos, c, m) /\ pos[m] < pos[m + 1]
  <2>1. /\ pos[m] <= Len(p) /\ p[pos[m]] # CLOSE
        /\ \/ /\ p[pos[m]] # ESC /\ pos[m + 1] = pos[m] + 1
              /\ c[m] = [byte |-> p[pos[m]], esc |-> FALSE]
           \/ /\ p[pos[m]] = ESC /\ pos[m] + 1 <= Len(p) /\ pos[m + 1] = pos[m] + 2
              /\ c[m] = [byte |-> p[pos[m] + 1], esc |-> TRUE]
    BY DEF Spells
  <2>2. pos[m] \in 1..(Len(p) + 2)
    BY <1>1
  <2> DEFINE x == pos[m]
             y == pos[m + 1]
             d == c[m]
  <2> HIDE DEF x, y, d
  <2>3. CASE p[x] # ESC /\ y = x + 1 /\ d = [byte |-> p[x], esc |-> FALSE]
    <3>1. PlaceOf(p, x) = x
      BY <2>3 DEF PlaceOf
    <3>2. d.byte = p[x] /\ d.esc = FALSE
      BY <2>3
    <3>3. classByte(d) = p[x]
      BY <3>2 DEF classByte
    <3>4. x \in 1..Len(p) /\ p[x] \in Byte
      BY <1>1, <2>1, <2>2, ElementOfSeq DEF x
    <3>5. PlaceOf(p, x) + 1 = y /\ PlaceOf(p, x) \in 1..Len(p) /\ p[PlaceOf(p, x)] \in Byte /\ x < y
      BY <2>3, <3>1, <3>4
    <3>6. d.byte = p[PlaceOf(p, x)] /\ classByte(d) = p[PlaceOf(p, x)] /\ (d.esc <=> p[x] = ESC)
      BY <2>3, <3>1, <3>2, <3>3
    <3> QED BY <3>5, <3>6 DEF CharOf, Shown, x, y, d
  <2>4. CASE p[x] = ESC /\ x + 1 <= Len(p) /\ y = x + 2 /\ d = [byte |-> p[x + 1], esc |-> TRUE]
    <3>1. PlaceOf(p, x) = x + 1
      BY <2>4 DEF PlaceOf
    <3>2. d.byte = p[x + 1] /\ d.esc = TRUE
      BY <2>4
    <3>0. x \in 1..(Len(p) + 2)
      BY <2>2 DEF x
    <3>4. x + 1 \in 2..Len(p) /\ x + 1 \in 1..Len(p)
      BY <1>1, <2>4, <3>0
    <3>5. p[x + 1] \in Byte
      BY <3>4, ElementOfSeq
    <3>6. p[x + 1] # 97
      <4> SUFFICES ASSUME p[x + 1] = 97 PROVE FALSE
        OBVIOUS
      <4>1. p[(x + 1) - 1] = ESC
        BY <2>4, <3>0
      <4> QED BY <3>4, <4>1 DEF EscapedLetter
    <3>3. classByte(d) # Refused => classByte(d) = p[x + 1]
      BY <3>2, <3>6 DEF classByte
    <3>7. PlaceOf(p, x) + 1 = y /\ PlaceOf(p, x) \in 1..Len(p) /\ p[PlaceOf(p, x)] \in Byte /\ x < y
      BY <2>4, <3>0, <3>1, <3>4, <3>5
    <3>8. /\ d.byte = p[PlaceOf(p, x)] /\ (d.esc <=> p[x] = ESC)
          /\ classByte(d) # Refused => classByte(d) = p[PlaceOf(p, x)]
      BY <2>4, <3>1, <3>2, <3>3
    <3> QED BY <3>7, <3>8 DEF CharOf, Shown, x, y, d
  <2> QED BY <2>1, <2>3, <2>4 DEF x, y, d
<1> DEFINE n == Len(c) + 1
           S == {m \in 0..n : m > 0 => pos[m] <= e}
<1>3. ASSUME NEW m \in 0..n, \A j \in (m + 1)..n : j \in S PROVE m \in S
  <2>1. CASE m = 0 \/ m = n
    BY <1>1, <2>1
  <2>2. CASE m \in 1..Len(c)
    <3>1. m \in 1..n /\ m + 1 \in 1..n /\ m + 1 \in (m + 1)..n /\ m + 1 > 0
      BY <1>1, <2>2
    <3>2. pos[m] < pos[m + 1]
      BY <1>2, <2>2
    <3>3. pos[m + 1] <= e
      BY <1>3, <3>1
    <3>4. pos[m] \in Int /\ pos[m + 1] \in Int /\ e \in Int
      BY <1>1, <3>1
    <3> QED BY <3>2, <3>3, <3>4
  <2> QED BY <1>1, <2>1, <2>2
<1>4. n \in Nat
  BY <1>1
<1>5. \A m \in 0..n : m \in S
  <2> HIDE DEF S, n
  <2> QED BY <1>3, <1>4, FromBehind
<1>6. ASSUME NEW m \in 1..(Len(c) + 1) PROVE pos[m] \in 1..(Len(p) + 2) /\ pos[m] <= e
  BY <1>1, <1>5
<1>7. ASSUME NEW m \in 1..Len(c) PROVE pos[m] < e
  <2>1. m \in 1..(Len(c) + 1) /\ m + 1 \in 1..(Len(c) + 1) /\ Len(c) + 1 \in 1..(Len(c) + 1)
    BY <1>1
  <2>2. pos[m] \in Int /\ pos[m + 1] \in Int /\ pos[m + 1] <= e /\ pos[m] < pos[m + 1]
    BY <1>2, <1>6, <2>1
  <2>3. e \in Int
    BY <1>1, <2>1
  <2> QED BY <2>2, <2>3
<1> QED BY <1>2, <1>6, <1>7

\* Both read a range at the same places.
LEMMA SameRanges ==
    ASSUME NEW p \in Seq(Byte), ~ EscapedLetter(p),
           NEW i, NEW e, NEW c, NEW pos, Spells(p, i, e, c, pos), NEW m \in 1..Len(c)
    PROVE  /\ (pos[m + 1] + 1 < e /\ p[pos[m + 1]] = DASH) <=> (m + 2 <= Len(c) /\ Dash(c[m + 1]))
           /\ m + 2 <= Len(c) /\ Dash(c[m + 1]) => pos[m + 2] = pos[m + 1] + 1
<1>1. /\ \A j \in 1..Len(c) : CharOf(p, pos, c, j) /\ pos[j] < e /\ pos[j] < pos[j + 1]
      /\ \A j \in 1..(Len(c) + 1) : pos[j] \in 1..(Len(p) + 2) /\ pos[j] <= e
  BY Spelled
<1>2. Len(c) \in Nat /\ pos[Len(c) + 1] = e
  BY DEF Spells
<1>3. pos[m + 1] \in Int /\ e \in Int
  BY <1>1, <1>2
<1>4. CASE m = Len(c)
  BY <1>2, <1>3, <1>4
<1>5. CASE m + 1 \in 1..Len(c)
  <2>1. \/ /\ p[pos[m + 1]] # ESC /\ pos[(m + 1) + 1] = pos[m + 1] + 1
           /\ c[m + 1] = [byte |-> p[pos[m + 1]], esc |-> FALSE]
        \/ /\ p[pos[m + 1]] = ESC /\ c[m + 1] = [byte |-> p[pos[m + 1] + 1], esc |-> TRUE]
    BY <1>5 DEF Spells
  <2>2. (m + 1) + 1 = m + 2 /\ m + 2 \in 1..(Len(c) + 1)
    BY <1>2, <1>5
  <2>3. Dash(c[m + 1]) <=> p[pos[m + 1]] = DASH
    <3> DEFINE d == c[m + 1]
               q == p[pos[m + 1]]
    <3>1. \/ q # ESC /\ d = [byte |-> q, esc |-> FALSE]
          \/ q = ESC /\ d = [byte |-> p[pos[m + 1] + 1], esc |-> TRUE]
      BY <2>1
    <3> HIDE DEF d, q
    <3>2. Dash(d) <=> q = DASH
      <4>1. CASE q # ESC /\ d = [byte |-> q, esc |-> FALSE]
        BY <4>1 DEF Dash
      <4>2. CASE q = ESC /\ d = [byte |-> p[pos[m + 1] + 1], esc |-> TRUE]
        BY <4>2 DEF Dash, ESC, DASH
      <4> QED BY <3>1, <4>1, <4>2
    <3> QED BY <3>2 DEF d, q
  <2>4. Dash(c[m + 1]) => pos[m + 2] = pos[m + 1] + 1
    BY <2>1, <2>2, <2>3 DEF ESC, DASH
  <2>5. m + 2 <= Len(c) => pos[m + 2] < e
    BY <1>1, <1>2, <2>2
  <2>6. ~ (m + 2 <= Len(c)) => pos[m + 2] = e
    <3>1. ~ (m + 2 <= Len(c)) => m + 2 = Len(c) + 1
      BY <1>2, <2>2
    <3> QED BY <1>2, <3>1
  <2> QED BY <1>3, <2>3, <2>4, <2>5, <2>6
<1> QED BY <1>2, <1>4, <1>5

NoneRefused(s) == \A r \in s : Refused \notin {r[1], r[2]}
AnyHas(s, b) == \E r \in s : b \in r[1]..r[2]

\* A byte is in a range that is written first, or in another.
LEMMA AnyHasPair ==
    ASSUME NEW u, NEW v, NEW s, NEW b, NoneRefused({<<u, v>>} \cup s)
    PROVE  /\ u # Refused /\ v # Refused /\ NoneRefused(s)
           /\ AnyHas({<<u, v>>} \cup s, b) <=> (b \in u..v \/ AnyHas(s, b))
<1>1. <<u, v>> \in {<<u, v>>} \cup s /\ <<u, v>>[1] = u /\ <<u, v>>[2] = v
  OBVIOUS
<1>2. u # Refused /\ v # Refused
  <2>1. Refused \notin {<<u, v>>[1], <<u, v>>[2]}
    BY <1>1, Zenon DEF NoneRefused
  <2> QED BY <1>1, <2>1
<1>3. NoneRefused(s)
  BY DEF NoneRefused
<1>4. AnyHas({<<u, v>>} \cup s, b) <=> (b \in u..v \/ AnyHas(s, b))
  BY <1>1 DEF AnyHas
<1> QED BY <1>2, <1>3, <1>4

\* The two recursions over a class agree at every character.
LEMMA ClassRuns ==
    ASSUME NEW p \in Seq(Byte), ~ EscapedLetter(p),
           NEW i, NEW e, NEW c, NEW pos, Spells(p, i, e, c, pos), NEW b \in Byte,
           NEW f, InSolved(p, f, e, b),
           NEW g, RangesSolved(c, g)
    PROVE  \A m \in 1..(Len(c) + 1) : NoneRefused(g[m]) => (f[pos[m]] <=> AnyHas(g[m], b))
<1> DEFINE n == Len(c) + 1
           S == {m \in 0..n : m > 0 => (NoneRefused(g[m]) => (f[pos[m]] <=> AnyHas(g[m], b)))}
<1>1. /\ \A j \in 1..Len(c) : CharOf(p, pos, c, j) /\ pos[j] < e /\ pos[j] < pos[j + 1]
      /\ \A j \in 1..(Len(c) + 1) : pos[j] \in 1..(Len(p) + 2) /\ pos[j] <= e
  BY Spelled
<1>0. /\ \A x \in 1..(e + 3) : f[x] = InFrom(p, f, e, b, x)
      /\ \A m \in 1..(Len(c) + 1) : g[m] = RangeFrom(c, g, m)
  BY DEF InSolved, RangesSolved
<1>2. Len(c) \in Nat /\ pos[Len(c) + 1] = e /\ Len(p) \in Nat
  BY LenProperties DEF Spells
<1>3. e \in 1..(Len(p) + 2) /\ e \in Nat
  BY <1>1, <1>2
<1>4. n \in Nat
  BY <1>2
<1>5. ASSUME NEW m \in 0..n, \A j \in (m + 1)..n : j \in S PROVE m \in S
  <2>1. CASE m = 0
    BY <2>1
  <2>2. CASE m = n
    <3>1. g[m] = {}
      <4>1. RangeRules(c, g, m) /\ m > Len(c)
        BY <1>2, <2>2, RangeCases
      <4>2. m \in 1..(Len(c) + 1)
        BY <1>2, <2>2
      <4> QED BY <1>0, <4>1, <4>2 DEF RangeRules
    <3>2. f[e] = FALSE
      <4>1. e \in 1..(e + 3) /\ e >= e
        BY <1>3
      <4>2. InFrom(p, f, e, b, e) = FALSE
        BY <4>1, Zenon DEF InFrom
      <4> QED BY <1>0, <4>1, <4>2
    <3>3. f[pos[m]] = FALSE
      BY <1>2, <2>2, <3>2
    <3>4. ~ AnyHas(g[m], b)
      BY <3>1 DEF AnyHas
    <3> QED BY <3>3, <3>4
  <2>3. CASE m \in 1..Len(c)
    <3> SUFFICES ASSUME NoneRefused(g[m]) PROVE f[pos[m]] <=> AnyHas(g[m], b)
      OBVIOUS
    <3> DEFINE x == pos[m]
               y == PlaceOf(p, x) + 1
               z == PlaceOf(p, y + 1) + 1
    <3>1. CharOf(p, pos, c, m) /\ x < e /\ y = pos[m + 1] /\ x \in 1..(e + 3) /\ x \in Nat
      <4>1. CharOf(p, pos, c, m) /\ x < e /\ x \in 1..(Len(p) + 2)
        BY <1>1, <1>2, <2>3
      <4> QED BY <1>2, <1>3, <4>1 DEF CharOf
    <3>2. f[x] = InFrom(p, f, e, b, x)
      BY <1>0, <3>1
    <3>3. /\ ~ (x >= e) /\ y + 1 < e /\ p[y] = DASH => InRange(p, f, e, b, x, z)
          /\ ~ (x >= e) /\ ~ (y + 1 < e /\ p[y] = DASH) => InOne(p, f, e, b, x, y)
      BY <1>3, <3>1, InStep
    <3>4. /\ (y + 1 < e /\ p[y] = DASH) <=> (m + 2 <= Len(c) /\ Dash(c[m + 1]))
          /\ m + 2 <= Len(c) /\ Dash(c[m + 1]) => pos[m + 2] = y + 1
      BY <2>3, <3>1, SameRanges
    <3>5. RangeRules(c, g, m) /\ g[m] = RangeFrom(c, g, m) /\ ~ (m > Len(c))
      BY <1>0, <1>2, <2>3, RangeCases
    <3>6. ~ (x >= e)
      BY <1>3, <3>1
    <3> DEFINE s(j) == Shown(p, pos, j)
    <3>7. s(m) \in Byte /\ s(m) = p[PlaceOf(p, x)]
          /\ (classByte(c[m]) # Refused => classByte(c[m]) = s(m))
      BY <3>1 DEF CharOf, Shown
    <3> HIDE DEF y, z, x
    <3>8. CASE y + 1 < e /\ p[y] = DASH
      <4>1. m + 2 <= Len(c) /\ Dash(c[m + 1]) /\ pos[m + 2] = y + 1
        BY <3>4, <3>8
      <4>2. m + 2 \in 1..Len(c) /\ m + 3 \in 1..n /\ m + 3 \in (m + 1)..n /\ (m + 2) + 1 = m + 3
        BY <1>2, <2>3, <4>1
      <4>3. CharOf(p, pos, c, m + 2)
        BY <1>1, <4>2
      <4>4. z = pos[m + 3]
        BY <4>1, <4>2, <4>3 DEF CharOf, z
      <4>5. z - 1 = PlaceOf(p, pos[m + 2])
        BY <4>1, <4>3 DEF CharOf, z
      <4>6. f[x] <=> (b \in s(m)..s(m + 2) \/ f[pos[m + 3]])
        <5>1. InRange(p, f, e, b, x, z)
          BY <3>3, <3>6, <3>8
        <5>2. f[x] <=> (b \in p[PlaceOf(p, x)]..p[z - 1] \/ f[z])
          BY <3>2, <5>1, Zenon DEF InRange
        <5> QED BY <3>7, <4>4, <4>5, <5>2, Zenon DEF Shown
      <4>7. g[m] = {<<classByte(c[m]), classByte(c[m + 2])>>} \cup g[m + 3]
        BY <3>5, <4>1, Zenon DEF RangeRules, Pair
      <4>8. /\ classByte(c[m]) # Refused /\ classByte(c[m + 2]) # Refused
            /\ NoneRefused(g[m + 3])
            /\ AnyHas(g[m], b) <=>
                   (b \in classByte(c[m])..classByte(c[m + 2]) \/ AnyHas(g[m + 3], b))
        <5> DEFINE u == classByte(c[m])
                   v == classByte(c[m + 2])
                   t == g[m + 3]
        <5>1. NoneRefused({<<u, v>>} \cup t)
          BY <4>7
        <5> HIDE DEF u, v, t
        <5>2. /\ u # Refused /\ v # Refused /\ NoneRefused(t)
              /\ AnyHas({<<u, v>>} \cup t, b) <=> (b \in u..v \/ AnyHas(t, b))
          BY <5>1, AnyHasPair
        <5> QED BY <4>7, <5>2 DEF u, v, t
      <4>9. classByte(c[m]) = s(m) /\ classByte(c[m + 2]) = s(m + 2)
        BY <3>7, <4>3, <4>8 DEF CharOf
      <4>10. f[pos[m + 3]] <=> AnyHas(g[m + 3], b)
        <5>1. m + 3 \in S /\ m + 3 > 0
          BY <1>5, <4>2
        <5> QED BY <4>8, <5>1
      <4> HIDE DEF s
      <4> QED BY <4>6, <4>8, <4>9, <4>10, Zenon DEF x
    <3>9. CASE ~ (y + 1 < e /\ p[y] = DASH)
      <4>1. ~ (m + 2 <= Len(c) /\ Dash(c[m + 1])) /\ pos[m + 1] = y
        BY <3>1, <3>4, <3>9
      <4>2. m + 1 \in 1..n /\ m + 1 \in (m + 1)..n
        BY <1>2, <2>3
      <4>6. f[x] <=> (b = s(m) \/ f[pos[m + 1]])
        <5>1. InOne(p, f, e, b, x, y)
          BY <3>3, <3>6, <3>9
        <5>2. f[x] <=> (b = p[PlaceOf(p, x)] \/ f[y])
          BY <3>2, <5>1, Zenon DEF InOne
        <5> QED BY <3>7, <4>1, <5>2, Zenon
      <4>7. g[m] = {<<classByte(c[m]), classByte(c[m])>>} \cup g[m + 1]
        BY <3>5, <4>1, Zenon DEF RangeRules, Pair
      <4>8. /\ classByte(c[m]) # Refused /\ NoneRefused(g[m + 1])
            /\ AnyHas(g[m], b) <=> (b \in classByte(c[m])..classByte(c[m]) \/ AnyHas(g[m + 1], b))
        <5> DEFINE u == classByte(c[m])
                   t == g[m + 1]
        <5>1. NoneRefused({<<u, u>>} \cup t)
          BY <4>7
        <5> HIDE DEF u, t
        <5>2. /\ u # Refused /\ NoneRefused(t)
              /\ AnyHas({<<u, u>>} \cup t, b) <=> (b \in u..u \/ AnyHas(t, b))
          BY <5>1, AnyHasPair
        <5> QED BY <4>7, <5>2 DEF u, t
      <4>9. classByte(c[m]) = s(m)
        BY <3>7, <4>8
      <4>10. f[pos[m + 1]] <=> AnyHas(g[m + 1], b)
        <5>1. m + 1 \in S /\ m + 1 > 0
          BY <1>5, <4>2
        <5> QED BY <4>8, <5>1
      <4>11. b \in s(m)..s(m) <=> b = s(m)
        <5> DEFINE v == s(m)
        <5>1. v \in Byte
          BY <3>7
        <5> HIDE DEF v
        <5>2. b \in v..v <=> b = v
          BY <5>1 DEF Byte
        <5> QED BY <5>2 DEF v
      <4> HIDE DEF s
      <4> QED BY <4>6, <4>8, <4>9, <4>10, <4>11, Zenon DEF x
    <3> QED BY <3>8, <3>9 DEF x
  <2> QED BY <1>2, <2>1, <2>2, <2>3
<1>6. \A m \in 0..n : m \in S
  <2> HIDE DEF S, n
  <2> QED BY <1>4, <1>5, FromBehind
<1> QED BY <1>4, <1>6

\* A class of a pattern means the same in the pattern and in the expression.
LEMMA ClassMatches ==
    ASSUME NEW p \in Seq(Byte), ~ EscapedLetter(p),
           NEW i, NEW e, NEW c, NEW pos, Spells(p, i, e, c, pos), Len(c) > 0, ~ badClass(c),
           NEW b \in Byte
    PROVE  inClass(p, i, e, b) <=> inRanges(c, b)
<1>1. Len(c) \in Nat /\ pos[Len(c) + 1] = e /\ pos[1] = i /\ Len(p) \in Nat
  BY LenProperties DEF Spells
<1>2. \A m \in 1..(Len(c) + 1) : pos[m] \in 1..(Len(p) + 2)
  BY Spelled
<1>3. e \in Nat /\ i \in Nat
  BY <1>1, <1>2
<1>4. PICK f : /\ InSolved(p, f, e, b)
               /\ \A j : inClass(p, j, e, b) = (IF p[j] = CARET THEN ~ f[j + 1] ELSE f[j])
  BY <1>3, InRun
<1>5. PICK g : /\ RangesSolved(c, g)
               /\ ranges(c) = g[IF negated(c) THEN 2 ELSE 1]
  BY <1>1, RangesRun
<1>6. \A m \in 1..(Len(c) + 1) : NoneRefused(g[m]) => (f[pos[m]] <=> AnyHas(g[m], b))
  BY <1>4, <1>5, ClassRuns
<1>7. NoneRefused(ranges(c)) /\ (negated(c) => Len(c) # 1)
  BY Zenon DEF badClass, NoneRefused
<1>8. negated(c) <=> p[i] = CARET
  <2>1. 1 \in 1..Len(c)
    BY <1>1
  <2>2. \/ p[pos[1]] # ESC /\ c[1] = [byte |-> p[pos[1]], esc |-> FALSE]
        \/ p[pos[1]] = ESC /\ c[1] = [byte |-> p[pos[1] + 1], esc |-> TRUE]
    BY <2>1 DEF Spells
  <2>3. CASE p[i] # ESC /\ c[1] = [byte |-> p[i], esc |-> FALSE]
    BY <2>3 DEF negated
  <2>4. CASE p[i] = ESC /\ c[1] = [byte |-> p[i + 1], esc |-> TRUE]
    BY <2>4 DEF negated, ESC, CARET
  <2> QED BY <1>1, <2>2, <2>3, <2>4
<1>9. inRanges(c, b) = (AnyHas(ranges(c), b) # negated(c))
  BY Zenon DEF inRanges, AnyHas
<1>10. inClass(p, i, e, b) = (IF p[i] = CARET THEN ~ f[i + 1] ELSE f[i])
  BY <1>4
<1>11. CASE ~ negated(c)
  <2>1. ranges(c) = g[1] /\ 1 \in 1..(Len(c) + 1)
    BY <1>1, <1>5, <1>11
  <2>2. f[i] <=> AnyHas(ranges(c), b)
    BY <1>1, <1>6, <1>7, <2>1
  <2>3. inClass(p, i, e, b) = f[i]
    BY <1>8, <1>10, <1>11, Zenon
  <2>4. inRanges(c, b) <=> AnyHas(ranges(c), b)
    BY <1>9, <1>11 DEF negated, AnyHas
  <2> QED BY <2>2, <2>3, <2>4, Zenon
<1>12. CASE negated(c)
  <2>1. ranges(c) = g[2] /\ 2 \in 1..(Len(c) + 1) /\ 1 \in 1..Len(c)
    BY <1>1, <1>5, <1>7, <1>12
  <2>2. pos[2] = i + 1
    <3>1. p[pos[1]] # ESC
      BY <1>1, <1>8, <1>12 DEF ESC, CARET
    <3>2. pos[1 + 1] = pos[1] + 1
      BY <2>1, <3>1 DEF Spells
    <3> QED BY <1>1, <3>2
  <2>3. f[i + 1] <=> AnyHas(ranges(c), b)
    BY <1>6, <1>7, <2>1, <2>2
  <2>4. inClass(p, i, e, b) = ~ f[i + 1]
    BY <1>8, <1>10, <1>12, Zenon
  <2>5. inRanges(c, b) <=> ~ AnyHas(ranges(c), b)
    BY <1>9, <1>12 DEF negated, AnyHas
  <2> QED BY <2>3, <2>4, <2>5, Zenon
<1> QED BY <1>11, <1>12

-----------------------------------------------------------------------------
(* The scan of a pattern, and how its classes end.                         *)

\* Outside of a class there are no characters of one.
LEMMA NoClass ==
    ASSUME NEW p, Len(p) \in Nat, NEW s, Scanned(p, s)
    PROVE  \A i \in 0..Len(p) : s[i].mode \in {"text", "escape"} => s[i].class = <<>>
<1> DEFINE S == {i \in 0..Len(p) : s[i].mode \in {"text", "escape"} => s[i].class = <<>>}
<1>1. 0 \in S
  BY DEF Scanned, IsScan, Scan0
<1>2. ASSUME NEW i \in 0..(Len(p) - 1), i \in S PROVE i + 1 \in S
  <2>1. i + 1 \in 1..Len(p) /\ (i + 1) - 1 = i /\ i + 1 \in 0..Len(p) /\ i \in 0..Len(p)
    OBVIOUS
  <2> DEFINE b == p[i + 1]
             u == s[i]
             t == s[i + 1]
  <2>2. Moved(u, b, t) /\ Typed(u) /\ (u.mode \in {"text", "escape"} => u.class = <<>>)
    BY <1>2, <2>1, ScanTyped DEF Scanned
  <2> HIDE DEF b, u, t
  <2>3. t.mode \in {"text", "escape"} => t.class = <<>>
    <3>1. CASE u.mode = "text"
      BY <2>2, <3>1 DEF Moved, Is
    <3>2. CASE u.mode = "escape"
      BY <2>2, <3>2 DEF Moved, Is
    <3>3. CASE u.mode = "class"
      BY <2>2, <3>3 DEF Moved, Is
    <3>4. CASE u.mode \in {"classEscape", "nil"}
      BY <2>2, <3>4 DEF Moved, Is
    <3> QED BY <2>2, <3>1, <3>2, <3>3, <3>4 DEF Typed
  <2> QED BY <2>1, <2>3 DEF t
<1>3. \A i \in 0..Len(p) : i \in S
  <2> HIDE DEF S
  <2> QED BY <1>1, <1>2, UpTo
<1> QED BY <1>3

\* When the pattern has been refused it stays refused.
LEMMA NilStays ==
    ASSUME NEW p, Len(p) \in Nat, NEW s, Scanned(p, s), NEW e \in 0..Len(p), s[e].mode = "nil"
    PROVE  s[Len(p)].mode = "nil"
<1> DEFINE n == Len(p)
           S == {i \in 0..n : i >= e => s[i].mode = "nil"}
<1>1. 0 \in S
  OBVIOUS
<1>2. ASSUME NEW i \in 0..(n - 1), i \in S PROVE i + 1 \in S
  <2>1. i + 1 \in 1..n /\ (i + 1) - 1 = i /\ i + 1 \in 0..n
    OBVIOUS
  <2>2. Moved(s[i], p[i + 1], s[i + 1])
    BY <2>1 DEF Scanned
  <2>3. CASE i >= e
    BY <1>2, <2>1, <2>2, <2>3 DEF Moved
  <2>4. CASE ~ (i >= e)
    <3>1. i + 1 >= e => i + 1 = e
      BY <2>4
    <3> QED BY <2>1, <3>1
  <2> QED BY <2>3, <2>4
<1>3. \A i \in 0..n : i \in S
  <2> HIDE DEF S
  <2> QED BY <1>1, <1>2, UpTo
<1>4. n \in S
  BY <1>3
<1> QED BY <1>4

\* What has been written stays.
Grows(a, b) == Len(a) <= Len(b) /\ \A x \in 1..Len(a) : b[x] = a[x]

\* One item more.
LEMMA GrowsAppend ==
    ASSUME NEW a, NEW V, a \in Seq(V), NEW x
    PROVE  Grows(a, a) /\ Grows(a, Append(a, x)) /\ Len(Append(a, x)) = Len(a) + 1
           /\ Append(a, x)[Len(a) + 1] = x
<1>1. Len(a) \in Nat /\ a \in Seq(V \cup {x})
  <2>1. \A W : V \subseteq W => a \in Seq(W)
    <3> TAKE W
    <3> HAVE V \subseteq W
    <3>1. \A i \in 1..Len(a) : a[i] \in W
      BY ElementOfSeq
    <3>2. Len(a) \in Nat /\ a = [i \in 1..Len(a) |-> a[i]]
      BY LenProperties, SeqDef
    <3> QED BY <3>1, <3>2, IsASeq
  <2> QED BY <2>1, LenProperties
<1>2. x \in V \cup {x}
  OBVIOUS
<1>3. /\ Len(Append(a, x)) = Len(a) + 1
      /\ \A i \in 1..Len(a) : Append(a, x)[i] = a[i]
      /\ Append(a, x)[Len(a) + 1] = x
  BY <1>1, <1>2, AppendProperties
<1> QED BY <1>1, <1>3 DEF Grows

\* What is written in one step stays.
LEMMA GrowsStep ==
    ASSUME NEW p, NEW s, Scanned(p, s), NEW i \in 1..Len(p), Len(p) \in Nat
    PROVE  Grows(s[i - 1].re, s[i].re)
<1> DEFINE b == p[i]
           u == s[i - 1]
           t == s[i]
<1>1. i - 1 \in 0..Len(p)
  OBVIOUS
<1>2. Moved(u, b, t) /\ Typed(u) /\ u.re \in Seq(Items(p))
  BY <1>1, ScanTyped DEF Scanned
<1> HIDE DEF b, u, t
<1>3. \A x : Grows(u.re, u.re) /\ Grows(u.re, Append(u.re, x))
  BY <1>2, GrowsAppend
<1>4. t.re = u.re \/ \E x : t.re = Append(u.re, x)
  <2>1. CASE u.mode = "text"
    BY <1>2, <2>1 DEF Moved, Is
  <2>2. CASE u.mode = "escape"
    BY <1>2, <2>2 DEF Moved, Is
  <2>3. CASE u.mode = "class"
    BY <1>2, <2>3 DEF Moved, Is
  <2>4. CASE u.mode \in {"classEscape", "nil"}
    BY <1>2, <2>4 DEF Moved, Is
  <2> QED BY <1>2, <2>1, <2>2, <2>3, <2>4 DEF Typed
<1>5. Grows(u.re, t.re)
  BY <1>3, <1>4
<1> QED BY <1>5 DEF u, t

\* What is written at any place is in the expression.
LEMMA GrowsEnd ==
    ASSUME NEW p, NEW s, Scanned(p, s), Len(p) \in Nat
    PROVE  \A i \in 0..Len(p) : Grows(s[i].re, Final(s[Len(p)]).re)
<1> DEFINE n == Len(p)
           X == Final(s[n]).re
           S == {i \in 0..n : Grows(s[i].re, X)}
<1>1. n \in S
  <2> DEFINE u == s[n]
  <2>1. u \in Scans(p) /\ Typed(u) /\ u.re \in Seq(Items(p))
    BY ScanTyped DEF Scanned
  <2> HIDE DEF u
  <2>2. \A x : Grows(u.re, u.re) /\ Grows(u.re, Append(u.re, x))
    BY <2>1, GrowsAppend
  <2>3. Final(u).re = u.re \/ \E x : Final(u).re = Append(u.re, x)
    BY <2>1, Ended DEF Is
  <2>4. Grows(u.re, Final(u).re)
    BY <2>2, <2>3
  <2> QED BY <2>4 DEF u
<1>2. ASSUME NEW i \in 0..n, \A j \in (i + 1)..n : j \in S PROVE i \in S
  <2>1. CASE i = n
    BY <1>1, <2>1
  <2>2. CASE i + 1 \in 1..n
    <3>1. Grows(s[(i + 1) - 1].re, s[i + 1].re)
      BY <2>2, GrowsStep
    <3>2. Grows(s[i].re, s[i + 1].re)
      BY <3>1
    <3>3. Grows(s[i + 1].re, X)
      BY <1>2, <2>2
    <3>4. Len(s[i].re) \in Nat /\ Len(s[i + 1].re) \in Nat
      BY <2>2, ScanTyped DEF Typed
    <3> DEFINE a == s[i].re
               c == s[i + 1].re
    <3>5. Grows(a, c) /\ Grows(c, X) /\ Len(a) \in Nat /\ Len(c) \in Nat
      BY <3>2, <3>3, <3>4
    <3> HIDE DEF a, c, X
    <3>7. Len(a) <= Len(X)
      <4>1. Len(X) \in Nat
        <5> DEFINE u == s[n]
        <5>1. u \in Scans(p) /\ u.re \in Seq(Items(p))
          BY ScanTyped DEF Scanned
        <5> HIDE DEF u
        <5>2. \A x : Len(Append(u.re, x)) = Len(u.re) + 1 /\ Len(u.re) \in Nat
          BY <5>1, GrowsAppend, LenProperties
        <5>3. Final(u).re = u.re \/ \E x : Final(u).re = Append(u.re, x)
          BY <5>1, Ended DEF Is
        <5> QED BY <5>2, <5>3 DEF X, u
      <4> QED BY <3>5, <4>1 DEF Grows
    <3>6. Grows(a, X)
      BY <3>5, <3>7 DEF Grows
    <3> QED BY <3>6 DEF a, X
  <2> QED BY <2>1, <2>2
<1>3. \A i \in 0..n : i \in S
  <2> HIDE DEF S
  <2> QED BY <1>2, FromBehind
<1> QED BY <1>3

\* One more character of a class.
LEMMA SpellMore ==
    ASSUME NEW p, NEW i, NEW e, NEW c \in Seq(Char), NEW pos,
           Spells(p, i, e, c, pos), Len(p) \in Nat,
           e <= Len(p), p[e] # CLOSE, NEW d \in Char, NEW z,
           \/ p[e] # ESC /\ z = e + 1 /\ d = [byte |-> p[e], esc |-> FALSE]
           \/ p[e] = ESC /\ e + 1 <= Len(p) /\ z = e + 2 /\ d = [byte |-> p[e + 1], esc |-> TRUE]
    PROVE  /\ Append(c, d) \in Seq(Char) /\ Append(c, d) # <<>>
           /\ \E q : Spells(p, i, z, Append(c, d), q)
<1> DEFINE n == Len(c)
           a == Append(c, d)
           q == [m \in 1..(n + 2) |-> IF m = n + 2 THEN z ELSE pos[m]]
<1>1. /\ n \in Nat /\ pos \in [1..(n + 1) -> 1..(Len(p) + 2)]
      /\ pos[1] = i /\ pos[n + 1] = e
  BY DEF Spells
<1>2. /\ a \in Seq(Char) /\ a # <<>> /\ Len(a) = n + 1 /\ a[n + 1] = d
      /\ \A m \in 1..n : a[m] = c[m]
  BY AppendProperties
<1>3. e \in 1..(Len(p) + 2) /\ z \in 1..(Len(p) + 2)
  <2>1. e \in 1..(Len(p) + 2)
    BY <1>1
  <2> QED BY <2>1
<1>4. /\ q \in [1..(n + 2) -> 1..(Len(p) + 2)]
      /\ \A m \in 1..(n + 1) : q[m] = pos[m]
      /\ q[n + 2] = z
  BY <1>1, <1>3
<1> HIDE DEF q, a, n
<1>5. ASSUME NEW m \in 1..(n + 1)
      PROVE  /\ q[m] <= Len(p) /\ p[q[m]] # CLOSE
             /\ \/ /\ p[q[m]] # ESC /\ q[m + 1] = q[m] + 1
                   /\ a[m] = [byte |-> p[q[m]], esc |-> FALSE]
                \/ /\ p[q[m]] = ESC /\ q[m] + 1 <= Len(p) /\ q[m + 1] = q[m] + 2
                   /\ a[m] = [byte |-> p[q[m] + 1], esc |-> TRUE]
  <2>1. CASE m = n + 1
    <3>1. q[m] = e /\ q[m + 1] = z /\ a[m] = d
      BY <1>1, <1>2, <1>4, <2>1
    <3> QED BY <3>1
  <2>2. CASE m \in 1..n
    <3>1. q[m] = pos[m] /\ q[m + 1] = pos[m + 1] /\ a[m] = c[m]
      BY <1>1, <1>2, <1>4, <2>2
    <3>2. /\ pos[m] <= Len(p) /\ p[pos[m]] # CLOSE
          /\ \/ /\ p[pos[m]] # ESC /\ pos[m + 1] = pos[m] + 1
                /\ c[m] = [byte |-> p[pos[m]], esc |-> FALSE]
             \/ /\ p[pos[m]] = ESC /\ pos[m] + 1 <= Len(p) /\ pos[m + 1] = pos[m] + 2
                /\ c[m] = [byte |-> p[pos[m] + 1], esc |-> TRUE]
      BY <2>2 DEF Spells, n
    <3> QED BY <3>1, <3>2
  <2> QED BY <1>1, <2>1, <2>2
<1>6. Len(a) + 1 = n + 2 /\ q[1] = i /\ Len(a) \in Nat
  BY <1>1, <1>2, <1>4
<1>7. Spells(p, i, z, a, q)
  BY <1>2, <1>4, <1>5, <1>6 DEF Spells
<1> QED BY <1>2, <1>7 DEF a

\* Where the scan is in a class that begins behind the i-th byte: it is open, or open
\* with a backslash, or it has ended.
Open(p, s, i, q) ==
    /\ s[q].mode = "class" /\ s[q].re = s[i].re
    /\ \E pos : Spells(p, i + 2, q + 1, s[q].class, pos)
Escaped(p, s, i, q) ==
    /\ s[q].mode = "classEscape" /\ s[q].re = s[i].re /\ p[q] = ESC
    /\ \E pos : Spells(p, i + 2, q, s[q].class, pos)
Shut(p, s, i, e, c) ==
    /\ p[e] = CLOSE /\ c \in Seq(Char) /\ \E pos : Spells(p, i + 2, e, c, pos)
    /\ c = <<>> => s[e].mode = "nil"
    /\ c # <<>> => s[e].mode = "text" /\ s[e].re = Append(s[i].re, Class(c))
Closed(p, s, i, q) == \E e \in (i + 2)..q : \E c : Shut(p, s, i, e, c)
InAClass(p, s, i, q) == Open(p, s, i, q) \/ Escaped(p, s, i, q) \/ Closed(p, s, i, q)

\* Each byte leaves the scan in one of the three.
LEMMA ClassStep ==
    ASSUME NEW p \in Seq(Byte), NEW s, Scanned(p, s), NEW i \in Nat,
           NEW q \in (i + 1)..(Len(p) - 1),
           InAClass(p, s, i, q)
    PROVE  InAClass(p, s, i, q + 1)
<1>0. Len(p) \in Nat
  BY LenProperties
<1>1. q + 1 \in 1..Len(p) /\ (q + 1) - 1 = q /\ q \in 0..Len(p) /\ q + 1 \in 0..Len(p)
  BY <1>0
<1> DEFINE b == p[q + 1]
           u == s[q]
           t == s[q + 1]
<1>2. Moved(u, b, t) /\ Typed(u) /\ b \in Byte
  BY <1>1, ScanTyped, ElementOfSeq DEF Scanned
<1> HIDE DEF b, u, t
<1>3. CASE Closed(p, s, i, q)
  <2>1. PICK e \in (i + 2)..q : \E c : Shut(p, s, i, e, c)
    BY <1>3 DEF Closed
  <2>2. e \in (i + 2)..(q + 1)
    BY <1>0
  <2> QED BY <2>1, <2>2 DEF InAClass, Closed
<1>4. CASE Open(p, s, i, q)
  <2>1. u.mode = "class" /\ u.re = s[i].re /\ u.class \in Seq(Char)
    BY <1>2, <1>4 DEF Open, u, Typed
  <2>2. PICK pos : Spells(p, i + 2, q + 1, u.class, pos)
    BY <1>4 DEF Open, u
  <2>3. CASE b = CLOSE
    <3>1. /\ u.class = <<>> => Is(t, "nil", u.re, u.class)
          /\ u.class # <<>> => Is(t, "text", Append(u.re, Class(u.class)), <<>>)
      BY <1>2, <2>1, <2>3 DEF Moved
    <3>2. Shut(p, s, i, q + 1, u.class)
      BY <2>1, <2>2, <2>3, <3>1 DEF Shut, Is, b, t
    <3>3. q + 1 \in (i + 2)..(q + 1)
      BY <1>0
    <3> QED BY <3>2, <3>3 DEF InAClass, Closed
  <2>4. CASE b = ESC
    <3>1. Is(t, "classEscape", u.re, u.class)
      BY <1>2, <2>1, <2>4 DEF Moved
    <3>2. Escaped(p, s, i, q + 1)
      BY <2>1, <2>2, <2>4, <3>1 DEF Escaped, Is, b, t
    <3> QED BY <3>2 DEF InAClass
  <2>5. CASE b \notin {CLOSE, ESC}
    <3> DEFINE d == [byte |-> b, esc |-> FALSE]
    <3>1. Is(t, "class", u.re, Append(u.class, d))
      BY <1>2, <2>1, <2>5 DEF Moved
    <3>2. d \in Char
      BY <1>2 DEF Char
    <3>3. q + 1 <= Len(p) /\ (q + 1) + 1 = q + 2 /\ d = [byte |-> p[q + 1], esc |-> FALSE]
          /\ p[q + 1] # CLOSE /\ p[q + 1] # ESC
      BY <1>1, <2>5 DEF b
    <3> HIDE DEF d
    <3>4. \E r : Spells(p, i + 2, (q + 1) + 1, Append(u.class, d), r)
      BY <1>0, <2>1, <2>2, <3>2, <3>3, SpellMore
    <3>5. Open(p, s, i, q + 1)
      BY <2>1, <3>1, <3>4 DEF Open, Is, t
    <3> QED BY <3>5 DEF InAClass
  <2> QED BY <2>3, <2>4, <2>5
<1>5. CASE Escaped(p, s, i, q)
  <2>1. u.mode = "classEscape" /\ u.re = s[i].re /\ u.class \in Seq(Char) /\ p[q] = ESC
    BY <1>2, <1>5 DEF Escaped, u, Typed
  <2>2. PICK pos : Spells(p, i + 2, q, u.class, pos)
    BY <1>5 DEF Escaped, u
  <2> DEFINE d == [byte |-> b, esc |-> TRUE]
  <2>3. Is(t, "class", u.re, Append(u.class, d))
    BY <1>2, <2>1 DEF Moved
  <2>4. d \in Char
    BY <1>2 DEF Char
  <2>5. q <= Len(p) /\ q + 1 <= Len(p) /\ d = [byte |-> p[q + 1], esc |-> TRUE] /\ p[q] # CLOSE
        /\ (q + 1) + 1 = q + 2
    BY <1>0, <1>1, <2>1 DEF b, ESC, CLOSE
  <2> HIDE DEF d
  <2>6. \E r : Spells(p, i + 2, (q + 1) + 1, Append(u.class, d), r)
    BY <1>0, <2>1, <2>2, <2>4, <2>5, SpellMore
  <2>7. Open(p, s, i, q + 1)
    BY <2>1, <2>3, <2>6 DEF Open, Is, t
  <2> QED BY <2>7 DEF InAClass
<1> QED BY <1>3, <1>4, <1>5 DEF InAClass

\* How a class ends: with its bracket, with the pattern, or not at all.
ClassEnds(p, s, i, e, c) ==
    /\ c \in Seq(Char) /\ c # <<>> /\ \E pos : Spells(p, i + 2, e, c, pos)
    /\ classEnd(p, i + 2) = e
Bracketed(p, s, i, e) ==
    \E c : /\ ClassEnds(p, s, i, e, c)
           /\ s[e].mode = "text" /\ s[e].re = Append(s[i].re, Class(c))
Unbracketed(p, s, i) ==
    \E c : /\ ClassEnds(p, s, i, Len(p) + 1, c)
           /\ Is(Final(s[Len(p)]), "text", Append(s[i].re, Class(c)), <<>>)
NoEnd(p, s, i) ==
    /\ Final(s[Len(p)]).mode # "text"
    /\ ~ (i + 2 < classEnd(p, i + 2) /\ classEnd(p, i + 2) <= Len(p) + 1)

\* A class that begins ends in one of these ways.
LEMMA ClassOutcome ==
    ASSUME NEW p \in Seq(Byte), ~ EscapedLetter(p), NEW s, Scanned(p, s),
           NEW i \in 0..(Len(p) - 1), s[i].mode = "text", p[i + 1] = OPEN
    PROVE  \/ \E e \in (i + 3)..Len(p) : Bracketed(p, s, i, e)
           \/ Unbracketed(p, s, i)
           \/ NoEnd(p, s, i)
<1> DEFINE n == Len(p)
           S == {q \in 0..n : q >= i + 1 => InAClass(p, s, i, q)}
<1>0. n \in Nat /\ i \in Nat /\ i + 1 \in 1..n /\ (i + 1) - 1 = i /\ i \in 0..n
  BY LenProperties
<1>1. InAClass(p, s, i, i + 1)
  <2> DEFINE u == s[i]
             t == s[i + 1]
  <2>1. Moved(u, OPEN, t) /\ u.mode = "text" /\ u.class = <<>>
    BY <1>0, NoClass DEF Scanned
  <2> HIDE DEF u, t
  <2>2. Is(t, "class", u.re, <<>>)
    BY <2>1 DEF Moved
  <2> DEFINE pos == [m \in 1..1 |-> i + 2]
  <2>3. Spells(p, i + 2, i + 2, <<>>, pos)
    <3>1. Len(<<>>) = 0
      BY EmptySeq
    <3>2. pos \in [1..1 -> 1..(n + 2)] /\ pos[1] = i + 2
      BY <1>0
    <3> HIDE DEF pos
    <3> QED BY <3>1, <3>2 DEF Spells
  <2>4. (i + 1) + 1 = i + 2
    BY <1>0
  <2>5. Spells(p, i + 2, (i + 1) + 1, t.class, pos)
    BY <2>2, <2>3, <2>4 DEF Is
  <2> HIDE DEF pos
  <2>6. Open(p, s, i, i + 1)
    BY <2>2, <2>5 DEF Open, Is, u, t
  <2> QED BY <2>6 DEF InAClass
<1>2. 0 \in S
  BY <1>0
<1>3. ASSUME NEW q \in 0..(n - 1), q \in S PROVE q + 1 \in S
  <2>1. q + 1 \in 0..n
    BY <1>0
  <2>2. CASE q >= i + 1
    <3>1. q \in (i + 1)..(Len(p) - 1) /\ InAClass(p, s, i, q)
      BY <1>0, <1>3, <2>2
    <3>2. InAClass(p, s, i, q + 1)
      BY <1>0, <3>1, ClassStep
    <3> QED BY <2>1, <3>2
  <2>3. CASE ~ (q >= i + 1)
    <3>1. q + 1 >= i + 1 => q + 1 = i + 1
      BY <1>0, <2>3
    <3> QED BY <1>1, <2>1, <3>1
  <2> QED BY <2>2, <2>3
<1>4. InAClass(p, s, i, n)
  <2>1. \A q \in 0..n : q \in S
    <3> HIDE DEF S, n
    <3> QED BY <1>0, <1>2, <1>3, UpTo
  <2>2. n \in S /\ n >= i + 1
    BY <1>0, <2>1
  <2> QED BY <2>2
<1>5. \A e, c, pos : Spells(p, i + 2, e, c, pos) =>
          /\ e \in 1..(n + 2) /\ classEnd(p, i + 2) = classEnd(p, e)
          /\ c = <<>> => e = i + 2
          /\ c # <<>> /\ c \in Seq(Char) => e > i + 2
  <2> SUFFICES ASSUME NEW e, NEW c, NEW pos, Spells(p, i + 2, e, c, pos)
               PROVE  /\ e \in 1..(n + 2) /\ classEnd(p, i + 2) = classEnd(p, e)
                      /\ c = <<>> => e = i + 2
                      /\ c # <<>> /\ c \in Seq(Char) => e > i + 2
    OBVIOUS
  <2>1. e \in 1..(n + 2) /\ classEnd(p, i + 2) = classEnd(p, e)
    BY <1>0, EndBehind
  <2>2. c = <<>> => e = i + 2
    BY EmptySeq DEF Spells
  <2>3. ASSUME c # <<>>, c \in Seq(Char) PROVE e > i + 2
    <3>1. 1 \in 1..Len(c)
      BY <2>3, EmptySeq, LenProperties
    <3>2. pos[1] < e /\ pos[1] = i + 2
      BY <3>1, Spelled DEF Spells
    <3> QED BY <1>0, <2>1, <3>2
  <2> QED BY <2>1, <2>2, <2>3
<1> DEFINE u == s[n]
           r == s[i].re
<1>6. u \in Scans(p) /\ Typed(u)
  BY <1>0, ScanTyped DEF Scanned
<1>7. CASE Closed(p, s, i, n)
  <2>0. PICK e \in (i + 2)..n : \E c : Shut(p, s, i, e, c)
    BY <1>7 DEF Closed
  <2>1. PICK c : Shut(p, s, i, e, c)
    BY <2>0
  <2>2. PICK pos : Spells(p, i + 2, e, c, pos)
    BY <2>1 DEF Shut
  <2>3. e \in 0..n /\ e \in 1..(n + 2) /\ p[e] = CLOSE /\ classEnd(p, i + 2) = e /\ c \in Seq(Char)
    <3>1. e \in 0..n /\ e \in 1..(n + 2) /\ p[e] = CLOSE /\ c \in Seq(Char)
      BY <1>0, <2>1 DEF Shut
    <3>2. classEnd(p, e) = e
      BY <1>0, <3>1, EndHere
    <3> QED BY <1>5, <2>2, <3>1, <3>2
  <2>4. CASE c = <<>>
    <3>1. u.mode = "nil"
      BY <1>0, <2>1, <2>3, <2>4, NilStays DEF Shut
    <3>2. Final(u).mode = "nil"
      BY <1>6, <3>1, Ended
    <3>3. e = i + 2
      BY <1>5, <2>2, <2>4
    <3> QED BY <1>0, <2>3, <3>2, <3>3 DEF NoEnd
  <2>5. CASE c # <<>>
    <3>1. e \in (i + 3)..n
      BY <1>0, <1>5, <2>2, <2>3, <2>5
    <3>2. Bracketed(p, s, i, e)
      BY <2>1, <2>2, <2>3, <2>5 DEF Bracketed, ClassEnds, Shut
    <3> QED BY <3>1, <3>2
  <2> QED BY <2>4, <2>5
<1>8. CASE Open(p, s, i, n)
  <2>1. u.mode = "class" /\ u.re = r /\ u.class \in Seq(Char)
    BY <1>6, <1>8 DEF Open, Typed
  <2>2. PICK pos : Spells(p, i + 2, n + 1, u.class, pos)
    BY <1>8 DEF Open
  <2>3. classEnd(p, i + 2) = n + 1
    <3>1. n + 1 \in 1..(n + 2) /\ n + 1 > Len(p)
      BY <1>0
    <3>2. classEnd(p, n + 1) = n + 1
      BY <1>0, <3>1, EndHere
    <3> QED BY <1>5, <2>2, <3>2
  <2>4. CASE u.class = <<>>
    <3>1. Final(u).mode = "nil"
      BY <1>6, <2>1, <2>4, Ended DEF Is
    <3>2. n + 1 = i + 2
      BY <1>5, <2>2, <2>4
    <3> QED BY <1>0, <2>3, <3>1, <3>2 DEF NoEnd
  <2>5. CASE u.class # <<>>
    <3>1. Is(Final(u), "text", Append(r, Class(u.class)), <<>>)
      BY <1>6, <2>1, <2>5, Ended
    <3>2. Unbracketed(p, s, i)
      BY <2>1, <2>2, <2>3, <2>5, <3>1 DEF Unbracketed, ClassEnds
    <3> QED BY <3>2
  <2> QED BY <2>4, <2>5
<1>9. CASE Escaped(p, s, i, n)
  <2>1. u.mode = "classEscape" /\ p[n] = ESC
    BY <1>9 DEF Escaped
  <2>2. PICK pos : Spells(p, i + 2, n, u.class, pos)
    BY <1>9 DEF Escaped
  <2>3. classEnd(p, i + 2) = n + 2
    <3>1. n \in 1..(n + 2) /\ n = Len(p)
      BY <1>0
    <3>2. classEnd(p, n) = n + 2
      BY <1>0, <2>1, <3>1, EndHere
    <3> QED BY <1>5, <2>2, <3>2
  <2>4. Final(u) = u
    BY <1>6, <2>1, Ended
  <2> QED BY <1>0, <2>1, <2>3, <2>4 DEF NoEnd
<1> QED BY <1>4, <1>7, <1>8, <1>9 DEF InAClass

-----------------------------------------------------------------------------
(* Matching.  The scan writes one item after the other, and each takes of k*)
(* what Glob takes: by descent from the end of the pattern, a key that one *)
(* matches the other does.                                                 *)

\* The places of k where the expression can stand, item after item.
Stands(re, k, at) ==
    /\ at \in [0..Len(re) -> SUBSET (0..Len(k))] /\ at[0] = {0}
    /\ \A i \in 1..Len(re) : at[i] = step(k, at[i - 1], re[i])

\* The places are places of k.
LEMMA StepType ==
    ASSUME NEW k \in Seq(Byte), NEW S \in SUBSET (0..Len(k)), NEW item
    PROVE  step(k, S, item) \in SUBSET (0..Len(k))
<1>0. Len(k) \in Nat
  BY LenProperties
<1>1. CASE item.op = "star"
  <2>1. step(k, S, item) \subseteq 0..Len(k)
    BY <1>1, Zenon DEF step
  <2> QED BY <2>1
<1>2. CASE item.op # "star"
  <2>1. \A j \in step(k, S, item) : \E x \in S : x < Len(k) /\ j = x + 1
    BY <1>2 DEF step
  <2>2. step(k, S, item) \subseteq 0..Len(k)
    BY <1>0, <2>1
  <2> QED BY <2>2
<1> QED BY <1>1, <1>2

\* MatchString has the values its equations give.
LEMMA MatchRun ==
    ASSUME NEW re, Len(re) \in Nat, NEW k \in Seq(Byte)
    PROVE  \E at : Stands(re, k, at) /\ (MatchString(re, k) <=> Len(k) \in at[Len(re)])
<1> DEFINE n == Len(re)
           A == SUBSET (0..Len(k))
           base == {0}
           Step(i, v) == step(k, v, re[i])
           Unfold(f) == [i \in 0..n |-> IF i = 0 THEN base ELSE Step(i, f[i - 1])]
           st == [i \in 1..n |-> [v \in A |-> Step(i, v)]]
           h == CHOOSE f : f = Unfold(f)
<1>1. n \in Nat
  OBVIOUS
<1>2. base \in A
  BY LenProperties
<1>3. ASSUME NEW i \in 1..n, NEW v \in A PROVE Step(i, v) \in A
  BY StepType
<1>5. MatchString(re, k) = (Len(k) \in h[n])
  BY Zenon DEF MatchString
<1> HIDE DEF Step, n, A, base
<1>6. Steps(st, n, A)
  BY <1>3 DEF Steps
<1>7. \E f : f = Unfold(f)
  <2>1. PICK f \in [0..n -> A] : RunOf(f, n, base, st)
    <3> HIDE DEF st
    <3> QED BY <1>1, <1>2, <1>6, HasRun
  <2>2. f[0] = base /\ \A i \in 1..n : f[i] = Step(i, f[i - 1])
    <3>1. f[0] = base /\ \A i \in 1..n : f[i] = st[i][f[i - 1]]
      BY <2>1, Zenon DEF RunOf
    <3>2. \A i \in 1..n : f[i - 1] \in A
      BY <1>1
    <3>3. \A i \in 1..n : \A v \in A : st[i][v] = Step(i, v)
      OBVIOUS
    <3> HIDE DEF st
    <3> QED BY <3>1, <3>2, <3>3, Zenon
  <2>3. f = Unfold(f)
    BY <1>1, <2>2, SMTT(30)
  <2> QED BY <2>3
<1>8. h = Unfold(h)
  <2> HIDE DEF Unfold
  <2> QED BY <1>7, Zenon
<1> HIDE DEF h
<1>9. h[0] = base /\ \A i \in 1..n : h[i] = Step(i, h[i - 1])
  BY <1>1, <1>8
<1>10. \A i \in 0..n : h[i] \in A
  <2>1. \A i \in 1..n : h[i - 1] \in A => h[i] = st[i][h[i - 1]]
    BY <1>9
  <2>2. h[0] = base
    BY <1>9
  <2> HIDE DEF st
  <2> QED BY <1>1, <1>2, <1>6, <2>1, <2>2, RunType
<1>11. h \in [0..n -> A]
  <2>1. h = [i \in 0..n |-> h[i]]
    BY <1>8, Zenon
  <2> QED BY <1>10, <2>1
<1> QED BY <1>5, <1>9, <1>11 DEF n, A, Step, base, Stands

\* What an item of the expression takes: a byte of a set, or any bytes but a line feed.
AfterByte(k, S, B) == {j \in 1..Len(k) : j - 1 \in S /\ k[j] \in B}
AfterStar(k, S) == {j \in 0..Len(k) : \E i \in S : i <= j /\ \A x \in (i + 1)..j : k[x] # LF}
Members(c) == {b \in Byte : inRanges(c, b)}
StarItem == [op |-> "star"]
AnyItem == [op |-> "any"]

\* Each kind of item takes its bytes.
LEMMA StepCases ==
    ASSUME NEW k \in Seq(Byte), NEW S \in SUBSET (0..Len(k))
    PROVE  /\ step(k, S, StarItem) = AfterStar(k, S)
           /\ step(k, S, AnyItem) = AfterByte(k, S, Byte \ {LF})
           /\ \A b : step(k, S, Text(b)) = AfterByte(k, S, {b})
           /\ \A c : step(k, S, Class(c)) = AfterByte(k, S, Members(c))
<1>0. Len(k) \in Nat /\ \A j \in 1..Len(k) : k[j] \in Byte
  BY LenProperties, ElementOfSeq
<1>1. ASSUME NEW item, NEW B, item.op # "star",
             \A j \in 1..Len(k) :
                 k[j] \in B <=> \/ item.op = "text" /\ k[j] = item.byte
                                \/ item.op = "any" /\ k[j] # LF
                                \/ item.op = "class" /\ inRanges(item.chars, k[j])
      PROVE  step(k, S, item) = AfterByte(k, S, B)
  <2>1. step(k, S, item) =
          {i + 1 : i \in {x \in S : /\ x < Len(k)
                                    /\ \/ item.op = "text" /\ k[x + 1] = item.byte
                                       \/ item.op = "any" /\ k[x + 1] # LF
                                       \/ item.op = "class" /\ inRanges(item.chars, k[x + 1])}}
    BY <1>1 DEF step
  <2>2. \A x \in S : x < Len(k) =>
           (k[x + 1] \in B <=> \/ item.op = "text" /\ k[x + 1] = item.byte
                               \/ item.op = "any" /\ k[x + 1] # LF
                               \/ item.op = "class" /\ inRanges(item.chars, k[x + 1]))
    <3> TAKE x \in S
    <3> HAVE x < Len(k)
    <3>1. x + 1 \in 1..Len(k)
      BY <1>0
    <3> QED BY <1>1, <3>1
  <2>3. step(k, S, item) = {i + 1 : i \in {x \in S : x < Len(k) /\ k[x + 1] \in B}}
    BY <2>1, <2>2
  <2>4. \A j : j \in step(k, S, item) <=> \E x \in S : x < Len(k) /\ k[x + 1] \in B /\ j = x + 1
    BY <2>3
  <2>5. \A j : j \in step(k, S, item) <=> j \in AfterByte(k, S, B)
    <3> TAKE j
    <3>1. j \in step(k, S, item) => j \in AfterByte(k, S, B)
      BY <1>0, <2>4 DEF AfterByte
    <3>2. j \in AfterByte(k, S, B) => j \in step(k, S, item)
      <4> HAVE j \in AfterByte(k, S, B)
      <4>1. j \in 1..Len(k) /\ j - 1 \in S /\ k[j] \in B
        BY DEF AfterByte
      <4>2. j - 1 < Len(k) /\ (j - 1) + 1 = j
        BY <1>0, <4>1
      <4> QED BY <2>4, <4>1, <4>2
    <3> QED BY <3>1, <3>2
  <2> QED BY <2>5
<1>2. step(k, S, StarItem) = AfterStar(k, S)
  BY DEF step, StarItem, AfterStar
<1>3. step(k, S, AnyItem) = AfterByte(k, S, Byte \ {LF})
  <2>1. AnyItem.op = "any"
    BY DEF AnyItem
  <2> QED BY <1>0, <1>1, <2>1
<1>4. ASSUME NEW b PROVE step(k, S, Text(b)) = AfterByte(k, S, {b})
  <2>1. Text(b).op = "text" /\ Text(b).byte = b
    BY DEF Text
  <2> QED BY <1>0, <1>1, <2>1
<1>5. ASSUME NEW c PROVE step(k, S, Class(c)) = AfterByte(k, S, Members(c))
  <2>1. Class(c).op = "class" /\ Class(c).chars = c
    BY DEF Class
  <2> QED BY <1>0, <1>1, <2>1 DEF Members
<1> QED BY <1>2, <1>3, <1>4, <1>5

\* A place where the expression stands is one from which the rest of the pattern
\* matches.
Meets(S, T) == \E j \in S : j + 1 \in T

\* A byte is taken by the expression before or by the pattern behind.
LEMMA Shift ==
    ASSUME NEW k \in Seq(Byte), NEW S \in SUBSET (0..Len(k)), NEW T, NEW B, NEW C
    PROVE  /\ Meets(AfterByte(k, S, B), T) /\ B \cap Range(k) \subseteq C
                => Meets(S, Before(k, T, C))
           /\ Meets(S, Before(k, T, C)) /\ C \cap Range(k) \subseteq B
                => Meets(AfterByte(k, S, B), T)
<1>0. Len(k) \in Nat /\ \A j \in 1..Len(k) : k[j] \in Range(k)
  <2>1. DOMAIN k = 1..Len(k) /\ Len(k) \in Nat
    BY LenProperties
  <2> QED BY <2>1 DEF Range
<1>1. ASSUME Meets(AfterByte(k, S, B), T), B \cap Range(k) \subseteq C
      PROVE  Meets(S, Before(k, T, C))
  <2>1. PICK j \in 1..Len(k) : j - 1 \in S /\ k[j] \in B /\ j + 1 \in T
    BY <1>1 DEF Meets, AfterByte
  <2>2. k[j] \in C /\ (j - 1) + 1 = j
    BY <1>0, <1>1, <2>1
  <2>3. (j - 1) + 1 \in Before(k, T, C)
    BY <2>1, <2>2 DEF Before
  <2> QED BY <2>1, <2>3 DEF Meets
<1>2. ASSUME Meets(S, Before(k, T, C)), C \cap Range(k) \subseteq B
      PROVE  Meets(AfterByte(k, S, B), T)
  <2>1. PICK j \in S : j + 1 \in 1..Len(k) /\ k[j + 1] \in C /\ (j + 1) + 1 \in T
    BY <1>2 DEF Meets, Before
  <2>2. k[j + 1] \in B /\ (j + 1) - 1 = j
    BY <1>0, <1>2, <2>1
  <2>3. j + 1 \in AfterByte(k, S, B)
    BY <2>1, <2>2 DEF AfterByte
  <2> QED BY <2>1, <2>3 DEF Meets
<1> QED BY <1>1, <1>2

\* So are the bytes of a star, but for line feeds.
LEMMA ShiftStar ==
    ASSUME NEW k \in Seq(Byte), NEW S \in SUBSET (0..Len(k)), NEW T \in SUBSET (1..(Len(k) + 1))
    PROVE  /\ Meets(AfterStar(k, S), T) => Meets(S, BeforeStar(k, T))
           /\ Meets(S, BeforeStar(k, T)) /\ LF \notin Range(k) => Meets(AfterStar(k, S), T)
<1>0. Len(k) \in Nat /\ \A j \in 1..Len(k) : k[j] \in Range(k)
  <2>1. DOMAIN k = 1..Len(k) /\ Len(k) \in Nat
    BY LenProperties
  <2> QED BY <2>1 DEF Range
<1>1. ASSUME Meets(AfterStar(k, S), T) PROVE Meets(S, BeforeStar(k, T))
  <2>1. PICK j \in 0..Len(k), i \in S : i <= j /\ j + 1 \in T
    BY <1>1 DEF Meets, AfterStar
  <2>2. i + 1 \in 1..(Len(k) + 1) /\ i + 1 <= j + 1
    BY <1>0, <2>1
  <2>3. i + 1 \in BeforeStar(k, T)
    BY <2>1, <2>2 DEF BeforeStar
  <2> QED BY <2>3 DEF Meets
<1>2. ASSUME Meets(S, BeforeStar(k, T)), LF \notin Range(k) PROVE Meets(AfterStar(k, S), T)
  <2>1. PICK i \in S : i + 1 \in BeforeStar(k, T)
    BY <1>2 DEF Meets
  <2>2. PICK x \in T : i + 1 <= x
    BY <2>1 DEF BeforeStar
  <2>3. x - 1 \in 0..Len(k) /\ i <= x - 1 /\ (x - 1) + 1 = x /\ i \in 0..Len(k)
    BY <1>0, <2>2
  <2>4. \A y \in (i + 1)..(x - 1) : k[y] # LF
    BY <1>0, <1>2, <2>3
  <2>5. x - 1 \in AfterStar(k, S)
    BY <2>3, <2>4 DEF AfterStar
  <2> QED BY <2>3, <2>5 DEF Meets
<1> QED BY <1>1, <1>2

\* An item of the expression leads from the places T of a set of Glob's back to those of S.
BadItem(item) == item.op = "class" /\ badClass(item.chars)
Turns(k, item, S, T) ==
    /\ T = {} => S = {}
    /\ ~ BadItem(item) =>
         \A A \in SUBSET (0..Len(k)) :
            /\ Meets(step(k, A, item), T) => Meets(A, S)
            /\ Meets(A, S) /\ LF \notin Range(k) => Meets(step(k, A, item), T)

\* For a star.
LEMMA TurnsStar ==
    ASSUME NEW k \in Seq(Byte), NEW T \in SUBSET (1..(Len(k) + 1))
    PROVE  Turns(k, StarItem, BeforeStar(k, T), T)
<1>1. T = {} => BeforeStar(k, T) = {}
  BY DEF BeforeStar
<1>2. ASSUME NEW A \in SUBSET (0..Len(k))
      PROVE  /\ Meets(step(k, A, StarItem), T) => Meets(A, BeforeStar(k, T))
             /\ Meets(A, BeforeStar(k, T)) /\ LF \notin Range(k) => Meets(step(k, A, StarItem), T)
  <2>1. step(k, A, StarItem) = AfterStar(k, A)
    BY StepCases
  <2> QED BY <2>1, ShiftStar
<1> QED BY <1>1, <1>2 DEF Turns

\* For a byte: the item takes the bytes of B, the pattern those of C.
LEMMA TurnsOne ==
    ASSUME NEW k \in Seq(Byte), NEW item, NEW T, NEW B, NEW C,
           \A A \in SUBSET (0..Len(k)) : step(k, A, item) = AfterByte(k, A, B),
           ~ BadItem(item) => /\ B \cap Range(k) \subseteq C
                              /\ LF \notin Range(k) => C \cap Range(k) \subseteq B
    PROVE  Turns(k, item, Before(k, T, C), T)
<1>1. T = {} => Before(k, T, C) = {}
  BY DEF Before
<1>2. ASSUME ~ BadItem(item), NEW A \in SUBSET (0..Len(k))
      PROVE  /\ Meets(step(k, A, item), T) => Meets(A, Before(k, T, C))
             /\ Meets(A, Before(k, T, C)) /\ LF \notin Range(k) => Meets(step(k, A, item), T)
  <2>1. step(k, A, item) = AfterByte(k, A, B)
    OBVIOUS
  <2>2. Meets(AfterByte(k, A, B), T) /\ B \cap Range(k) \subseteq C => Meets(A, Before(k, T, C))
    BY Shift
  <2>3. Meets(A, Before(k, T, C)) /\ C \cap Range(k) \subseteq B => Meets(AfterByte(k, A, B), T)
    BY Shift
  <2> QED BY <1>2, <2>1, <2>2, <2>3
<1> QED BY <1>1, <1>2 DEF Turns

\* The scan gets to the byte behind the e-th, with r written.
Arrives(p, s, e, r) ==
    \/ s[e].mode = "text" /\ s[e].re = r
    \/ e = Len(p) /\ Final(s[Len(p)]).mode = "text" /\ Final(s[Len(p)]).re = r

\* One step of the pattern: an item is written, and takes what Glob takes; or the
\* pattern matches nothing.
Leads(p, k, s, G, i) ==
    \/ G[i + 1] = {} /\ Final(s[Len(p)]).mode # "text"
    \/ \E e \in (i + 1)..Len(p) : \E item :
          /\ Turns(k, item, G[i + 1], G[e + 1])
          /\ Arrives(p, s, e, Append(s[i].re, item))

\* At a class.
LEMMA ClassLeads ==
    ASSUME NEW p \in Seq(Byte), NEW k \in Seq(Byte), ~ EscapedLetter(p), NEW s, Scanned(p, s),
           NEW G, GlobSets(p, k, G), NEW i \in 0..(Len(p) - 1), s[i].mode = "text",
           p[i + 1] = OPEN
    PROVE  Leads(p, k, s, G, i)
<1>0. Len(p) \in Nat /\ i + 1 \in 1..(Len(p) + 1) /\ ~ (i + 1 > Len(p)) /\ (i + 1) + 1 = i + 2
  BY LenProperties
<1> DEFINE E == classEnd(p, i + 2)
           ok == i + 2 < E /\ E <= Len(p) + 1
<1>1. GlobRules(p, k, G, i + 1) /\ G[i + 1] = GlobFrom(p, k, G, i + 1)
  BY <1>0, GlobCases DEF GlobSets
<1>2. /\ ok => G[i + 1] = Before(k, G[BehindClass(p, i + 1)], InClass(p, k, i + 1))
      /\ ~ ok => G[i + 1] = {}
  BY <1>0, <1>1 DEF GlobRules
<1>3. BehindClass(p, i + 1) = IF E > Len(p) THEN E ELSE E + 1
  BY <1>0 DEF BehindClass
<1>4. InClass(p, k, i + 1) = {b \in Range(k) : inClass(p, i + 2, E, b)}
  BY <1>0 DEF InClass
<1>5. ASSUME NEW e, NEW c, ClassEnds(p, s, i, e, c), NEW T
      PROVE  Turns(k, Class(c), Before(k, T, InClass(p, k, i + 1)), T)
  <2>1. c \in Seq(Char) /\ c # <<>> /\ E = e
    BY <1>5 DEF ClassEnds
  <2>2. PICK pos : Spells(p, i + 2, e, c, pos)
    BY <1>5 DEF ClassEnds
  <2>3. Len(c) > 0
    BY <2>1, EmptySeq, LenProperties
  <2>4. BadItem(Class(c)) <=> badClass(c)
    BY DEF BadItem, Class
  <2>5. ASSUME ~ badClass(c), NEW b \in Range(k)
        PROVE  b \in Members(c) <=> b \in InClass(p, k, i + 1)
    <3>1. b \in Byte
      BY RangeOfSeq
    <3>2. inClass(p, i + 2, e, b) <=> inRanges(c, b)
      BY <2>2, <2>3, <2>5, <3>1, ClassMatches
    <3> QED BY <1>4, <2>1, <3>1, <3>2 DEF Members
  <2>6. ~ BadItem(Class(c)) => /\ Members(c) \cap Range(k) \subseteq InClass(p, k, i + 1)
                               /\ InClass(p, k, i + 1) \cap Range(k) \subseteq Members(c)
    BY <2>4, <2>5
  <2>7. \A A \in SUBSET (0..Len(k)) : step(k, A, Class(c)) = AfterByte(k, A, Members(c))
    BY StepCases
  <2> QED BY <2>6, <2>7, TurnsOne
<1>6. CASE \E e \in (i + 3)..Len(p) : Bracketed(p, s, i, e)
  <2>1. PICK e \in (i + 3)..Len(p) : Bracketed(p, s, i, e)
    BY <1>6
  <2>2. PICK c : /\ ClassEnds(p, s, i, e, c)
                 /\ s[e].mode = "text" /\ s[e].re = Append(s[i].re, Class(c))
    BY <2>1 DEF Bracketed
  <2>3. ok /\ BehindClass(p, i + 1) = e + 1
    BY <1>0, <1>3, <2>2 DEF ClassEnds
  <2>4. Turns(k, Class(c), G[i + 1], G[e + 1])
    BY <1>2, <1>5, <2>2, <2>3
  <2>5. e \in (i + 1)..Len(p)
    BY <1>0
  <2> QED BY <2>2, <2>4, <2>5 DEF Leads, Arrives
<1>7. CASE Unbracketed(p, s, i)
  <2>1. PICK c : /\ ClassEnds(p, s, i, Len(p) + 1, c)
                 /\ Is(Final(s[Len(p)]), "text", Append(s[i].re, Class(c)), <<>>)
    BY <1>7 DEF Unbracketed
  <2>2. i + 2 < Len(p) + 1
    <3>1. c \in Seq(Char) /\ c # <<>>
      BY <2>1 DEF ClassEnds
    <3>2. PICK pos : Spells(p, i + 2, Len(p) + 1, c, pos)
      BY <2>1 DEF ClassEnds
    <3>3. 1 \in 1..Len(c)
      BY <3>1, EmptySeq, LenProperties
    <3>4. pos[1] < Len(p) + 1 /\ pos[1] = i + 2
      BY <3>2, <3>3, Spelled DEF Spells
    <3> QED BY <3>4
  <2>3. ok /\ BehindClass(p, i + 1) = Len(p) + 1
    BY <1>0, <1>3, <2>1, <2>2 DEF ClassEnds
  <2>4. Turns(k, Class(c), G[i + 1], G[Len(p) + 1])
    BY <1>2, <1>5, <2>1, <2>3
  <2>5. Len(p) \in (i + 1)..Len(p)
    BY <1>0
  <2> QED BY <2>1, <2>4, <2>5 DEF Leads, Arrives, Is
<1>8. CASE NoEnd(p, s, i)
  BY <1>2, <1>8 DEF NoEnd, Leads
<1> QED BY <1>6, <1>7, <1>8, ClassOutcome

\* At any byte.
LEMMA PatternLeads ==
    ASSUME NEW p \in Seq(Byte), NEW k \in Seq(Byte), ~ EscapedLetter(p), NEW s, Scanned(p, s),
           NEW G, GlobSets(p, k, G), NEW i \in 0..(Len(p) - 1), s[i].mode = "text"
    PROVE  Leads(p, k, s, G, i)
<1>0. /\ Len(p) \in Nat /\ i + 1 \in 1..Len(p) /\ ~ (i + 1 > Len(p)) /\ (i + 1) - 1 = i
      /\ (i + 1) + 1 = i + 2 /\ (i + 1) + 2 = i + 3 /\ i + 1 \in 1..(Len(p) + 1)
      /\ i + 1 \in (i + 1)..Len(p)
  BY LenProperties
<1> DEFINE b == p[i + 1]
           u == s[i]
           t == s[i + 1]
           S == G[i + 1]
           T == G[i + 2]
<1>1. GlobRules(p, k, G, i + 1) /\ S = GlobFrom(p, k, G, i + 1)
  BY <1>0, GlobCases DEF GlobSets
<1>2. /\ b = STAR => S = BeforeStar(k, T)
      /\ b = ANY => S = Before(k, T, Byte)
      /\ b \notin {STAR, ANY, ESC, OPEN} => S = Before(k, T, {b})
  BY <1>0, <1>1 DEF GlobRules
<1>3. T \in SUBSET (1..(Len(k) + 1))
  <2>1. i + 2 \in 1..(Len(p) + 1)
    BY <1>0
  <2> QED BY <2>1 DEF GlobSets
<1>4. Moved(u, b, t) /\ u.mode = "text"
  BY <1>0 DEF Scanned
<1>5. ASSUME NEW item, t.mode = "text", t.re = Append(u.re, item), Turns(k, item, S, T)
      PROVE  Leads(p, k, s, G, i)
  <2>1. Turns(k, item, G[i + 1], G[(i + 1) + 1])
    BY <1>0, <1>5
  <2>2. Arrives(p, s, i + 1, Append(s[i].re, item))
    BY <1>5 DEF Arrives
  <2> QED BY <1>0, <2>1, <2>2 DEF Leads
<1>6. \A x : ~ BadItem(Text(x)) /\ ~ BadItem(AnyItem)
  BY DEF BadItem, Text, AnyItem
<1> HIDE DEF b, u, t, S, T
<1>7. CASE b = STAR
  <2>1. Is(t, "text", Append(u.re, StarItem), u.class)
    BY <1>4, <1>7 DEF Moved, StarItem
  <2>2. Turns(k, StarItem, S, T)
    BY <1>2, <1>3, <1>7, TurnsStar
  <2> QED BY <1>5, <2>1, <2>2 DEF Is
<1>8. CASE b = ANY
  <2>1. Is(t, "text", Append(u.re, AnyItem), u.class)
    BY <1>4, <1>8 DEF Moved, AnyItem
  <2>2. Turns(k, AnyItem, S, T)
    <3>1. \A A \in SUBSET (0..Len(k)) : step(k, A, AnyItem) = AfterByte(k, A, Byte \ {LF})
      BY StepCases
    <3>2. /\ (Byte \ {LF}) \cap Range(k) \subseteq Byte
          /\ LF \notin Range(k) => Byte \cap Range(k) \subseteq Byte \ {LF}
      OBVIOUS
    <3>3. S = Before(k, T, Byte)
      BY <1>2, <1>8
    <3> QED BY <3>1, <3>2, <3>3, TurnsOne
  <2> QED BY <1>5, <2>1, <2>2 DEF Is
<1>9. ASSUME NEW x, NEW U PROVE Turns(k, Text(x), Before(k, U, {x}), U)
  <2>1. \A A \in SUBSET (0..Len(k)) : step(k, A, Text(x)) = AfterByte(k, A, {x})
    BY StepCases
  <2>2. {x} \cap Range(k) \subseteq {x}
    OBVIOUS
  <2> QED BY <2>1, <2>2, TurnsOne
<1>10. CASE b \notin {STAR, ANY, ESC, OPEN}
  <2>1. Is(t, "text", Append(u.re, Text(b)), u.class)
    BY <1>4, <1>10 DEF Moved
  <2>2. Turns(k, Text(b), S, T)
    BY <1>2, <1>9, <1>10
  <2> QED BY <1>5, <2>1, <2>2 DEF Is
<1>11. CASE b = OPEN
  BY <1>11, ClassLeads DEF b, u
<1>12. CASE b = ESC
  <2>1. t.mode = "escape" /\ t.re = u.re
    BY <1>4, <1>12 DEF Moved, Is
  <2>2. CASE i + 1 = Len(p)
    <3>1. S = {}
      BY <1>1, <1>12, <2>2 DEF GlobRules, b, S
    <3>2. Final(s[Len(p)]).mode # "text"
      <4>1. t \in Scans(p)
        BY <1>0 DEF Scanned, t
      <4>2. Final(t) = t
        BY <2>1, <4>1, Ended
      <4> QED BY <2>1, <2>2, <4>2 DEF t
    <3> QED BY <3>1, <3>2 DEF Leads, S
  <2>3. CASE i + 1 < Len(p)
    <3>1. i + 2 \in 1..Len(p) /\ (i + 2) - 1 = i + 1 /\ i + 2 \in (i + 1)..Len(p)
          /\ (i + 2) + 1 = i + 3
      BY <1>0, <2>3
    <3> DEFINE x == p[i + 2]
               v == s[i + 2]
    <3>2. Moved(t, x, v)
      BY <3>1 DEF Scanned, t
    <3>3. S = Before(k, G[i + 3], {x})
      BY <1>0, <1>1, <1>12, <2>3 DEF GlobRules, b, S
    <3> HIDE DEF x, v
    <3>4. v.mode = "text" /\ v.re = Append(u.re, Text(x))
      BY <2>1, <3>2 DEF Moved, Is
    <3>5. Turns(k, Text(x), G[i + 1], G[(i + 2) + 1])
      BY <1>9, <3>1, <3>3 DEF S
    <3>6. Arrives(p, s, i + 2, Append(s[i].re, Text(x)))
      BY <3>4 DEF Arrives, u, v
    <3> QED BY <3>1, <3>5, <3>6 DEF Leads
  <2> QED BY <1>0, <2>2, <2>3
<1> QED BY <1>7, <1>8, <1>10, <1>11, <1>12

\* A pattern that matches nothing in the one way matches nothing in the other.
LEMMA NothingMatches ==
    ASSUME NEW p \in Seq(Byte), NEW k \in Seq(Byte), ~ EscapedLetter(p), NEW s, Scanned(p, s),
           NEW G, GlobSets(p, k, G), Final(s[Len(p)]).mode # "text"
    PROVE  G[1] = {}
<1> DEFINE n == Len(p)
           S == {i \in 0..n : s[i].mode = "text" => G[i + 1] = {}}
<1>0. n \in Nat
  BY LenProperties
<1>1. ASSUME NEW i \in 0..n, \A j \in (i + 1)..n : j \in S PROVE i \in S
  <2> SUFFICES ASSUME s[i].mode = "text" PROVE G[i + 1] = {}
    OBVIOUS
  <2>1. CASE i = n
    <3>1. s[i] \in Scans(p)
      BY DEF Scanned
    <3>2. Final(s[i]) = s[i]
      BY <3>1, Ended
    <3> QED BY <2>1, <3>2
  <2>2. CASE i \in 0..(n - 1)
    <3>1. Leads(p, k, s, G, i)
      BY <2>2, PatternLeads
    <3>2. CASE G[i + 1] = {}
      BY <3>2
    <3>3. CASE \E e \in (i + 1)..n : \E item :
                  /\ Turns(k, item, G[i + 1], G[e + 1])
                  /\ Arrives(p, s, e, Append(s[i].re, item))
      <4>1. PICK e \in (i + 1)..n : \E item :
                  /\ Turns(k, item, G[i + 1], G[e + 1])
                  /\ Arrives(p, s, e, Append(s[i].re, item))
        BY <3>3
      <4>2. PICK item : /\ Turns(k, item, G[i + 1], G[e + 1])
                        /\ Arrives(p, s, e, Append(s[i].re, item))
        BY <4>1
      <4>3. s[e].mode = "text"
        BY <4>2 DEF Arrives
      <4>4. G[e + 1] = {}
        BY <1>1, <4>3
      <4> QED BY <4>2, <4>4 DEF Turns
    <3> QED BY <3>1, <3>2, <3>3 DEF Leads
  <2> QED BY <1>0, <2>1, <2>2
<1>2. \A i \in 0..n : i \in S
  <2> HIDE DEF S, n
  <2> QED BY <1>0, <1>1, FromBehind
<1>3. 0 \in S /\ s[0].mode = "text"
  BY <1>0, <1>2 DEF Scanned, IsScan, Scan0
<1> QED BY <1>3

\* An expression that MustCompile takes matches what the pattern matches, but for line
\* feeds.
SameMatch(p, k, X) ==
    /\ MatchString(X, k) => Glob(p, k)
    /\ Glob(p, k) /\ LF \notin Range(k) => MatchString(X, k)

\* And a key that one matches the other does.
LEMMA SomethingMatches ==
    ASSUME NEW p \in Seq(Byte), NEW k \in Seq(Byte), ~ EscapedLetter(p), NEW s, Scanned(p, s),
           NEW G, GlobSets(p, k, G), Glob(p, k) <=> 1 \in G[1],
           Final(s[Len(p)]).mode = "text", ~ mustCompilePanics(Final(s[Len(p)]).re)
    PROVE  SameMatch(p, k, Final(s[Len(p)]).re)
<1> DEFINE n == Len(p)
           X == Final(s[n]).re
           M == MatchString(X, k)
           noLF == LF \notin Range(k)
<1>0. n \in Nat /\ Len(k) \in Nat
  BY LenProperties
<1>1. Len(X) \in Nat /\ DOMAIN X = 1..Len(X)
  BY <1>0, FinalTyped, LenProperties
<1>2. \A m \in 1..Len(X) : ~ BadItem(X[m])
  BY <1>1 DEF BadItem, mustCompilePanics
<1>3. PICK at : Stands(X, k, at) /\ (M <=> Len(k) \in at[Len(X)])
  <2> HIDE DEF X
  <2> QED BY <1>1, MatchRun
<1>4. /\ at \in [0..Len(X) -> SUBSET (0..Len(k))] /\ at[0] = {0}
      /\ \A m \in 1..Len(X) : at[m] = step(k, at[m - 1], X[m])
  BY <1>3 DEF Stands
<1>5. M <=> Meets(at[Len(X)], G[n + 1])
  <2>1. G[n + 1] = {Len(k) + 1}
    <3>1. n + 1 \in 1..(Len(p) + 1) /\ n + 1 > Len(p)
      BY <1>0
    <3> QED BY <3>1 DEF GlobSets, GlobFrom
  <2>2. at[Len(X)] \in SUBSET (0..Len(k))
    BY <1>1, <1>4
  <2>3. Meets(at[Len(X)], G[n + 1]) <=> Len(k) \in at[Len(X)]
    BY <1>0, <2>1, <2>2 DEF Meets
  <2> QED BY <1>3, <2>3
<1> DEFINE Agrees(m, i) == (M => Meets(at[m], G[i])) /\ (Meets(at[m], G[i]) /\ noLF => M)
           S == {i \in 0..n : s[i].mode = "text" => Agrees(Len(s[i].re), i + 1)}
<1>6. ASSUME NEW i \in 0..n, \A j \in (i + 1)..n : j \in S PROVE i \in S
  <2> SUFFICES ASSUME s[i].mode = "text" PROVE Agrees(Len(s[i].re), i + 1)
    OBVIOUS
  <2>1. CASE i = n
    <3>1. s[i] \in Scans(p)
      BY DEF Scanned
    <3>2. Final(s[i]) = s[i]
      BY <3>1, Ended
    <3>3. Len(s[i].re) = Len(X)
      BY <2>1, <3>2
    <3> HIDE DEF X, M
    <3> QED BY <1>5, <2>1, <3>3
  <2>2. CASE i \in 0..(n - 1)
    <3> DEFINE r == s[i].re
               m == Len(r)
    <3>1. Leads(p, k, s, G, i)
      BY <2>2, PatternLeads
    <3>2. PICK e \in (i + 1)..n : \E item :
                  /\ Turns(k, item, G[i + 1], G[e + 1])
                  /\ Arrives(p, s, e, Append(r, item))
      BY <3>1 DEF Leads
    <3>3. PICK item : /\ Turns(k, item, G[i + 1], G[e + 1])
                      /\ Arrives(p, s, e, Append(r, item))
      BY <3>2
    <3>4. m \in Nat /\ Len(Append(r, item)) = m + 1 /\ Append(r, item)[m + 1] = item
      <4>1. Typed(s[i]) /\ r \in Seq(Items(p))
        BY ScanTyped
      <4> HIDE DEF r
      <4> QED BY <4>1, GrowsAppend, LenProperties
    <3> HIDE DEF r, m
    <3>5. Grows(Append(r, item), X) /\ Agrees(m + 1, e + 1)
      <4>1. CASE s[e].mode = "text" /\ s[e].re = Append(r, item)
        <5>1. e \in 0..n /\ e \in S
          BY <1>0, <1>6
        <5>2. Grows(s[e].re, X)
          BY <1>0, <5>1, GrowsEnd
        <5>3. Agrees(Len(s[e].re), e + 1)
          BY <4>1, <5>1
        <5> HIDE DEF X, M
        <5> QED BY <3>4, <4>1, <5>2, <5>3
      <4>2. CASE e = n /\ X = Append(r, item)
        <5> HIDE DEF X, M
        <5>1. Grows(X, X)
          BY <1>1 DEF Grows
        <5>2. Len(X) = m + 1
          BY <3>4, <4>2
        <5> QED BY <1>5, <4>2, <5>1, <5>2
      <4> QED BY <3>3, <4>1, <4>2 DEF Arrives
    <3>6. m + 1 \in 1..Len(X) /\ X[m + 1] = item
      <4> HIDE DEF X, M
      <4> QED BY <1>1, <3>4, <3>5 DEF Grows
    <3>7. ~ BadItem(item)
      <4> HIDE DEF X, M
      <4> QED BY <1>2, <3>6
    <3>8. at[m] \in SUBSET (0..Len(k)) /\ at[m + 1] = step(k, at[m], item)
      <4> HIDE DEF X, M
      <4>1. m \in 0..Len(X) /\ (m + 1) - 1 = m
        BY <1>1, <3>4, <3>6
      <4> QED BY <1>4, <3>6, <4>1
    <3>9. /\ Meets(at[m + 1], G[e + 1]) => Meets(at[m], G[i + 1])
          /\ Meets(at[m], G[i + 1]) /\ LF \notin Range(k) => Meets(at[m + 1], G[e + 1])
      BY <3>3, <3>7, <3>8 DEF Turns
    <3> HIDE DEF M
    <3>10. Agrees(m, i + 1)
      BY <3>5, <3>9
    <3> QED BY <3>10 DEF m, r
  <2> QED BY <1>0, <2>1, <2>2
<1>7. \A i \in 0..n : i \in S
  <2> HIDE DEF S, n
  <2> QED BY <1>0, <1>6, FromBehind
<1>8. 0 \in S /\ s[0].mode = "text" /\ s[0].re = <<>>
  BY <1>0, <1>7 DEF Scanned, IsScan, Scan0
<1>9. Agrees(0, 1)
  <2> HIDE DEF M
  <2> QED BY <1>8, EmptySeq
<1>10. Meets(at[0], G[1]) <=> Glob(p, k)
  BY <1>4 DEF Meets
<1> HIDE DEF X
<1> QED BY <1>9, <1>10 DEF SameMatch, X

\* What KEYS answers to a pattern.
LEMMA KeysMatch ==
    ASSUME NEW p \in Seq(Byte), NEW k \in Seq(Byte), ~ EscapedLetter(p),
           patternRE(p) # Nil => ~ mustCompilePanics(patternRE(p))
    PROVE  /\ patternRE(p) # Nil /\ MatchString(patternRE(p), k) => Glob(p, k)
           /\ Glob(p, k) /\ LF \notin Range(k) =>
                 patternRE(p) # Nil /\ MatchString(patternRE(p), k)
<1>0. Len(p) \in Nat
  BY LenProperties
<1>1. PICK s : Scanned(p, s)
  BY ScannedRun
<1>2. \A i \in 1..(Len(p) + 1) : classEnd(p, i + 1) \in Int
  <2> TAKE i \in 1..(Len(p) + 1)
  <2>1. i + 1 \in 1..(Len(p) + 2)
    BY <1>0
  <2> QED BY <1>0, <2>1, EndHere
<1>3. PICK G : GlobSets(p, k, G) /\ (Glob(p, k) <=> 1 \in G[1])
  BY <1>0, <1>2, GlobRun
<1> DEFINE F == Final(s[Len(p)])
<1>4. patternRE(p) = IF F.mode = "text" THEN F.re ELSE Nil
  BY <1>1 DEF Scanned, IsScan
<1>5. CASE F.mode # "text"
  <2>1. G[1] = {}
    BY <1>1, <1>3, <1>5, NothingMatches
  <2> QED BY <1>3, <1>4, <1>5, <2>1
<1>6. CASE F.mode = "text"
  <2>1. patternRE(p) = F.re
    BY <1>4, <1>6
  <2>2. F.re # Nil
    <3>1. F.re \in Seq(Items(p))
      BY <1>0, <1>1, FinalTyped
    <3> HIDE DEF F
    <3> SUFFICES ASSUME F.re = Nil PROVE FALSE
      OBVIOUS
    <3> DEFINE y == F.re
    <3>2. Len(y) = 1 /\ y[1] = [op |-> "nil"] /\ y \in Seq(Items(p))
      BY <3>1 DEF Nil
    <3> HIDE DEF y
    <3>3. [op |-> "nil"] \in Items(p)
      <4>1. 1 \in 1..Len(y)
        BY <3>2
      <4> QED BY <3>2, <4>1, ElementOfSeq
    <3>4. \A x \in Items(p) : x.op # "nil"
      BY DEF Items, Text, Class
    <3> QED BY <3>3, <3>4
  <2>3. SameMatch(p, k, F.re)
    BY <1>1, <1>3, <1>6, <2>1, <2>2, SomethingMatches
  <2> QED BY <2>1, <2>2, <2>3 DEF SameMatch
<1> QED BY <1>5, <1>6

-----------------------------------------------------------------------------
(* The connection.                                                          *)

\* Every step keeps what the invariant says of the bytes and of the answers.
LEMMA WireContentStep ==
    ASSUME WireTypes, WireContent, [Next]_vars
    PROVE  WireContent'
<1>1. \/ Len(answered) < Len(session.reqs)
      \/ Len(answered) = Len(session.reqs)
  BY Types DEF WireContent
<1>2. CASE Deliver \/ Hangup \/ UNCHANGED vars
  BY <1>2, NetworkContent
<1>3. CASE ReadFails
  <2>1. UNCHANGED <<session, answered>> /\ pc' = "closed"
    BY <1>3 DEF ReadFails, Leave
  <2> QED BY <2>1, LeaveContent
<1>4. CASE readArray
  BY <1>1, <1>4, ReadArrayInRequest, ReadArrayInRest
<1>5. CASE readString
  BY <1>1, <1>5, ReadHeader, ReadSimple, ReadStringInRest
<1>6. CASE readBulk
  BY <1>1, <1>6, ReadBulkInRequest, ReadBulkInRest
<1>7. CASE dispatch
  BY <1>1, <1>7, DispatchInRequest, DispatchInRest
<1> QED BY <1>2, <1>3, <1>4, <1>5, <1>6, <1>7 DEF Next, servePeer

\* The invariant is one.
THEOREM WireInvariant == Spec => []WireInv
<1>1. WireInv <=> WireTypes /\ WireContent
  BY DEF WireInv, WireContent
<1>2. Init => WireInv
  BY <1>1, WireTypesInit, ContentInit
<1>3. WireInv /\ [Next]_vars => WireInv'
  <2>1. WireInv' <=> WireTypes' /\ WireContent'
    BY DEF WireInv, WireContent
  <2> QED BY <1>1, <2>1, WireTypesStep, WireContentStep
<1> QED BY <1>2, <1>3, PTL DEF Spec

\* The reader's variables keep their types.
THEOREM ReaderTyped == Spec => []TypeOK
<1>1. WireInv => TypeOK
  BY DEF WireInv, WireTypes
<1> QED BY <1>1, WireInvariant, PTL

\* Only what the client sent is executed, in its order and byte for byte, however
\* the bytes arrive (src/server/proto.go:15-87, src/server/server.go:119-144).
THEOREM RequestsAsSent == Spec => []ExactlyWhatWasSent
<1>1. WireInv => ExactlyWhatWasSent
  BY DEF WireInv
<1> QED BY <1>1, WireInvariant, PTL

\* A server that knows KEYS and QUIT dies of nothing but an array without fields, a bulk
\* string that is too long, and a pattern with a class, with a backslash and an E, or with
\* a byte that is not ASCII (src/server/server.go:148, src/server/proto.go:75,
\* src/keys.go:64).
THEOREM DiesOfTheseOnly == Spec => []DiesOnlyOn
<1>1. WireInv => DiesOnlyOn
  BY DEF WireInv
<1> QED BY <1>1, WireInvariant, PTL

-----------------------------------------------------------------------------
(* The answers of KEYS.                                                    *)

\* What was answered, and to what: KEYS has one argument, and its pattern was compiled.
NoKeys == {OK, Unknown, WrongNumber, Untold}
AnswerOf(a) ==
    \/ a.reply \in NoKeys
    \/ /\ a.req[2] \in Seq(Byte)
       /\ patternRE(a.req[2]) # Nil => ~ mustCompilePanics(patternRE(a.req[2]))
       /\ a.reply = Answer(matchKeys(Names, a.req[2]))
AnswersOfKeys == \A i \in DOMAIN answered : AnswerOf(answered[i])

\* One more answer.
LEMMA ReplyAnswers ==
    ASSUME WireTypes, AnswersOfKeys, NEW x, Reply(x), x \in Replies,
           AnswerOf([req |-> fields, reply |-> x])
    PROVE  AnswersOfKeys'
<1> DEFINE a == [req |-> fields, reply |-> x]
           R == [req : Seq(Seq(Byte)), reply : Replies]
<1>1. answered' = Append(answered, a)
  BY DEF Reply
<1>2. answered \in Seq(R) /\ a \in R
  BY Types DEF WireTypes
<1> HIDE DEF a, R
<1>3. /\ Append(answered, a) \in Seq(R) /\ Len(Append(answered, a)) = Len(answered) + 1
      /\ Append(answered, a)[Len(answered) + 1] = a
      /\ \A i \in 1..Len(answered) : Append(answered, a)[i] = answered[i]
  BY <1>2, AppendProperties
<1>4. /\ Len(answered) \in Nat /\ DOMAIN answered = 1..Len(answered)
      /\ DOMAIN Append(answered, a) = 1..(Len(answered) + 1)
  BY <1>2, <1>3, LenProperties
<1>5. ASSUME NEW i \in 1..(Len(answered) + 1) PROVE AnswerOf(Append(answered, a)[i])
  <2>1. CASE i = Len(answered) + 1
    BY <1>3, <2>1 DEF a
  <2>2. CASE i \in 1..Len(answered)
    BY <1>3, <1>4, <2>2 DEF AnswersOfKeys
  <2> QED BY <1>4, <2>1, <2>2
<1>6. \A i \in DOMAIN answered' : AnswerOf(answered'[i])
  BY <1>1, <1>4, <1>5
<1> QED BY <1>6 DEF AnswersOfKeys, AnswerOf

\* Every step keeps what the answers are.
LEMMA AnswersStep ==
    ASSUME WireTypes, AnswersOfKeys, [Next]_vars
    PROVE  AnswersOfKeys'
<1>1. ASSUME UNCHANGED answered PROVE AnswersOfKeys'
  BY <1>1 DEF AnswersOfKeys, AnswerOf
<1>2. CASE Deliver \/ Hangup \/ UNCHANGED vars
  <2>1. UNCHANGED answered
    BY <1>2 DEF Deliver, Hangup, vars
  <2> QED BY <1>1, <2>1
<1>3. CASE ReadFails \/ readArray \/ readString \/ readBulk
  <2>1. UNCHANGED answered
    BY <1>3 DEF ReadFails, Leave, readArray, readString, readBulk
  <2> QED BY <1>1, <2>1
<1>4. CASE dispatch
  <2> DEFINE args == Tail(fields)
  <2>1. fields \in Seq(Seq(Byte))
    BY Types
  <2>2. CASE UNCHANGED answered
    BY <1>1, <2>2
  <2>3. ASSUME NEW x \in {OK, Unknown, Untold}, Reply(x) PROVE AnswersOfKeys'
    <3>1. AnswerOf([req |-> fields, reply |-> x]) /\ x \in Replies
      BY DEF AnswerOf, NoKeys, Replies
    <3> QED BY <2>3, <3>1, ReplyAnswers
  <2>4. CASE fields # <<>> /\ ~ patternPanics(args) /\ Reply(cmdKeys(args))
    <3> DEFINE x == cmdKeys(args)
               a == [req |-> fields, reply |-> x]
    <3>1. x \in Replies
      BY ReplyType
    <3>2. CASE Len(args) # 1
      <4>1. x = WrongNumber
        BY <3>2 DEF cmdKeys
      <4>2. a.reply = WrongNumber
        BY <4>1
      <4>3. AnswerOf(a)
        <5> HIDE DEF a
        <5> QED BY <4>2 DEF AnswerOf, NoKeys
      <4> HIDE DEF x
      <4> QED BY <2>4, <3>1, <4>3, ReplyAnswers DEF x
    <3>3. CASE Len(args) = 1
      <4>1. /\ Len(args) = Len(fields) - 1
            /\ \A i \in 1..Len(args) : args[i] = fields[i + 1]
        BY <2>1, <2>4, HeadTailProperties
      <4>2. args[1] = fields[2] /\ fields[2] \in Seq(Byte)
        <5>1. Len(fields) \in Nat
          BY <2>1, LenProperties
        <5>2. 2 \in 1..Len(fields) /\ 1 \in 1..Len(args) /\ 1 + 1 = 2
          BY <3>3, <4>1, <5>1
        <5> QED BY <2>1, <4>1, <5>2, ElementOfSeq
      <4>3. x = Answer(matchKeys(Names, fields[2]))
        BY <3>3, <4>2 DEF cmdKeys
      <4>4. patternRE(fields[2]) # Nil => ~ mustCompilePanics(patternRE(fields[2]))
        BY <2>4, <3>3, <4>2 DEF patternPanics
      <4>5. a.req = fields /\ a.reply = x
        OBVIOUS
      <4>6. AnswerOf(a)
        <5> HIDE DEF a, x
        <5> QED BY <4>2, <4>3, <4>4, <4>5 DEF AnswerOf
      <4> HIDE DEF x
      <4> QED BY <2>4, <3>1, <4>6, ReplyAnswers DEF x
    <3> QED BY <3>2, <3>3
  <2> QED BY <1>4, <2>2, <2>3, <2>4 DEF dispatch
<1> QED BY <1>2, <1>3, <1>4 DEF Next, servePeer

\* A byte that is ASCII is a byte.
LEMMA ASCIIStrings ==
    ASSUME NEW k \in Seq(ASCII)
    PROVE  k \in Seq(Byte)
<1>1. ASCII \subseteq Byte
  BY DEF ASCII, Byte
<1> QED BY <1>1, SeqMonotonic

\* The answers of KEYS are the keys that match.
LEMMA AnswersMatch ==
    ASSUME AnswersOfKeys
    PROVE  KeysAnswersGlob
<1> SUFFICES ASSUME NEW i \in DOMAIN answered, answered[i].reply.is = "keys",
                    ~ EscapedLetter(answered[i].req[2])
             PROVE  LET p == answered[i].req[2]
                        matching == {k \in Names : Glob(p, k)}
                    IN /\ answered[i].reply.keys \subseteq matching
                       /\ {k \in matching : LF \notin Range(k)} \subseteq answered[i].reply.keys
  BY DEF KeysAnswersGlob
<1> DEFINE p == answered[i].req[2]
           re == patternRE(p)
           keys == answered[i].reply.keys
<1>1. /\ p \in Seq(Byte) /\ (re # Nil => ~ mustCompilePanics(re))
      /\ answered[i].reply = Answer(matchKeys(Names, p))
  <2>1. answered[i].reply \notin NoKeys
    <3>1. /\ OK.is # "keys" /\ Unknown.is # "keys"
          /\ WrongNumber.is # "keys" /\ Untold.is # "keys"
      BY DEF OK, Unknown, WrongNumber, Untold
    <3> QED BY <3>1 DEF NoKeys
  <2> QED BY <2>1 DEF AnswersOfKeys, AnswerOf
<1>2. keys = matchKeys(Names, p)
  <2>1. \A x : Answer(x).keys = x
    BY DEF Answer
  <2> QED BY <1>1, <2>1
<1>3. \A k : k \in keys <=> k \in Names /\ re # Nil /\ MatchString(re, k)
  <2>1. keys = IF re = Nil THEN {} ELSE {k \in Names : MatchString(re, k)}
    BY <1>2 DEF matchKeys
  <2> HIDE DEF keys, re, p
  <2> QED BY <2>1
<1> HIDE DEF keys
<1>4. ASSUME NEW k \in Names
      PROVE  /\ k \in keys => Glob(p, k)
             /\ Glob(p, k) /\ LF \notin Range(k) => k \in keys
  <2>1. k \in Seq(Byte)
    BY NamesAssumption, ASCIIStrings
  <2>2. ~ EscapedLetter(p)
    OBVIOUS
  <2> HIDE DEF p
  <2>3. /\ re # Nil /\ MatchString(re, k) => Glob(p, k)
        /\ Glob(p, k) /\ LF \notin Range(k) => re # Nil /\ MatchString(re, k)
    BY <1>1, <2>1, <2>2, KeysMatch
  <2> HIDE DEF re
  <2> QED BY <1>3, <2>3
<1>5. /\ keys \subseteq {k \in Names : Glob(p, k)}
      /\ {k \in {y \in Names : Glob(p, y)} : LF \notin Range(k)} \subseteq keys
  BY <1>3, <1>4
<1> QED BY <1>5 DEF keys

\* KEYS answers the keys that its pattern matches (src/keys.go:13-65,
\* src/redis.go:182-199), if these are ASCII, but for keys with a line feed and patterns
\* that are Foreign or escape a letter in a class.
THEOREM KeysAsTheGlob == Spec => []KeysAnswersGlob
<1>1. Init => AnswersOfKeys
  BY DEF Init, AnswersOfKeys
<1>2. WireInv /\ AnswersOfKeys /\ [Next]_vars => AnswersOfKeys'
  BY AnswersStep DEF WireInv
<1>3. AnswersOfKeys => KeysAnswersGlob
  BY AnswersMatch
<1> QED BY <1>1, <1>2, <1>3, WireInvariant, PTL DEF Spec
=============================================================================
