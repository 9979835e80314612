----------------------------- MODULE SlicesProofs -----------------------------
(***************************************************************************)
(* The slices of the lists, for every set of keys and values, every number  *)
(* of arrays that suffices and every capacity: no header leaves its array,  *)
(* no two lists share one, the slices implement lists that are plain        *)
(* values, and what the embedding program holds changes only where a list   *)
(* still writes.                                                            *)
(*                                                                          *)
(* Every command but List stores new headers over a new memory, which is    *)
(* then collected.  Safe says what the pair must satisfy, StoreStep what    *)
(* then follows; the lemmas in between build safe pairs from Go's append,   *)
(* re-slicing and writes in place.                                          *)
(***************************************************************************)
EXTENDS Slices, ListOpsProofs, FiniteSetTheorems

Cell   == Val \cup {Unused}
Memory == [Arr -> Seq(Cell)]
Slice  == Header \cup {Nil}

\* A header, possibly an empty one, lies within its array; a list has elements too.
Within(m, s) == s.off + s.len <= Len(m[s.arr])
Fits(m, s)   == s \in Header /\ s.len > 0 /\ Within(m, s)

Refers(h, hd, a) == (\E k \in Key : h[k] # Nil /\ h[k].arr = a) \/ (hd # Nil /\ hd.arr = a)
Apart(h)         == \A j, k \in Key : j # k /\ h[j] # Nil /\ h[k] # Nil => h[j].arr # h[k].arr

\* Only arrays that somebody refers to are in use: the collector has run.
Collected == \A a \in Arr : mem[a] # <<>> => Refers(hdr, held, a)

\* The inductive invariant.
SInv == TypeOK /\ Unshared /\ Collected

\* The lists as values.
Contents == [k \in Key |-> L(k)]

\* A header is a record of an array and two naturals, and never Nil.
LEMMA Headers ==
    /\ \A s \in Header : s # Nil /\ s.arr \in Arr /\ s.off \in Nat /\ s.len \in Nat
    /\ \A s \in Slice : s # Nil => s \in Header
    /\ \A s \in Header, o, n \in Nat :
          /\ [s EXCEPT !.off = o, !.len = n] \in Header
          /\ [s EXCEPT !.len = n] \in Header
BY SlicesAssumption DEF Header, Slice

\* The cells of an array.
LEMMA MemoryAt ==
    ASSUME NEW m \in Memory, NEW a \in Arr
    PROVE  /\ m[a] \in Seq(Cell) /\ Len(m[a]) \in Nat /\ DOMAIN m[a] = 1..Len(m[a])
           /\ \A i \in 1..Len(m[a]) : m[a][i] \in Cell
           /\ m[a] = <<>> <=> Len(m[a]) = 0
<1>1. m[a] \in Seq(Cell)
  BY DEF Memory
<1>2. /\ Len(m[a]) \in Nat /\ DOMAIN m[a] = 1..Len(m[a])
      /\ \A i \in 1..Len(m[a]) : m[a][i] \in Cell
  BY <1>1, LenProperties, ElementOfSeq
<1>3. m[a] = <<>> <=> Len(m[a]) = 0
  BY <1>1, EmptySeq
<1> QED BY <1>1, <1>2, <1>3

\* What a slice reads, element by element.
LEMMA ReadAt ==
    ASSUME NEW m \in Memory, NEW s \in Header, Within(m, s)
    PROVE  /\ Read(m, s) \in Seq(Cell) /\ Len(Read(m, s)) = s.len
           /\ \A i \in 1..s.len : Read(m, s)[i] = m[s.arr][s.off + i]
<1>1. s # Nil /\ s.arr \in Arr /\ s.off \in Nat /\ s.len \in Nat
  BY Headers
<1> DEFINE b == m[s.arr]
<1>2. Len(b) \in Nat /\ \A i \in 1..Len(b) : b[i] \in Cell
  BY <1>1, MemoryAt
<1>3. s.off + s.len <= Len(b)
  BY DEF Within
<1> HIDE DEF b
<1>4. \A i \in (s.off + 1)..(s.off + s.len) : b[i] \in Cell
  BY <1>1, <1>2, <1>3
<1>5. /\ SubSeq(b, s.off + 1, s.off + s.len) \in Seq(Cell)
      /\ Len(SubSeq(b, s.off + 1, s.off + s.len)) =
            IF s.off + 1 <= s.off + s.len THEN (s.off + s.len) - (s.off + 1) + 1 ELSE 0
      /\ \A i \in 1..((s.off + s.len) - (s.off + 1) + 1) :
            SubSeq(b, s.off + 1, s.off + s.len)[i] = b[(s.off + 1) + i - 1]
  BY <1>1, <1>4, SubSeqProperties
<1>6. Read(m, s) = SubSeq(b, s.off + 1, s.off + s.len)
  BY <1>1 DEF Read, b
<1>7. Len(Read(m, s)) = s.len
  BY <1>1, <1>5, <1>6
<1>8. ASSUME NEW i \in 1..s.len PROVE Read(m, s)[i] = b[s.off + i]
  <2>1. i \in 1..((s.off + s.len) - (s.off + 1) + 1) /\ (s.off + 1) + i - 1 = s.off + i
    BY <1>1
  <2>2. SubSeq(b, s.off + 1, s.off + s.len)[i] = b[(s.off + 1) + i - 1]
    BY <1>5, <2>1
  <2> QED BY <1>6, <2>1, <2>2
<1> QED BY <1>5, <1>6, <1>7, <1>8 DEF b

\* A concatenation, element by element.
LEMMA ConcatAt ==
    ASSUME NEW D, NEW s \in Seq(D), NEW u \in Seq(D)
    PROVE  /\ s \o u \in Seq(D) /\ Len(s \o u) = Len(s) + Len(u)
           /\ \A i \in 1..Len(s) : (s \o u)[i] = s[i]
           /\ \A i \in 1..Len(u) : (s \o u)[Len(s) + i] = u[i]
<1> DEFINE c == s \o u
<1>1. Len(s) \in Nat /\ Len(u) \in Nat
  BY LenProperties
<1>2. /\ c \in Seq(D) /\ Len(c) = Len(s) + Len(u)
      /\ \A i \in 1..(Len(s) + Len(u)) : c[i] = IF i <= Len(s) THEN s[i] ELSE u[i - Len(s)]
  BY ConcatProperties
<1> HIDE DEF c
<1>3. \A i \in 1..Len(s) : c[i] = s[i]
  BY <1>1, <1>2
<1>4. ASSUME NEW i \in 1..Len(u) PROVE c[Len(s) + i] = u[i]
  <2> DEFINE j == Len(s) + i
  <2>1. j \in 1..(Len(s) + Len(u)) /\ ~(j <= Len(s)) /\ j - Len(s) = i
    BY <1>1
  <2> HIDE DEF j
  <2>2. c[j] = u[i]
    BY <1>2, <2>1
  <2> QED BY <2>2 DEF j
<1> QED BY <1>2, <1>3, <1>4 DEF c

\* Nil reads as the empty list.
LEMMA ReadNil ==
    ASSUME NEW m
    PROVE  Read(m, Nil) = <<>> /\ <<>> \in Seq(Cell) /\ Len(<<>>) = 0
BY EmptySeq DEF Read

\* What any slice reads is a list.
LEMMA ReadType ==
    ASSUME NEW m \in Memory, NEW s \in Slice, s # Nil => Fits(m, s)
    PROVE  /\ Read(m, s) \in Seq(Cell) /\ Len(Read(m, s)) \in Nat
           /\ s # Nil => Len(Read(m, s)) = s.len /\ Read(m, s) # <<>>
<1>1. CASE s = Nil
  <2>1. Read(m, s) = <<>>
    BY <1>1, ReadNil
  <2>2. <<>> \in Seq(Cell) /\ Len(<<>>) \in Nat
    BY EmptySeq
  <2> QED BY <1>1, <2>1, <2>2
<1>2. CASE s # Nil
  <2>1. s \in Header /\ s.len \in Nat /\ s.len > 0
    BY <1>2, Headers DEF Fits
  <2>2. Read(m, s) \in Seq(Cell) /\ Len(Read(m, s)) = s.len
    BY <1>2, <2>1, ReadAt DEF Fits
  <2> QED BY <2>1, <2>2, EmptySeq
<1> QED BY <1>1, <1>2

\* A slice reads the same list in two memories that agree on its cells.
LEMMA SameRead ==
    ASSUME NEW m \in Memory, NEW n \in Memory, NEW s \in Header, Within(m, s), Within(n, s),
           \A i \in 1..s.len : n[s.arr][s.off + i] = m[s.arr][s.off + i]
    PROVE  Read(n, s) = Read(m, s)
<1>1. /\ Read(m, s) \in Seq(Cell) /\ Len(Read(m, s)) = s.len
      /\ \A i \in 1..s.len : Read(m, s)[i] = m[s.arr][s.off + i]
  BY ReadAt
<1>2. /\ Read(n, s) \in Seq(Cell) /\ Len(Read(n, s)) = s.len
      /\ \A i \in 1..s.len : Read(n, s)[i] = n[s.arr][s.off + i]
  BY ReadAt
<1>3. \A i \in 1..Len(Read(n, s)) : Read(n, s)[i] = Read(m, s)[i]
  BY <1>1, <1>2
<1> QED BY <1>1, <1>2, <1>3, SeqEqual

\* The collector: what a slice reads survives it, what nobody refers to does not.
LEMMA VisibleKeeps ==
    ASSUME NEW m \in Memory, NEW h \in [Key -> Slice], NEW hd \in Slice,
           NEW n, n = Visible(m, h, hd)
    PROVE  /\ n \in Memory
           /\ \A a \in Arr : n[a] # <<>> => Refers(h, hd, a)
           /\ \A s \in Header : (s = hd \/ \E k \in Key : h[k] = s) /\ Within(m, s) =>
                 /\ Within(n, s)
                 /\ \A i \in 1..s.len : n[s.arr][s.off + i] = m[s.arr][s.off + i]
<1> DEFINE live  == ({h[k] : k \in Key} \cup {hd}) \ {Nil}
           cells == UNION {Cells(s) : s \in live}
           refs  == {s.arr : s \in live}
           Kept(a) == [i \in DOMAIN m[a] |-> IF <<a, i>> \in cells THEN m[a][i] ELSE Unused]
<1>1. n = [a \in Arr |-> IF a \notin refs THEN <<>> ELSE Kept(a)]
  BY DEF Visible
<1>2. \A s \in live : s \in Header
  BY Headers
<1>3. \A s : s \in live <=> s # Nil /\ (s = hd \/ \E k \in Key : h[k] = s)
  OBVIOUS
<1>4. \A a \in refs : Refers(h, hd, a)
  BY <1>3 DEF Refers
<1>5. \A s \in live : Cells(s) \subseteq cells
  OBVIOUS
<1>6. \A s \in live : s.arr \in refs
  OBVIOUS
<1> HIDE DEF live, cells, refs
<1>7. ASSUME NEW a \in Arr
      PROVE  /\ Kept(a) \in Seq(Cell) /\ Len(Kept(a)) = Len(m[a])
             /\ \A i \in 1..Len(m[a]) : <<a, i>> \in cells => Kept(a)[i] = m[a][i]
  <2>1. /\ Len(m[a]) \in Nat /\ DOMAIN m[a] = 1..Len(m[a])
        /\ \A i \in 1..Len(m[a]) : m[a][i] \in Cell
    BY MemoryAt
  <2>2. Unused \in Cell
    BY DEF Cell
  <2> HIDE DEF cells
  <2>3. Kept(a) \in [1..Len(m[a]) -> Cell]
    BY <2>1, <2>2
  <2>4. Kept(a) \in Seq(Cell) /\ Len(Kept(a)) = Len(m[a])
    BY <2>1, <2>3
  <2> QED BY <2>1, <2>4
<1>8. \A a \in Arr : n[a] = IF a \notin refs THEN <<>> ELSE Kept(a)
  BY <1>1
<1>9. <<>> \in Seq(Cell)
  BY EmptySeq
<1> HIDE DEF Kept
<1>10. n \in Memory
  BY <1>1, <1>7, <1>9 DEF Memory
<1>11. \A a \in Arr : n[a] # <<>> => Refers(h, hd, a)
  BY <1>4, <1>8
<1>12. ASSUME NEW s \in Header, s = hd \/ \E k \in Key : h[k] = s, Within(m, s)
       PROVE  /\ Within(n, s)
              /\ \A i \in 1..s.len : n[s.arr][s.off + i] = m[s.arr][s.off + i]
  <2>1. s # Nil /\ s.arr \in Arr /\ s.off \in Nat /\ s.len \in Nat
    BY Headers
  <2>2. s \in live
    BY <1>3, <1>12, <2>1
  <2>3. s.arr \in refs
    BY <1>6, <2>2
  <2>4. n[s.arr] = Kept(s.arr)
    BY <1>8, <2>1, <2>3
  <2>5. Len(n[s.arr]) = Len(m[s.arr])
    BY <1>7, <2>1, <2>4
  <2>6. Within(n, s)
    BY <1>12, <2>5 DEF Within
  <2>7. ASSUME NEW i \in 1..s.len PROVE n[s.arr][s.off + i] = m[s.arr][s.off + i]
    <3>1. Len(m[s.arr]) \in Nat
      BY <2>1, MemoryAt
    <3>2. s.off + i \in 1..Len(m[s.arr])
      BY <1>12, <2>1, <3>1 DEF Within
    <3>3. s.off + i \in (s.off + 1)..(s.off + s.len)
      BY <2>1
    <3>4. <<s.arr, s.off + i>> \in Cells(s)
      BY <2>1, <3>3 DEF Cells
    <3>5. <<s.arr, s.off + i>> \in cells
      BY <1>5, <2>2, <3>4
    <3> QED BY <1>7, <2>1, <2>4, <3>2, <3>5
  <2> QED BY <2>6, <2>7
<1> QED BY <1>10, <1>11, <1>12

\* A write into an array changes the cells written and no others.
LEMMA WriteAt ==
    ASSUME NEW m \in Memory, NEW s \in Header, NEW n \in Nat, NEW vs \in Seq(Cell),
           NEW w, w = Write(m, s, n, vs)
    PROVE  /\ w \in Memory
           /\ \A a \in Arr : Len(w[a]) = Len(m[a]) /\ (a # s.arr => w[a] = m[a])
           /\ \A i \in 1..Len(m[s.arr]) :
                 i <= s.off + n \/ i > s.off + n + Len(vs) => w[s.arr][i] = m[s.arr][i]
           /\ \A j \in 1..Len(vs) : s.off + n + j <= Len(m[s.arr]) =>
                 w[s.arr][s.off + n + j] = vs[j]
<1> DEFINE b == [i \in DOMAIN m[s.arr] |->
                   IF i - s.off - n \in 1..Len(vs) THEN vs[i - s.off - n] ELSE m[s.arr][i]]
<1>1. w = [m EXCEPT ![s.arr] = b]
  BY DEF Write
<1>2. s.arr \in Arr /\ s.off \in Nat
  BY Headers
<1>3. /\ Len(m[s.arr]) \in Nat /\ DOMAIN m[s.arr] = 1..Len(m[s.arr])
      /\ \A i \in 1..Len(m[s.arr]) : m[s.arr][i] \in Cell
  BY <1>2, MemoryAt
<1>4. \A i \in 1..Len(vs) : vs[i] \in Cell
  BY ElementOfSeq
<1>5. \A i \in 1..Len(m[s.arr]) :
         b[i] = IF i - s.off - n \in 1..Len(vs) THEN vs[i - s.off - n] ELSE m[s.arr][i]
  BY <1>3
<1>6. b \in [1..Len(m[s.arr]) -> Cell]
  BY <1>3, <1>4
<1> HIDE DEF b
<1>7. b \in Seq(Cell) /\ Len(b) = Len(m[s.arr])
  BY <1>3, <1>6
<1>8. w \in Memory
  BY <1>1, <1>7 DEF Memory
<1>9. w[s.arr] = b /\ \A a \in Arr : a # s.arr => w[a] = m[a]
  BY <1>1, <1>2 DEF Memory
<1>10. ASSUME NEW i \in 1..Len(m[s.arr]), i <= s.off + n \/ i > s.off + n + Len(vs)
       PROVE  b[i] = m[s.arr][i]
  <2>1. i - s.off - n \notin 1..Len(vs)
    BY <1>2, <1>3, <1>10, LenProperties
  <2> QED BY <1>5, <2>1
<1>11. ASSUME NEW j \in 1..Len(vs), s.off + n + j <= Len(m[s.arr])
       PROVE  b[s.off + n + j] = vs[j]
  <2> DEFINE i == s.off + n + j
  <2>1. i \in 1..Len(m[s.arr]) /\ i - s.off - n = j
    BY <1>2, <1>3, <1>11, LenProperties
  <2> HIDE DEF i
  <2>2. b[i] = vs[j]
    BY <1>5, <2>1
  <2> QED BY <2>2 DEF i
<1> QED BY <1>7, <1>8, <1>9, <1>10, <1>11
-----------------------------------------------------------------------------
(* Go's append. *)

Free(m) == \E a \in Arr : m[a] = <<>>

\* r is a memory and a slice that reads l there.  It is a new array, or the array of s
\* written behind the offset of s; every other array is as it was in m.
Grows(m, s, r, l) ==
    /\ r.mem \in Memory /\ Fits(r.mem, r.s) /\ Read(r.mem, r.s) = l
    /\ \A a \in Arr : a # r.s.arr => r.mem[a] = m[a]
    /\ \/ m[r.s.arr] = <<>>
       \/ /\ s # Nil /\ r.s.arr = s.arr
          /\ Len(r.mem[s.arr]) = Len(m[s.arr])
          /\ \A i \in 1..Len(m[s.arr]) : i <= s.off => r.mem[s.arr][i] = m[s.arr][i]

\* There is always a free array: each key and the holder refer to one at most.
LEMMA FreeArray ==
    ASSUME SInv
    PROVE  Free(mem)
<1> SUFFICES ASSUME \A a \in Arr : mem[a] # <<>> PROVE FALSE
  BY DEF Free
<1> DEFINE Arrays == {hdr[k].arr : k \in Key}
<1>1. IsFiniteSet(Arrays) /\ Cardinality(Arrays) <= Cardinality(Key)
  <2> DEFINE f == [k \in Key |-> hdr[k].arr]
  <2>1. f \in Surjection(Key, Arrays)
    BY DEF Surjection
  <2> HIDE DEF f, Arrays
  <2> QED BY <2>1, SlicesAssumption, FS_Surjection
<1>2. \A a \in Arr : a \in Arrays \cup {held.arr}
  BY DEF SInv, Collected, Refers
<1> HIDE DEF Arrays
<1>3. /\ IsFiniteSet(Arrays \cup {held.arr})
      /\ Cardinality(Arrays \cup {held.arr}) =
            IF held.arr \in Arrays THEN Cardinality(Arrays) ELSE Cardinality(Arrays) + 1
  BY <1>1, FS_AddElement
<1>4. Arr \in SUBSET (Arrays \cup {held.arr})
  BY <1>2
<1>5. Cardinality(Arr) <= Cardinality(Arrays \cup {held.arr})
  BY <1>3, <1>4, FS_Subset
<1>6. /\ Cardinality(Arr) \in Nat /\ Cardinality(Key) \in Nat /\ Cardinality(Arrays) \in Nat
      /\ Cardinality(Arr) >= Cardinality(Key) + 2
  BY <1>1, SlicesAssumption, FS_CardinalityType
<1> QED BY <1>1, <1>3, <1>5, <1>6

\* A new array holds the list it was made for.
LEMMA AllocGrows ==
    ASSUME NEW m \in Memory, Free(m), NEW s, NEW vs \in Seq(Cell), vs # <<>>,
           NEW cap \in Nat, Len(vs) <= cap, NEW r, r = Alloc(m, vs, cap)
    PROVE  Grows(m, s, r, vs)
<1> DEFINE a   == CHOOSE x \in Arr : m[x] = <<>>
           pad == [i \in 1..(cap - Len(vs)) |-> Unused]
           sl  == [arr |-> a, off |-> 0, len |-> Len(vs)]
           n   == [m EXCEPT ![a] = vs \o pad]
<1>1. r = [mem |-> n, s |-> sl]
  BY DEF Alloc
<1>2. a \in Arr /\ m[a] = <<>>
  BY DEF Free
<1>3. Len(vs) \in Nat /\ Len(vs) > 0
  BY LenProperties, EmptySeq
<1>4. pad \in Seq(Cell)
  <2>1. pad \in [1..(cap - Len(vs)) -> Cell] /\ cap - Len(vs) \in Nat
    BY <1>3 DEF Cell
  <2> HIDE DEF pad
  <2> QED BY <2>1
<1> HIDE DEF a, pad
<1>5. /\ vs \o pad \in Seq(Cell) /\ Len(vs \o pad) = Len(vs) + Len(pad)
      /\ \A i \in 1..(Len(vs) + Len(pad)) :
            (vs \o pad)[i] = IF i <= Len(vs) THEN vs[i] ELSE pad[i - Len(vs)]
  BY <1>4, ConcatProperties
<1>6. Len(pad) \in Nat
  BY <1>4, LenProperties
<1>7. n \in Memory /\ n[a] = vs \o pad /\ \A x \in Arr : x # a => n[x] = m[x]
  BY <1>2, <1>5 DEF Memory
<1>8. sl \in Header /\ sl.arr = a /\ sl.off = 0 /\ sl.len = Len(vs)
  BY <1>2, <1>3 DEF Header
<1> HIDE DEF n, sl
<1>9. Within(n, sl)
  BY <1>3, <1>5, <1>6, <1>7, <1>8 DEF Within
<1>10. /\ Read(n, sl) \in Seq(Cell) /\ Len(Read(n, sl)) = Len(vs)
       /\ \A i \in 1..Len(vs) : Read(n, sl)[i] = n[a][0 + i]
  BY <1>7, <1>8, <1>9, ReadAt
<1>11. \A i \in 1..Len(vs) : Read(n, sl)[i] = vs[i]
  BY <1>3, <1>5, <1>6, <1>7, <1>10
<1>12. Read(n, sl) = vs
  BY <1>10, <1>11, SeqEqual
<1>13. r.mem = n /\ r.s = sl
  BY <1>1
<1> QED BY <1>2, <1>3, <1>7, <1>8, <1>9, <1>12, <1>13 DEF Grows, Fits

\* Go's append leaves the old list followed by the new elements.
LEMMA AppendGrows ==
    ASSUME NEW m \in Memory, Free(m), NEW s \in Slice, s # Nil => Within(m, s),
           NEW vs \in Seq(Cell), vs # <<>>, NEW r \in append(m, s, vs)
    PROVE  Grows(m, s, r, Read(m, s) \o vs)
<1> DEFINE n == IF s = Nil THEN 0 ELSE s.len
           l == Read(m, s)
<1>1. Len(vs) \in Nat /\ Len(vs) > 0 /\ \A i \in 1..Len(vs) : vs[i] \in Cell
  BY LenProperties, EmptySeq, ElementOfSeq
<1>2. n \in Nat /\ l \in Seq(Cell) /\ Len(l) = n
  BY Headers, ReadAt, ReadNil
<1>3. /\ l \o vs \in Seq(Cell) /\ Len(l \o vs) = n + Len(vs)
      /\ \A i \in 1..n : (l \o vs)[i] = l[i]
      /\ \A i \in 1..Len(vs) : (l \o vs)[n + i] = vs[i]
  <2> HIDE DEF l
  <2> QED BY <1>2, ConcatAt
<1>4. CASE n + Len(vs) <= Room(m, s)
  <2>1. s # Nil
    BY <1>1, <1>2, <1>4 DEF Room
  <2>2. s \in Header /\ s.arr \in Arr /\ s.off \in Nat /\ s.len \in Nat /\ n = s.len
    BY <2>1, Headers
  <2> DEFINE w  == Write(m, s, n, vs)
             sl == [s EXCEPT !.len = s.len + Len(vs)]
  <2>3. r = [mem |-> w, s |-> sl]
    BY <1>4 DEF append
  <2> HIDE DEF n
  <2>4. /\ w \in Memory /\ Len(w[s.arr]) = Len(m[s.arr])
        /\ \A a \in Arr : a # s.arr => w[a] = m[a]
        /\ \A i \in 1..Len(m[s.arr]) :
              i <= s.off + s.len \/ i > s.off + s.len + Len(vs) => w[s.arr][i] = m[s.arr][i]
        /\ \A j \in 1..Len(vs) : s.off + s.len + j <= Len(m[s.arr]) =>
              w[s.arr][s.off + s.len + j] = vs[j]
    <3>1. w = Write(m, s, s.len, vs)
      BY <2>2
    <3> HIDE DEF w
    <3>2. s \in Header /\ s.len \in Nat
      BY <2>2
    <3>3. w \in Memory
      BY <3>1, <3>2, WriteAt
    <3>4. \A a \in Arr : Len(w[a]) = Len(m[a]) /\ (a # s.arr => w[a] = m[a])
      BY <3>1, <3>2, WriteAt
    <3>5. \A i \in 1..Len(m[s.arr]) :
              i <= s.off + s.len \/ i > s.off + s.len + Len(vs) => w[s.arr][i] = m[s.arr][i]
      BY <3>1, <3>2, WriteAt
    <3>6. \A j \in 1..Len(vs) : s.off + s.len + j <= Len(m[s.arr]) =>
              w[s.arr][s.off + s.len + j] = vs[j]
      BY <3>1, <3>2, WriteAt
    <3> QED BY <2>2, <3>3, <3>4, <3>5, <3>6
  <2>5. sl \in Header /\ sl.arr = s.arr /\ sl.off = s.off /\ sl.len = s.len + Len(vs)
    BY <1>1, <2>2 DEF Header
  <2>6. Len(m[s.arr]) \in Nat
    BY <2>2, MemoryAt
  <2>7. s.off + s.len + Len(vs) <= Len(m[s.arr])
    BY <1>1, <1>4, <2>1, <2>2, <2>6 DEF Room
  <2> HIDE DEF w, sl
  <2>8. Within(w, sl)
    BY <1>1, <2>2, <2>4, <2>5, <2>7 DEF Within
  <2>9. /\ Read(w, sl) \in Seq(Cell) /\ Len(Read(w, sl)) = s.len + Len(vs)
        /\ \A i \in 1..(s.len + Len(vs)) : Read(w, sl)[i] = w[s.arr][s.off + i]
    BY <2>4, <2>5, <2>8, ReadAt
  <2>10. ASSUME NEW i \in 1..(s.len + Len(vs)) PROVE Read(w, sl)[i] = (l \o vs)[i]
    <3> HIDE DEF l
    <3>1. s.off + i \in 1..Len(m[s.arr])
      BY <1>1, <2>2, <2>6, <2>7
    <3>2. CASE i <= s.len
      <4>1. l[i] = m[s.arr][s.off + i]
        BY <2>1, <2>2, <3>2, ReadAt DEF l
      <4>2. w[s.arr][s.off + i] = m[s.arr][s.off + i]
        <5> DEFINE x == s.off + i
        <5>1. x \in 1..Len(m[s.arr]) /\ x <= s.off + s.len
          BY <2>2, <3>1, <3>2
        <5> HIDE DEF x
        <5>2. w[s.arr][x] = m[s.arr][x]
          BY <2>4, <5>1
        <5> QED BY <5>2 DEF x
      <4>3. (l \o vs)[i] = l[i]
        BY <1>3, <2>2, <3>2
      <4> QED BY <2>9, <4>1, <4>2, <4>3
    <3>3. CASE i > s.len
      <4> DEFINE j == i - s.len
      <4>1. j \in 1..Len(vs) /\ s.off + i = s.off + s.len + j
        BY <1>1, <2>2, <3>3
      <4> HIDE DEF j
      <4>2. w[s.arr][s.off + s.len + j] = vs[j]
        <5>1. s.off + s.len + j <= Len(m[s.arr])
          BY <1>1, <2>2, <2>6, <2>7, <4>1
        <5> QED BY <2>4, <4>1, <5>1
      <4>3. (l \o vs)[n + j] = vs[j]
        BY <1>3, <4>1
      <4>4. n + j = i
        BY <2>2 DEF j
      <4>5. Read(w, sl)[i] = w[s.arr][s.off + s.len + j]
        BY <2>9, <4>1
      <4> QED BY <4>2, <4>3, <4>4, <4>5
    <3>4. i <= s.len \/ i > s.len
      BY <1>1, <2>2
    <3> QED BY <3>2, <3>3, <3>4, Zenon
  <2>11. Read(w, sl) = l \o vs
    <3> HIDE DEF l
    <3> QED BY <1>3, <2>2, <2>9, <2>10, SeqEqual
  <2>12. ASSUME NEW i \in 1..Len(m[s.arr]), i <= s.off PROVE w[s.arr][i] = m[s.arr][i]
    BY <2>2, <2>4, <2>6, <2>12
  <2>13. r.mem = w /\ r.s = sl
    BY <2>3
  <2>14. sl.len > 0
    BY <1>1, <2>2, <2>5
  <2> QED BY <2>1, <2>4, <2>5, <2>8, <2>11, <2>12, <2>13, <2>14 DEF Grows, Fits
<1>5. CASE ~(n + Len(vs) <= Room(m, s))
  <2>1. PICK cap \in (n + Len(vs))..MaxCap : r = Alloc(m, l \o vs, cap)
    BY <1>5 DEF append
  <2>2. cap \in Nat /\ Len(l \o vs) <= cap
    BY <1>1, <1>2, <1>3, <2>1, SlicesAssumption
  <2>3. l \o vs # <<>>
    <3> HIDE DEF l
    <3> QED BY <1>1, <1>2, <1>3, EmptySeq
  <2> HIDE DEF l
  <2>4. Grows(m, s, r, l \o vs)
    BY <1>3, <2>1, <2>2, <2>3, AllocGrows
  <2> QED BY <2>4 DEF l
<1> QED BY <1>4, <1>5

\* append([]string{v}, l...) is always a new array.
LEMMA LpushGrows ==
    ASSUME NEW m \in Memory, Free(m), NEW s \in Slice, s # Nil => Within(m, s), NEW v \in Cell,
           NEW r \in lpushed(m, s, v)
    PROVE  Grows(m, Nil, r, <<v>> \o Read(m, s))
<1> DEFINE l == Read(m, s)
<1>1. <<v>> \in Seq(Cell) /\ Len(<<v>>) = 1 /\ <<v>> # <<>>
  OBVIOUS
<1>2. l \in Seq(Cell) /\ Len(l) \in Nat /\ Len(l) = IF s = Nil THEN 0 ELSE s.len
  <2>1. CASE s = Nil
    <3>1. l = <<>>
      BY <2>1, ReadNil
    <3> HIDE DEF l
    <3> QED BY <2>1, <3>1, EmptySeq
  <2>2. CASE s # Nil
    BY <2>2, Headers, ReadAt
  <2> QED BY <2>1, <2>2
<1>3. <<v>> \o l \in Seq(Cell) /\ Len(<<v>> \o l) = 1 + Len(l)
  <2> HIDE DEF l
  <2> QED BY <1>1, <1>2, ConcatProperties
<1>4. <<v>> \o l # <<>>
  <2> HIDE DEF l
  <2> QED BY <1>2, <1>3, EmptySeq
<1>5. PICK cap \in Nat : Len(<<v>> \o l) <= cap /\ r = Alloc(m, <<v>> \o l, cap)
  <2>1. CASE s = Nil
    <3>1. l = <<>>
      BY <2>1, ReadNil
    <3>2. <<v>> \o l = <<v>>
      BY <1>1, <3>1, ConcatEmptySeq
    <3>3. r = Alloc(m, <<v>>, 1)
      BY <2>1 DEF lpushed
    <3>4. 1 \in Nat /\ Len(<<v>> \o l) <= 1
      BY <1>1, <3>2
    <3>5. r = Alloc(m, <<v>> \o l, 1)
      BY <3>2, <3>3
    <3> HIDE DEF l
    <3> QED BY <3>4, <3>5
  <2>2. CASE s # Nil
    <3>1. PICK cap \in (s.len + 1)..MaxCap : r = Alloc(m, <<v>> \o l, cap)
      BY <2>2 DEF lpushed
    <3>2. s.len \in Nat /\ Len(l) = s.len
      BY <1>2, <2>2, Headers
    <3> HIDE DEF l
    <3>3. cap \in Nat /\ Len(<<v>> \o l) <= cap
      BY <1>3, <3>2, SlicesAssumption
    <3> QED BY <3>1, <3>3
  <2> QED BY <2>1, <2>2
<1> HIDE DEF l
<1>6. Grows(m, Nil, r, <<v>> \o l)
  BY <1>3, <1>4, <1>5, AllocGrows
<1> QED BY <1>6 DEF l
-----------------------------------------------------------------------------
(* Storing new headers over a new memory. *)

\* The memory m and the headers h may be stored: every header lies within its array,
\* no two share one, and m differs from mem, where the held slice can see it, only in
\* arrays that a list uses, behind the offset of that list.
Safe(m, h) ==
    /\ m \in Memory /\ h \in [Key -> Slice] /\ \A k \in Key : h[k] # Nil => Fits(m, h[k])
    /\ Apart(h)
    /\ held # Nil =>
          /\ Fits(m, held)
          /\ \A i \in 1..held.len :
                m[held.arr][held.off + i] # mem[held.arr][held.off + i] =>
                    \E k \in Key : Has(k) /\ hdr[k].arr = held.arr /\ held.off + i > hdr[k].off

\* The step that HeldOnlyOverwritten allows.
HeldStep ==
    held # Nil /\ held' = held =>
        \A i \in 1..held.len :
            Read(mem', held)[i] # Read(mem, held)[i] =>
                \E k \in Key : Has(k) /\ hdr[k].arr = held.arr /\ held.off + i > hdr[k].off

\* The invariant in terms of Fits.
LEMMA TypesAre ==
    TypeOK <=> /\ mem \in Memory /\ hdr \in [Key -> Slice] /\ held \in Slice
               /\ \A k \in Key : hdr[k] # Nil => Fits(mem, hdr[k])
               /\ held # Nil => Fits(mem, held)
<1>1. \A s \in Slice : s # Nil => s \in Header
  BY Headers
<1>2. \A s \in Header : InBounds(s) <=> Fits(mem, s)
  BY DEF InBounds, Fits, Within
<1>3. mem \in [Arr -> Seq(Val \cup {Unused})] <=> mem \in Memory
  BY DEF Memory, Cell
<1>4. ASSUME hdr \in [Key -> Slice]
      PROVE  \A k \in Key : hdr[k] \in Slice /\ (Has(k) <=> hdr[k] # Nil)
  BY <1>4 DEF Has
<1> QED BY <1>1, <1>2, <1>3, <1>4 DEF TypeOK, Slice

\* The same of the next state.
LEMMA TypesWillBe ==
    TypeOK' <=> /\ mem' \in Memory /\ hdr' \in [Key -> Slice] /\ held' \in Slice
                /\ \A k \in Key : hdr'[k] # Nil => Fits(mem', hdr'[k])
                /\ held' # Nil => Fits(mem', held')
<1>1. \A s \in Slice : s # Nil => s \in Header
  BY Headers
<1>2. \A s \in Header : InBounds(s)' <=> Fits(mem', s)
  BY DEF InBounds, Fits, Within
<1>3. mem' \in [Arr -> Seq(Val \cup {Unused})] <=> mem' \in Memory
  BY DEF Memory, Cell
<1>4. ASSUME hdr' \in [Key -> Slice]
      PROVE  \A k \in Key : hdr'[k] \in Slice /\ (Has(k)' <=> hdr'[k] # Nil)
  BY <1>4 DEF Has
<1>5. TypeOK' <=> /\ mem' \in [Arr -> Seq(Val \cup {Unused})] /\ hdr' \in [Key -> Slice]
                  /\ \A k \in Key : Has(k)' => (hdr'[k].len > 0 /\
                        hdr'[k].off + hdr'[k].len <= Len(mem'[hdr'[k].arr]))
                  /\ held' \in Slice
                  /\ (held' # Nil => (held'.len > 0 /\
                        held'.off + held'.len <= Len(mem'[held'.arr])))
  BY DEF TypeOK, InBounds, Slice
<1> QED BY <1>1, <1>3, <1>4, <1>5 DEF Fits, Within

\* The state as it is may be stored.
LEMMA NowSafe ==
    ASSUME SInv
    PROVE  Safe(mem, hdr)
BY TypesAre DEF SInv, Safe, Apart, Unshared, Has

\* What is stored reads the same after the collector has run.
LEMMA Collecting ==
    ASSUME NEW m \in Memory, NEW h \in [Key -> Slice], NEW hd \in Slice,
           \A k \in Key : h[k] # Nil => Fits(m, h[k]), hd # Nil => Fits(m, hd), Apart(h),
           mem' = Visible(m, h, hd), hdr' = h, held' = hd
    PROVE  /\ SInv'
           /\ Contents' = [k \in Key |-> Read(m, h[k])]
           /\ hd # Nil => Read(mem', hd) = Read(m, hd)
<1>1. mem' \in Memory
  BY VisibleKeeps
<1>2. \A a \in Arr : mem'[a] # <<>> => Refers(h, hd, a)
  BY VisibleKeeps
<1>3. \A s \in Header : (s = hd \/ \E k \in Key : h[k] = s) /\ Within(m, s) =>
         Within(mem', s)
  BY VisibleKeeps
<1>4. \A s \in Header : (s = hd \/ \E k \in Key : h[k] = s) /\ Within(m, s) =>
         \A i \in 1..s.len : mem'[s.arr][s.off + i] = m[s.arr][s.off + i]
  BY VisibleKeeps
<1>5. \A k \in Key : h[k] # Nil => Fits(mem', h[k])
  BY <1>3 DEF Fits
<1>6. hd # Nil => Fits(mem', hd)
  BY <1>3 DEF Fits
<1>7. ASSUME NEW s \in Header, s = hd \/ \E k \in Key : h[k] = s, Within(m, s)
      PROVE  Read(mem', s) = Read(m, s)
  BY <1>1, <1>3, <1>4, <1>7, SameRead
<1>8. hd # Nil => Read(mem', hd) = Read(m, hd)
  BY <1>7 DEF Fits
<1>9. \A k \in Key : Read(mem', h[k]) = Read(m, h[k])
  BY <1>7, ReadNil DEF Fits
<1>10. Contents' = [k \in Key |-> Read(m, h[k])]
  BY <1>9 DEF Contents, L
<1>11. TypeOK'
  BY <1>1, <1>5, <1>6, TypesWillBe
<1>12. Unshared'
  BY DEF Unshared, Has, Apart
<1>13. Collected'
  BY <1>2 DEF Collected
<1> QED BY <1>8, <1>10, <1>11, <1>12, <1>13 DEF SInv

\* A safe pair keeps the invariant, and the lists become what its headers read.
LEMMA StoreStep ==
    ASSUME SInv, NEW m, NEW h, Safe(m, h), Store(m, h)
    PROVE  SInv' /\ Contents' = [k \in Key |-> Read(m, h[k])] /\ HeldStep
<1>1. /\ mem \in Memory /\ held \in Slice /\ (held # Nil => Fits(mem, held))
  BY TypesAre DEF SInv
<1>2. m \in Memory /\ h \in [Key -> Slice] /\ Apart(h)
  BY DEF Safe
<1>3. \A k \in Key : h[k] # Nil => Fits(m, h[k])
  BY DEF Safe
<1>4. held # Nil => Fits(m, held)
  BY DEF Safe
<1>5. hdr' = h /\ mem' = Visible(m, h, held) /\ held' = held
  BY DEF Store
<1>6. /\ SInv' /\ Contents' = [k \in Key |-> Read(m, h[k])]
      /\ held # Nil => Read(mem', held) = Read(m, held)
  BY <1>1, <1>2, <1>3, <1>4, <1>5, Collecting
<1>7. ASSUME held # Nil, NEW i \in 1..held.len, Read(mem', held)[i] # Read(mem, held)[i]
      PROVE  \E k \in Key : Has(k) /\ hdr[k].arr = held.arr /\ held.off + i > hdr[k].off
  <2>1. held \in Header /\ Within(mem, held) /\ Within(m, held)
    BY <1>1, <1>4, <1>7 DEF Fits
  <2>2. Read(m, held)[i] = m[held.arr][held.off + i]
    BY <1>2, <2>1, ReadAt
  <2>3. Read(mem, held)[i] = mem[held.arr][held.off + i]
    BY <1>1, <2>1, ReadAt
  <2>4. m[held.arr][held.off + i] # mem[held.arr][held.off + i]
    BY <1>6, <1>7, <2>2, <2>3
  <2> QED BY <1>7, <2>4 DEF Safe
<1> QED BY <1>6, <1>7 DEF HeldStep
-----------------------------------------------------------------------------
(* Safe pairs. *)

\* A list grown by append or copied, stored under its key.
LEMMA PutSafe ==
    ASSUME SInv, NEW m, NEW h, Safe(m, h), NEW k \in Key, NEW s \in Slice, NEW r, NEW l,
           Grows(m, s, r, l),
           s # Nil => /\ h[k] # Nil /\ h[k].arr = s.arr
                      /\ Has(k) /\ hdr[k].arr = s.arr /\ hdr[k].off <= s.off
    PROVE  /\ Safe(r.mem, [h EXCEPT ![k] = r.s])
           /\ \A j \in Key : Read(r.mem, [h EXCEPT ![k] = r.s][j]) =
                                IF j = k THEN l ELSE Read(m, h[j])
<1> DEFINE g == [h EXCEPT ![k] = r.s]
           n == r.mem
           a == r.s.arr
<1>1. m \in Memory /\ h \in [Key -> Slice] /\ Apart(h)
  BY DEF Safe
<1>2. \A j \in Key : h[j] # Nil => Fits(m, h[j])
  BY DEF Safe
<1>3. n \in Memory /\ Fits(n, r.s) /\ Read(n, r.s) = l /\ \A x \in Arr : x # a => n[x] = m[x]
  BY DEF Grows
<1>4. \/ m[a] = <<>>
      \/ /\ s # Nil /\ a = s.arr /\ Len(n[s.arr]) = Len(m[s.arr])
         /\ \A i \in 1..Len(m[s.arr]) : i <= s.off => n[s.arr][i] = m[s.arr][i]
  BY DEF Grows
<1>5. r.s \in Header /\ a \in Arr /\ r.s # Nil
  BY <1>3, Headers DEF Fits
<1>6. g \in [Key -> Slice] /\ g[k] = r.s /\ \A j \in Key : j # k => g[j] = h[j]
  BY <1>1, <1>5 DEF Slice
<1> HIDE DEF g, n, a
<1>7. \A x \in Header : Fits(m, x) => m[x.arr] # <<>>
  <2> SUFFICES ASSUME NEW x \in Header, Fits(m, x) PROVE m[x.arr] # <<>>
    OBVIOUS
  <2>1. x.arr \in Arr /\ x.off \in Nat /\ x.len \in Nat /\ x.len > 0 /\ Within(m, x)
    BY Headers DEF Fits
  <2>2. Len(m[x.arr]) \in Nat /\ (m[x.arr] = <<>> <=> Len(m[x.arr]) = 0)
    BY <1>1, <2>1, MemoryAt
  <2> QED BY <2>1, <2>2 DEF Within
<1>8. ASSUME NEW j \in Key, j # k, h[j] # Nil
      PROVE  h[j] \in Header /\ h[j].arr \in Arr /\ h[j].arr # a /\ n[h[j].arr] = m[h[j].arr]
  <2>1. h[j] \in Header /\ h[j].arr \in Arr /\ m[h[j].arr] # <<>>
    BY <1>1, <1>2, <1>7, <1>8, Headers DEF Fits
  <2>2. s # Nil => h[j].arr # s.arr
    BY <1>1, <1>8 DEF Apart
  <2>3. h[j].arr # a
    BY <1>4, <2>1, <2>2
  <2> QED BY <1>3, <2>1, <2>3
<1>9. ASSUME NEW j \in Key, j # k, h[j] # Nil
      PROVE  Fits(n, h[j]) /\ Read(n, h[j]) = Read(m, h[j])
  <2>1. h[j] \in Header /\ n[h[j].arr] = m[h[j].arr] /\ Fits(m, h[j])
    BY <1>2, <1>8, <1>9
  <2> QED BY <2>1, Headers DEF Fits, Within, Read
<1>10. \A j \in Key : g[j] # Nil => Fits(n, g[j])
  BY <1>3, <1>6, <1>9
<1>11. Apart(g)
  <2>1. \A j \in Key : j # k /\ g[j] # Nil => g[j].arr # g[k].arr
    BY <1>6, <1>8 DEF a
  <2>2. \A i, j \in Key : i # k /\ j # k /\ i # j /\ g[i] # Nil /\ g[j] # Nil =>
           g[i].arr # g[j].arr
    BY <1>1, <1>6 DEF Apart
  <2> QED BY <2>1, <2>2 DEF Apart
<1>12. \A j \in Key : Read(n, g[j]) = IF j = k THEN l ELSE Read(m, h[j])
  <2> SUFFICES ASSUME NEW j \in Key, j # k PROVE Read(n, g[j]) = Read(m, h[j])
    BY <1>3, <1>6
  <2>1. CASE h[j] = Nil
    BY <1>6, <2>1, ReadNil
  <2>2. CASE h[j] # Nil
    BY <1>6, <1>9, <2>2
  <2> QED BY <2>1, <2>2
<1>13. ASSUME held # Nil
       PROVE  /\ Fits(n, held)
              /\ \A i \in 1..held.len :
                    n[held.arr][held.off + i] # mem[held.arr][held.off + i] =>
                        \E x \in Key : /\ Has(x) /\ hdr[x].arr = held.arr
                                       /\ held.off + i > hdr[x].off
  <2>1. Fits(m, held) /\ held \in Header
    BY <1>13 DEF Safe, Fits
  <2>2. /\ held.arr \in Arr /\ held.off \in Nat /\ held.len \in Nat /\ m[held.arr] # <<>>
        /\ Len(m[held.arr]) \in Nat
    BY <1>1, <1>7, <2>1, Headers, MemoryAt
  <2>3. Len(n[held.arr]) = Len(m[held.arr])
    BY <1>3, <1>4, <2>2
  <2>4. Fits(n, held)
    BY <2>1, <2>3 DEF Fits, Within
  <2>5. ASSUME NEW i \in 1..held.len,
               n[held.arr][held.off + i] # mem[held.arr][held.off + i]
        PROVE  \E x \in Key : /\ Has(x) /\ hdr[x].arr = held.arr
                              /\ held.off + i > hdr[x].off
    <3>1. CASE n[held.arr][held.off + i] = m[held.arr][held.off + i]
      BY <1>13, <2>5, <3>1 DEF Safe
    <3>2. CASE n[held.arr][held.off + i] # m[held.arr][held.off + i]
      <4> DEFINE x == held.off + i
      <4>1. x \in 1..Len(m[held.arr])
        BY <2>1, <2>2 DEF Fits, Within
      <4> HIDE DEF x
      <4>2. held.arr = a
        BY <1>3, <2>2, <3>2
      <4>3. s # Nil /\ a = s.arr /\ ~(x <= s.off)
        BY <1>4, <2>2, <3>2, <4>1, <4>2 DEF x
      <4>4. s.off \in Nat /\ hdr[k] \in Header /\ hdr[k].off \in Nat
        BY <4>3, Headers, TypesAre DEF SInv, Has
      <4>5. x > hdr[k].off
        BY <4>1, <4>3, <4>4
      <4> QED BY <4>2, <4>3, <4>5 DEF x
    <3> QED BY <3>1, <3>2
  <2> QED BY <2>4, <2>5
<1>14. Safe(n, g)
  BY <1>3, <1>6, <1>10, <1>11, <1>13 DEF Safe
<1> QED BY <1>12, <1>14 DEF n, g

\* A shorter header on the same array, or none: the pops, LTRIM and DEL.
LEMMA CutSafe ==
    ASSUME SInv, NEW k \in Key, Has(k), NEW s \in Slice,
           s # Nil => Fits(mem, s) /\ s.arr = hdr[k].arr
    PROVE  /\ Safe(mem, [hdr EXCEPT ![k] = s])
           /\ \A j \in Key : Read(mem, [hdr EXCEPT ![k] = s][j]) =
                                IF j = k THEN Read(mem, s) ELSE L(j)
<1> DEFINE g == [hdr EXCEPT ![k] = s]
<1>1. /\ mem \in Memory /\ hdr \in [Key -> Slice] /\ held \in Slice
      /\ \A j \in Key : hdr[j] # Nil => Fits(mem, hdr[j])
      /\ held # Nil => Fits(mem, held)
  BY TypesAre DEF SInv
<1>2. g \in [Key -> Slice] /\ g[k] = s /\ \A j \in Key : j # k => g[j] = hdr[j]
  BY <1>1
<1> HIDE DEF g
<1>3. Apart(g)
  BY <1>2 DEF SInv, Unshared, Apart, Has
<1>4. \A j \in Key : g[j] # Nil => Fits(mem, g[j])
  BY <1>1, <1>2
<1>5. Safe(mem, g)
  BY <1>1, <1>2, <1>3, <1>4 DEF Safe
<1>6. \A j \in Key : Read(mem, g[j]) = IF j = k THEN Read(mem, s) ELSE L(j)
  BY <1>2 DEF L
<1> QED BY <1>5, <1>6 DEF g

\* Re-slicing: l[from:to], deleted when it is empty.
LEMMA Resliced ==
    ASSUME SInv, NEW k \in Key, Has(k), NEW from \in Nat, NEW to \in Nat,
           from <= to, to <= hdr[k].len
    PROVE  /\ reslice(hdr[k], from, to) \in Slice
           /\ reslice(hdr[k], from, to) # Nil =>
                 /\ Fits(mem, reslice(hdr[k], from, to))
                 /\ reslice(hdr[k], from, to).arr = hdr[k].arr
           /\ Read(mem, reslice(hdr[k], from, to)) = SubSeq(L(k), from + 1, to)
<1> DEFINE s == reslice(hdr[k], from, to)
           o == hdr[k]
<1>1. /\ mem \in Memory /\ o \in Header /\ Fits(mem, o)
      /\ o.arr \in Arr /\ o.off \in Nat /\ o.len \in Nat /\ o # Nil
  BY TypesAre, Headers DEF SInv, Has
<1>2. /\ L(k) \in Seq(Cell) /\ Len(L(k)) = o.len
      /\ \A i \in 1..o.len : L(k)[i] = mem[o.arr][o.off + i]
  BY <1>1, ReadAt DEF L, Fits
<1>3. CASE from = to
  <2>1. s = Nil
    BY <1>3 DEF reslice
  <2>2. SubSeq(L(k), from + 1, to) = <<>>
    <3>1. from + 1 \in Int /\ to \in Int /\ to < from + 1
      BY <1>3
    <3> QED BY <3>1, SubSeqEmpty
  <2> QED BY <2>1, <2>2, ReadNil DEF Slice
<1>4. CASE from # to
  <2>1. s = [o EXCEPT !.off = o.off + from, !.len = to - from]
    BY <1>4 DEF reslice
  <2>2. to - from \in Nat /\ to - from > 0 /\ o.off + from \in Nat
    BY <1>1, <1>4
  <2>3. s \in Header /\ s.arr = o.arr /\ s.off = o.off + from /\ s.len = to - from
    <3> HIDE DEF s
    <3> QED BY <1>1, <2>1, <2>2 DEF Header
  <2>4. Len(mem[o.arr]) \in Nat /\ o.off + o.len <= Len(mem[o.arr])
    BY <1>1, MemoryAt DEF Fits, Within
  <2> HIDE DEF s
  <2>5. Fits(mem, s)
    <3>1. (o.off + from) + (to - from) <= Len(mem[o.arr])
      BY <1>1, <2>4
    <3> HIDE DEF o
    <3> QED BY <2>2, <2>3, <3>1 DEF Fits, Within
  <2>6. /\ Read(mem, s) \in Seq(Cell) /\ Len(Read(mem, s)) = to - from
        /\ \A i \in 1..(to - from) : Read(mem, s)[i] = mem[o.arr][o.off + from + i]
    BY <1>1, <2>3, <2>5, ReadAt DEF Fits
  <2> DEFINE sub == SubSeq(L(k), from + 1, to)
  <2>7. \A i \in (from + 1)..to : L(k)[i] \in Cell
    BY <1>1, <1>2, ElementOfSeq
  <2>8. /\ sub \in Seq(Cell) /\ Len(sub) = to - from
        /\ \A i \in 1..(to - (from + 1) + 1) : sub[i] = L(k)[(from + 1) + i - 1]
    <3>1. from + 1 \in Int /\ to \in Int /\ from + 1 <= to /\ to - (from + 1) + 1 = to - from
      BY <2>2
    <3> QED BY <2>7, <3>1, SubSeqProperties
  <2> HIDE DEF sub
  <2>9. ASSUME NEW i \in 1..(to - from) PROVE Read(mem, s)[i] = sub[i]
    <3>1. sub[i] = L(k)[from + i]
      <4>1. i \in 1..(to - (from + 1) + 1) /\ (from + 1) + i - 1 = from + i
        BY <2>2
      <4>2. sub[i] = L(k)[(from + 1) + i - 1]
        BY <2>8, <4>1
      <4> QED BY <4>1, <4>2
    <3> DEFINE x == from + i
    <3>2. x \in 1..o.len /\ o.off + x = o.off + from + i
      BY <1>1, <2>2
    <3>3. sub[i] = L(k)[x]
      BY <3>1
    <3> HIDE DEF x
    <3>4. L(k)[x] = mem[o.arr][o.off + x]
      BY <1>2, <3>2
    <3>5. Read(mem, s)[i] = mem[o.arr][o.off + from + i]
      BY <2>6
    <3> QED BY <3>2, <3>3, <3>4, <3>5
  <2>10. Read(mem, s) = sub
    BY <2>6, <2>8, <2>9, SeqEqual
  <2> QED BY <2>3, <2>5, <2>10 DEF s, sub, Slice
<1> QED BY <1>3, <1>4

\* A write within a list, in place: LSET, and the reversal of a negative LREM.
LEMMA WriteSafe ==
    ASSUME SInv, NEW k \in Key, Has(k), NEW n \in Nat, NEW vs \in Seq(Cell),
           n + Len(vs) <= hdr[k].len, NEW w, w = Write(mem, hdr[k], n, vs)
    PROVE  /\ Safe(w, hdr) /\ Free(w)
           /\ \A j \in Key : j # k => Read(w, hdr[j]) = L(j)
           /\ Read(w, hdr[k]) \in Seq(Cell) /\ Len(Read(w, hdr[k])) = hdr[k].len
           /\ \A i \in 1..hdr[k].len : i <= n \/ i > n + Len(vs) => Read(w, hdr[k])[i] = L(k)[i]
           /\ \A j \in 1..Len(vs) : Read(w, hdr[k])[n + j] = vs[j]
<1> DEFINE s == hdr[k]
<1>1. /\ mem \in Memory /\ hdr \in [Key -> Slice] /\ held \in Slice
      /\ \A j \in Key : hdr[j] # Nil => Fits(mem, hdr[j])
      /\ held # Nil => Fits(mem, held)
  BY TypesAre DEF SInv
<1>2. /\ s \in Header /\ s # Nil /\ Fits(mem, s) /\ s.arr \in Arr /\ s.off \in Nat
      /\ s.len \in Nat /\ Len(vs) \in Nat /\ Len(mem[s.arr]) \in Nat
      /\ s.off + s.len <= Len(mem[s.arr])
  BY <1>1, Headers, MemoryAt, LenProperties DEF Has, Fits, Within
<1>3. w = Write(mem, s, n, vs) /\ mem \in Memory /\ s \in Header /\ n + Len(vs) <= s.len
  BY <1>1, <1>2
<1> HIDE DEF s
<1>4. w \in Memory
  BY <1>3, WriteAt
<1>5. \A a \in Arr : Len(w[a]) = Len(mem[a]) /\ (a # s.arr => w[a] = mem[a])
  BY <1>3, WriteAt
<1>6. \A i \in 1..Len(mem[s.arr]) :
         i <= s.off + n \/ i > s.off + n + Len(vs) => w[s.arr][i] = mem[s.arr][i]
  BY <1>3, WriteAt
<1>7. \A j \in 1..Len(vs) : s.off + n + j <= Len(mem[s.arr]) => w[s.arr][s.off + n + j] = vs[j]
  BY <1>3, WriteAt
<1>8. \A j \in Key : hdr[j] # Nil => hdr[j] \in Header /\ hdr[j].arr \in Arr
  BY <1>1, Headers DEF Fits
<1>9. \A j \in Key : hdr[j] # Nil => Fits(w, hdr[j])
  BY <1>1, <1>5, <1>8 DEF Fits, Within
<1>10. \A j \in Key : j # k => Read(w, hdr[j]) = L(j)
  <2> SUFFICES ASSUME NEW j \in Key, j # k, hdr[j] # Nil PROVE Read(w, hdr[j]) = L(j)
    BY ReadNil DEF L
  <2>1. hdr[j].arr # s.arr
    BY <1>2 DEF SInv, Unshared, Has, s
  <2> QED BY <1>5, <1>8, <2>1 DEF L, Read
<1>11. Free(w)
  <2>1. PICK a \in Arr : mem[a] = <<>>
    BY FreeArray DEF Free
  <2>2. Len(w[a]) = 0
    BY <1>1, <1>5, <2>1, MemoryAt
  <2> QED BY <1>4, <2>2, MemoryAt DEF Free
<1>12. ASSUME held # Nil
       PROVE  /\ Fits(w, held)
              /\ \A i \in 1..held.len :
                    w[held.arr][held.off + i] # mem[held.arr][held.off + i] =>
                        \E x \in Key : /\ Has(x) /\ hdr[x].arr = held.arr
                                       /\ held.off + i > hdr[x].off
  <2>1. held \in Header /\ Fits(mem, held)
    BY <1>1, <1>12 DEF Fits
  <2>2. /\ held.arr \in Arr /\ held.off \in Nat /\ held.len \in Nat
        /\ Len(mem[held.arr]) \in Nat
    BY <1>1, <2>1, Headers, MemoryAt
  <2>3. Fits(w, held)
    BY <1>5, <2>1, <2>2 DEF Fits, Within
  <2>4. ASSUME NEW i \in 1..held.len,
               w[held.arr][held.off + i] # mem[held.arr][held.off + i]
        PROVE  \E x \in Key : /\ Has(x) /\ hdr[x].arr = held.arr
                              /\ held.off + i > hdr[x].off
    <3> DEFINE x == held.off + i
    <3>1. x \in 1..Len(mem[held.arr])
      BY <2>1, <2>2 DEF Fits, Within
    <3>2. w[held.arr][x] # mem[held.arr][x]
      BY <2>4
    <3> HIDE DEF x
    <3>3. held.arr = s.arr
      BY <1>5, <2>2, <3>2
    <3>4. ~(x <= s.off + n)
      BY <1>6, <3>1, <3>2, <3>3
    <3>5. x > s.off
      BY <1>2, <3>1, <3>4
    <3> QED BY <3>3, <3>5 DEF x, s
  <2> QED BY <2>3, <2>4
<1>13. Apart(hdr)
  BY DEF SInv, Unshared, Apart, Has
<1>14. Safe(w, hdr)
  BY <1>1, <1>4, <1>9, <1>12, <1>13 DEF Safe
<1>15. /\ Read(w, s) \in Seq(Cell) /\ Len(Read(w, s)) = s.len
       /\ \A i \in 1..s.len : Read(w, s)[i] = w[s.arr][s.off + i]
  <2>1. Fits(w, s)
    BY <1>2, <1>9 DEF s
  <2> QED BY <1>2, <1>4, <2>1, ReadAt DEF Fits
<1>16. \A i \in 1..s.len : L(k)[i] = mem[s.arr][s.off + i]
  BY <1>1, <1>2, ReadAt DEF Fits, L, s
<1>17. ASSUME NEW i \in 1..s.len, i <= n \/ i > n + Len(vs) PROVE Read(w, s)[i] = L(k)[i]
  <2> DEFINE x == s.off + i
  <2>1. /\ x \in 1..Len(mem[s.arr]) /\ (x <= s.off + n \/ x > s.off + n + Len(vs))
    BY <1>2, <1>17
  <2> HIDE DEF x
  <2>2. w[s.arr][x] = mem[s.arr][x]
    BY <1>6, <2>1
  <2> QED BY <1>15, <1>16, <2>2 DEF x
<1>18. ASSUME NEW j \in 1..Len(vs) PROVE Read(w, s)[n + j] = vs[j]
  <2>1. s.off + n + j <= Len(mem[s.arr])
    BY <1>2, <1>3
  <2>2. w[s.arr][s.off + n + j] = vs[j]
    BY <1>7, <2>1
  <2> DEFINE x == n + j
  <2>3. x \in 1..s.len /\ s.off + x = s.off + n + j
    BY <1>2, <1>3
  <2> HIDE DEF x
  <2>4. Read(w, s)[x] = w[s.arr][s.off + x]
    BY <1>15, <2>3
  <2>5. Read(w, s)[x] = vs[j]
    BY <2>2, <2>3, <2>4
  <2> QED BY <2>5 DEF x
<1> QED BY <1>10, <1>11, <1>14, <1>15, <1>17, <1>18 DEF s

\* RENAME and MOVE hand a header to another key.
LEMMA RenameSafe ==
    ASSUME SInv, NEW from \in Key, NEW to \in Key, Has(from), from # to
    PROVE  /\ Safe(mem, renamed(hdr, from, to))
           /\ \A j \in Key : Read(mem, renamed(hdr, from, to)[j]) =
                                IF j = from THEN <<>> ELSE IF j = to THEN L(from) ELSE L(j)
<1> DEFINE g == renamed(hdr, from, to)
<1>1. /\ mem \in Memory /\ hdr \in [Key -> Slice] /\ held \in Slice
      /\ \A j \in Key : hdr[j] # Nil => Fits(mem, hdr[j])
      /\ held # Nil => Fits(mem, held)
  BY TypesAre DEF SInv
<1>2. Nil \in Slice
  BY DEF Slice
<1>3. /\ g \in [Key -> Slice] /\ g[from] = Nil /\ g[to] = hdr[from]
      /\ \A j \in Key : j # from /\ j # to => g[j] = hdr[j]
  BY <1>1, <1>2 DEF renamed
<1> HIDE DEF g
<1>4. Apart(g)
  BY <1>3 DEF SInv, Unshared, Apart, Has
<1>5. \A j \in Key : g[j] # Nil => Fits(mem, g[j])
  BY <1>1, <1>3
<1>6. Safe(mem, g)
  BY <1>1, <1>3, <1>4, <1>5 DEF Safe
<1>7. \A j \in Key : Read(mem, g[j]) =
         IF j = from THEN <<>> ELSE IF j = to THEN L(from) ELSE L(j)
  BY <1>3, ReadNil DEF L
<1> QED BY <1>6, <1>7 DEF g
-----------------------------------------------------------------------------
(* The steps. *)

\* The abstract lists and the slices use the same algorithms.
LEMMA SameOps ==
    /\ \A l : Values!Front(l) = Front(l) /\ Values!Last(l) = Last(l)
    /\ \A l, n, v : Values!lrem(l, n, v) = lrem(l, n, v)
    /\ \A l, b : Values!slice(l, b) = slice(l, b)
    /\ \A n \in Nat, s, e \in Int64 : Values!redisRange(n, s, e) = redisRange(n, s, e)
    /\ \A l, p : Values!pivotAt(l, p) = pivotAt(l, p)
    /\ \A l, w, p, v : Values!linsert(l, w, p, v) = linsert(l, w, p, v)
<1>1. \A l : Values!Front(l) = Front(l) /\ Values!Last(l) = Last(l)
  BY Zenon DEF Values!Front, Values!Last, Front, Last
<1>2. \A n \in Nat, s, e \in Int64 : Values!redisRange(n, s, e) = redisRange(n, s, e)
  BY MaxIntAssumption
     DEF Values!redisRange, redisRange, Values!increment, increment, Values!MinInt, MinInt, Int64
<1>3. \A l, b : Values!slice(l, b) = slice(l, b)
  BY Zenon DEF Values!slice, slice
<1>4. \A l, p : Values!pivotAt(l, p) = pivotAt(l, p)
  BY Zenon DEF Values!pivotAt, pivotAt, Values!SelectInSeq, SelectInSeq, Values!Min, Min
<1>5. \A l, w, p, v : Values!linsert(l, w, p, v) = linsert(l, w, p, v)
  BY <1>4, Zenon DEF Values!linsert, linsert, Values!InsertAt, InsertAt
<1>6. \A l, v, n : Values!dropFirst(l, v, n) = dropFirst(l, v, n)
  BY Zenon DEF Values!dropFirst, dropFirst, Values!lremLoop, lremLoop
<1>7. \A l : Values!Reverse(l) = Reverse(l)
  BY Zenon DEF Values!Reverse, Reverse
<1>8. \A l, n : Values!toDelete(l, n) = toDelete(l, n)
  BY Zenon DEF Values!toDelete, toDelete, Values!negate, negate, Values!MinInt, MinInt
<1>9. \A l, n, v : Values!lrem(l, n, v) = lrem(l, n, v)
  BY <1>6, <1>7, <1>8, Zenon DEF Values!lrem, lrem
<1> QED BY <1>1, <1>2, <1>3, <1>4, <1>5, <1>9

\* A step of the slices is a step of the lists or leaves them alone.
Refines == SInv' /\ HeldStep /\ (Values!Next \/ Contents' = Contents)

\* The lists are values of the right type.
LEMMA ContentsAt ==
    ASSUME SInv, NEW k \in Key
    PROVE  /\ Contents[k] = L(k) /\ L(k) \in Seq(Cell) /\ Len(L(k)) \in Nat
           /\ Has(k) => /\ hdr[k] \in Header /\ hdr[k].len \in Nat /\ hdr[k].len > 0
                        /\ Len(L(k)) = hdr[k].len /\ L(k) # <<>>
           /\ ~Has(k) => L(k) = <<>>
<1>1. mem \in Memory /\ hdr[k] \in Slice /\ (hdr[k] # Nil => Fits(mem, hdr[k]))
  BY TypesAre DEF SInv
<1>2. /\ L(k) \in Seq(Cell) /\ Len(L(k)) \in Nat
      /\ Has(k) => Len(L(k)) = hdr[k].len /\ L(k) # <<>>
  BY <1>1, ReadType DEF L, Has
<1>3. Has(k) => hdr[k] \in Header /\ hdr[k].len \in Nat /\ hdr[k].len > 0
  BY <1>1, Headers DEF Has, Fits
<1>4. ~Has(k) => L(k) = <<>>
  BY ReadNil DEF L, Has
<1> QED BY <1>2, <1>3, <1>4 DEF Contents

\* One list becomes l.
LEMMA OneBecomes ==
    ASSUME SInv, NEW m, NEW h, Safe(m, h), Store(m, h), NEW k \in Key, NEW l,
           \A j \in Key : Read(m, h[j]) = IF j = k THEN l ELSE L(j)
    PROVE  SInv' /\ HeldStep /\ Contents' = [Contents EXCEPT ![k] = l]
<1>1. SInv' /\ Contents' = [j \in Key |-> Read(m, h[j])] /\ HeldStep
  BY StoreStep
<1>2. [j \in Key |-> Read(m, h[j])] = [Contents EXCEPT ![k] = l]
  BY DEF Contents
<1> QED BY <1>1, <1>2

\* A list grown or copied and stored.
LEMMA PutBecomes ==
    ASSUME SInv, NEW k \in Key, NEW s \in Slice, s # Nil => Has(k), NEW r, NEW l,
           s # Nil => s.arr = hdr[k].arr /\ hdr[k].off <= s.off,
           NEW m, Safe(m, hdr), \A j \in Key : j # k => Read(m, hdr[j]) = L(j),
           Grows(m, s, r, l), Put(k, r)
    PROVE  SInv' /\ HeldStep /\ Contents' = [Contents EXCEPT ![k] = l]
<1>1. s # Nil => /\ hdr[k] # Nil /\ hdr[k].arr = s.arr
                 /\ Has(k) /\ hdr[k].arr = s.arr /\ hdr[k].off <= s.off
  BY DEF Has
<1>2. /\ Safe(r.mem, [hdr EXCEPT ![k] = r.s])
      /\ \A j \in Key : Read(r.mem, [hdr EXCEPT ![k] = r.s][j]) =
                           IF j = k THEN l ELSE Read(m, hdr[j])
  BY <1>1, PutSafe
<1>3. Store(r.mem, [hdr EXCEPT ![k] = r.s])
  BY DEF Put
<1> DEFINE g == [hdr EXCEPT ![k] = r.s]
<1>4. /\ Safe(r.mem, g) /\ Store(r.mem, g)
      /\ \A j \in Key : Read(r.mem, g[j]) = IF j = k THEN l ELSE L(j)
  BY <1>2, <1>3
<1> HIDE DEF g
<1> QED BY <1>4, OneBecomes

\* RPUSH, RPUSHX and Push.
LEMMA PushRefines ==
    ASSUME SInv, NEW k \in Key, NEW v \in Val, NEW vs, vs = <<v>> \/ vs = <<v, v>>,
           listPush(k, vs)
    PROVE  Refines
<1>1. vs \in Seq(Cell) /\ vs # <<>>
  <2>1. v \in Cell
    BY DEF Cell
  <2>2. <<v>> \in Seq(Cell) /\ <<v>> # <<>>
    BY <2>1
  <2>3. <<v, v>> \in Seq(Cell) /\ <<v, v>> # <<>>
    BY <2>1
  <2> QED BY <2>2, <2>3
<1>2. mem \in Memory /\ hdr[k] \in Slice /\ (hdr[k] # Nil => Fits(mem, hdr[k]))
  BY TypesAre DEF SInv
<1>3. PICK r \in append(mem, hdr[k], vs) : Put(k, r)
  BY DEF listPush
<1>4. Free(mem) /\ (hdr[k] # Nil => Within(mem, hdr[k]))
  BY <1>2, FreeArray DEF Fits
<1>5. Grows(mem, hdr[k], r, L(k) \o vs)
  BY <1>1, <1>2, <1>3, <1>4, AppendGrows DEF L
<1>6. hdr[k] # Nil => hdr[k].arr = hdr[k].arr /\ hdr[k].off <= hdr[k].off
  <2>1. ASSUME NEW s \in Header PROVE s.off <= s.off
    <3>1. s.off \in Nat
      BY Headers
    <3>2. \A x \in Nat : x <= x
      OBVIOUS
    <3> QED BY <3>1, <3>2
  <2> QED BY <1>2, <2>1 DEF Fits
<1>7. hdr[k] # Nil => Has(k)
  BY DEF Has
<1>8. Safe(mem, hdr) /\ \A j \in Key : j # k => Read(mem, hdr[j]) = L(j)
  BY NowSafe DEF L
<1>9. SInv' /\ HeldStep /\ Contents' = [Contents EXCEPT ![k] = L(k) \o vs]
  BY <1>2, <1>3, <1>5, <1>6, <1>7, <1>8, PutBecomes
<1>10. Contents' = [Contents EXCEPT ![k] = Contents[k] \o vs]
  BY <1>9, ContentsAt
<1>11. Values!Push(k, vs)
  BY <1>10 DEF Values!Push, Values!Becomes, Contents
<1>12. Values!Next
  BY <1>11 DEF Values!Next
<1> QED BY <1>9, <1>12 DEF Refines

\* LPUSH, LPUSHX and Lpush.
LEMMA LpushRefines ==
    ASSUME SInv, NEW k \in Key, NEW v \in Val, listLpush(k, v)
    PROVE  Refines
<1>1. mem \in Memory /\ hdr[k] \in Slice /\ (hdr[k] # Nil => Fits(mem, hdr[k]))
  BY TypesAre DEF SInv
<1>2. PICK r \in lpushed(mem, hdr[k], v) : Put(k, r)
  BY DEF listLpush
<1>3. Free(mem) /\ (hdr[k] # Nil => Within(mem, hdr[k])) /\ v \in Cell /\ Nil \in Slice
  BY <1>1, FreeArray DEF Fits, Cell, Slice
<1>4. Grows(mem, Nil, r, <<v>> \o L(k))
  BY <1>1, <1>2, <1>3, LpushGrows DEF L
<1>5. Safe(mem, hdr) /\ \A j \in Key : j # k => Read(mem, hdr[j]) = L(j)
  BY NowSafe DEF L
<1>6. SInv' /\ HeldStep /\ Contents' = [Contents EXCEPT ![k] = <<v>> \o L(k)]
  BY <1>2, <1>3, <1>4, <1>5, PutBecomes
<1>7. Contents' = [Contents EXCEPT ![k] = <<v>> \o Contents[k]]
  BY <1>6, ContentsAt
<1>8. Values!Lpush(k, v)
  BY <1>7 DEF Values!Lpush, Values!Becomes, Contents
<1>9. Values!Next
  BY <1>8 DEF Values!Next
<1> QED BY <1>6, <1>9 DEF Refines

\* A re-slicing stored.
LEMMA CutBecomes ==
    ASSUME SInv, NEW k \in Key, Has(k), NEW from \in Nat, NEW to \in Nat,
           from <= to, to <= hdr[k].len, Cut(k, from, to)
    PROVE  SInv' /\ HeldStep /\ Contents' = [Contents EXCEPT ![k] = SubSeq(L(k), from + 1, to)]
<1> DEFINE s == reslice(hdr[k], from, to)
<1>1. /\ s \in Slice /\ (s # Nil => Fits(mem, s) /\ s.arr = hdr[k].arr)
      /\ Read(mem, s) = SubSeq(L(k), from + 1, to)
  BY Resliced
<1>2. Store(mem, [hdr EXCEPT ![k] = s])
  BY DEF Cut
<1> HIDE DEF s
<1>3. /\ Safe(mem, [hdr EXCEPT ![k] = s])
      /\ \A j \in Key : Read(mem, [hdr EXCEPT ![k] = s][j]) =
                           IF j = k THEN Read(mem, s) ELSE L(j)
  BY <1>1, CutSafe
<1>4. SInv' /\ HeldStep /\ Contents' = [Contents EXCEPT ![k] = Read(mem, s)]
  <2> DEFINE g == [hdr EXCEPT ![k] = s]
  <2>1. /\ Safe(mem, g) /\ Store(mem, g)
        /\ \A j \in Key : Read(mem, g[j]) = IF j = k THEN Read(mem, s) ELSE L(j)
    BY <1>2, <1>3
  <2> HIDE DEF g
  <2> QED BY <2>1, OneBecomes
<1> QED BY <1>1, <1>4

\* LPOP and RPOP.
LEMMA PopsRefine ==
    ASSUME SInv, NEW k \in Key, listLpop(k) \/ listPop(k)
    PROVE  Refines
<1>1. Has(k)
  BY DEF listLpop, listPop
<1>2. /\ L(k) \in Seq(Cell) /\ L(k) # <<>> /\ hdr[k].len \in Nat /\ hdr[k].len > 0
      /\ Len(L(k)) = hdr[k].len /\ Contents[k] = L(k)
  BY <1>1, ContentsAt
<1> DEFINE n == hdr[k].len
<1>3. CASE listLpop(k)
  <2>1. Cut(k, 1, n)
    BY <1>3 DEF listLpop
  <2>2. 1 \in Nat /\ n \in Nat /\ 1 <= n /\ n <= n
    BY <1>2
  <2>3. SInv' /\ HeldStep /\ Contents' = [Contents EXCEPT ![k] = SubSeq(L(k), 1 + 1, n)]
    BY <1>1, <2>1, <2>2, CutBecomes
  <2>4. SubSeq(L(k), 1 + 1, n) = Tail(L(k))
    BY <1>2, TailIsSubSeq
  <2>5. Contents' = [Contents EXCEPT ![k] = Tail(Contents[k])] /\ Contents[k] # <<>>
    BY <1>2, <2>3, <2>4
  <2>6. Values!Lpop(k)
    BY <2>5 DEF Values!Lpop, Values!Becomes, Contents
  <2>7. Values!Next
    BY <2>6 DEF Values!Next
  <2> QED BY <2>3, <2>7 DEF Refines
<1>4. CASE listPop(k)
  <2>1. Cut(k, 0, n - 1)
    BY <1>4 DEF listPop
  <2>2. 0 \in Nat /\ n - 1 \in Nat /\ 0 <= n - 1 /\ n - 1 <= n
    BY <1>2
  <2>3. SInv' /\ HeldStep /\ Contents' = [Contents EXCEPT ![k] = SubSeq(L(k), 0 + 1, n - 1)]
    <3> DEFINE z == 0
               to == n - 1
    <3>1. Cut(k, z, to) /\ z \in Nat /\ to \in Nat /\ z <= to /\ to <= hdr[k].len
      BY <2>1, <2>2
    <3> HIDE DEF z, to
    <3>2. SInv' /\ HeldStep /\ Contents' = [Contents EXCEPT ![k] = SubSeq(L(k), z + 1, to)]
      BY <1>1, <3>1, CutBecomes
    <3> QED BY <3>2 DEF z, to
  <2>4. SubSeq(L(k), 0 + 1, n - 1) = Front(L(k))
    BY <1>2 DEF Front
  <2>5. Contents' = [Contents EXCEPT ![k] = Values!Front(Contents[k])] /\ Contents[k] # <<>>
    BY <1>2, <2>3, <2>4, SameOps
  <2>6. Values!Pop(k)
    BY <2>5 DEF Values!Pop, Values!Becomes, Contents
  <2>7. Values!Next
    BY <2>6 DEF Values!Next
  <2> QED BY <2>3, <2>7 DEF Refines
<1> QED BY <1>3, <1>4

\* LTRIM.
LEMMA LtrimRefines ==
    ASSUME SInv, NEW k \in Key, NEW s \in Index, NEW e \in Index, cmdLtrim(k, s, e)
    PROVE  Refines
<1> DEFINE b == redisRange(hdr[k].len, s, e)
<1>1. Has(k) /\ Cut(k, b[1], b[2])
  BY DEF cmdLtrim
<1>2. hdr[k].len \in Nat /\ Len(L(k)) = hdr[k].len /\ Contents[k] = L(k)
  BY <1>1, ContentsAt
<1>3. s \in Int64 /\ e \in Int64
  BY SlicesAssumption
<1>4. b[1] \in Nat /\ b[2] \in Nat /\ b[1] <= b[2] /\ b[2] <= hdr[k].len
  BY <1>2, <1>3, RangeBounds
<1>5. b = Values!redisRange(Len(Contents[k]), s, e)
  BY <1>2, <1>3, SameOps
<1> HIDE DEF b
<1>6. SInv' /\ HeldStep /\ Contents' = [Contents EXCEPT ![k] = SubSeq(L(k), b[1] + 1, b[2])]
  BY <1>1, <1>4, CutBecomes
<1>7. SubSeq(L(k), b[1] + 1, b[2]) = Values!slice(Contents[k], b)
  BY <1>2, SameOps DEF slice
<1>8. Contents' = [Contents EXCEPT ![k] =
                      Values!slice(Contents[k], Values!redisRange(Len(Contents[k]), s, e))]
  BY <1>5, <1>6, <1>7
<1>9. Values!Ltrim(k, s, e)
  BY <1>8 DEF Values!Ltrim, Values!Becomes, Contents
<1>10. Values!Next
  BY <1>9 DEF Values!Next
<1> QED BY <1>6, <1>10 DEF Refines

\* DEL.
LEMMA DelRefines ==
    ASSUME SInv, NEW k \in Key, del(k)
    PROVE  Refines
<1> DEFINE g == [hdr EXCEPT ![k] = Nil]
<1>1. Has(k) /\ Store(mem, g) /\ Nil \in Slice
  BY DEF del, Slice
<1>2. Safe(mem, g) /\ \A j \in Key : Read(mem, g[j]) = IF j = k THEN Read(mem, Nil) ELSE L(j)
  BY <1>1, CutSafe
<1> HIDE DEF g
<1>3. SInv' /\ HeldStep /\ Contents' = [Contents EXCEPT ![k] = Read(mem, Nil)]
  BY <1>1, <1>2, OneBecomes
<1>4. Contents' = [Contents EXCEPT ![k] = <<>>]
  BY <1>3, ReadNil
<1>5. Values!Del(k)
  BY <1>4 DEF Values!Del, Values!Becomes, Contents
<1>6. Values!Next
  BY <1>5 DEF Values!Next
<1> QED BY <1>3, <1>6 DEF Refines

\* LSET.
LEMMA LsetRefines ==
    ASSUME SInv, NEW k \in Key, NEW n \in Index, NEW v \in Val, cmdLset(k, n, v)
    PROVE  Refines
<1> DEFINE p == position(L(k), n)
           w == Write(mem, hdr[k], p, <<v>>)
           l == Read(w, hdr[k])
           i == p + 1
<1>1. Has(k) /\ ~outOfRange(L(k), p) /\ Store(w, hdr)
  BY DEF cmdLset
<1>2. /\ L(k) \in Seq(Cell) /\ hdr[k].len \in Nat /\ Len(L(k)) = hdr[k].len
      /\ Contents[k] = L(k)
  BY <1>1, ContentsAt
<1>3. p \in Nat /\ p < hdr[k].len
  BY <1>1, <1>2, SlicesAssumption, MaxIntAssumption DEF position, outOfRange, Int64, MinInt
<1> HIDE DEF p
<1>4. v \in Cell /\ <<v>> \in Seq(Cell) /\ Len(<<v>>) = 1 /\ <<v>>[1] = v
  BY DEF Cell
<1>5. p + Len(<<v>>) <= hdr[k].len
  BY <1>2, <1>3, <1>4
<1> DEFINE vs == <<v>>
<1>6. vs \in Seq(Cell) /\ p + Len(vs) <= hdr[k].len /\ w = Write(mem, hdr[k], p, vs)
  BY <1>4, <1>5
<1> HIDE DEF vs, w
<1>7. Safe(w, hdr) /\ \A j \in Key : j # k => Read(w, hdr[j]) = L(j)
  BY <1>1, <1>3, <1>6, WriteSafe
<1>8. l \in Seq(Cell) /\ Len(l) = hdr[k].len
  BY <1>1, <1>3, <1>6, WriteSafe
<1>9. \A j \in 1..hdr[k].len : j <= p \/ j > p + Len(vs) => l[j] = L(k)[j]
  BY <1>1, <1>3, <1>6, WriteSafe
<1>10. \A j \in 1..Len(vs) : l[p + j] = vs[j]
  BY <1>1, <1>3, <1>6, WriteSafe
<1>11. Len(vs) = 1 /\ vs[1] = v
  BY <1>4 DEF vs
<1> HIDE DEF l
<1>12. i \in 1..hdr[k].len /\ l[i] = v
  BY <1>2, <1>3, <1>10, <1>11
<1>13. \A j \in 1..hdr[k].len : j # i => l[j] = L(k)[j]
  BY <1>2, <1>3, <1>9, <1>11
<1> HIDE DEF i
<1> DEFINE u == [L(k) EXCEPT ![i] = v]
<1>14. /\ u \in Seq(Cell) /\ Len(u) = Len(L(k))
       /\ \A j \in 1..Len(L(k)) : u[j] = IF j = i THEN v ELSE L(k)[j]
  BY <1>2, <1>4, <1>12, ExceptSeq
<1> HIDE DEF u
<1>15. l = u
  BY <1>2, <1>8, <1>12, <1>13, <1>14, SeqEqual
<1>16. \A j \in Key : Read(w, hdr[j]) = IF j = k THEN l ELSE L(j)
  BY <1>7 DEF l
<1>17. SInv' /\ HeldStep /\ Contents' = [Contents EXCEPT ![k] = l]
  BY <1>1, <1>7, <1>16, OneBecomes
<1>18. Contents' = [Contents EXCEPT ![k] = [Contents[k] EXCEPT ![i] = v]]
  BY <1>2, <1>15, <1>17 DEF u
<1>19. i \in DOMAIN Contents[k]
  BY <1>2, <1>12, LenProperties
<1>20. Values!Lset(k, i, v)
  BY <1>18, <1>19 DEF Values!Lset, Contents
<1>21. i \in DOMAIN [x \in Key |-> L(x)][k]
  BY <1>19 DEF Contents
<1>22. Values!Next
  BY <1>20, <1>21 DEF Values!Next
<1> QED BY <1>17, <1>22 DEF Refines

\* A key loses its list.
LEMMA DropSafe ==
    ASSUME NEW m, NEW h, Safe(m, h), NEW k \in Key
    PROVE  /\ Safe(m, [h EXCEPT ![k] = Nil])
           /\ \A j \in Key : Read(m, [h EXCEPT ![k] = Nil][j]) =
                                IF j = k THEN <<>> ELSE Read(m, h[j])
<1> DEFINE g == [h EXCEPT ![k] = Nil]
<1>1. m \in Memory /\ h \in [Key -> Slice] /\ Apart(h) /\ Nil \in Slice
  BY DEF Safe, Slice
<1>2. \A j \in Key : h[j] # Nil => Fits(m, h[j])
  BY DEF Safe
<1>3. g \in [Key -> Slice] /\ g[k] = Nil /\ \A j \in Key : j # k => g[j] = h[j]
  BY <1>1
<1> HIDE DEF g
<1>4. Apart(g)
  BY <1>1, <1>3 DEF Apart
<1>5. \A j \in Key : g[j] # Nil => Fits(m, g[j])
  BY <1>2, <1>3
<1>6. Safe(m, g)
  BY <1>1, <1>3, <1>4, <1>5 DEF Safe
<1>7. \A j \in Key : Read(m, g[j]) = IF j = k THEN <<>> ELSE Read(m, h[j])
  BY <1>3, ReadNil
<1> QED BY <1>6, <1>7 DEF g

\* LREM.
LEMMA LremRefines ==
    ASSUME SInv, NEW k \in Key, NEW n \in Index, NEW v \in Val, cmdLrem(k, n, v)
    PROVE  Refines
<1> DEFINE left == lrem(L(k), n, v)
           w == Write(mem, hdr[k], 0, Reverse(L(k)))
           m == IF n < 0 THEN w ELSE mem
<1>1. /\ Has(k)
      /\ IF left = <<>> THEN Store(m, [hdr EXCEPT ![k] = Nil])
         ELSE \E cap \in Len(left)..MaxCap : Put(k, Alloc(m, left, cap))
  BY DEF cmdLrem
<1>2. /\ L(k) \in Seq(Cell) /\ hdr[k].len \in Nat /\ Len(L(k)) = hdr[k].len
      /\ Contents[k] = L(k)
  BY <1>1, ContentsAt
<1>3. n \in Int64
  BY SlicesAssumption
<1>4. left \in Seq(Cell)
  BY <1>2, <1>3, LremType
<1>5. left = Values!lrem(Contents[k], n, v)
  BY <1>2, SameOps
<1>6. Safe(w, hdr) /\ Free(w) /\ \A j \in Key : j # k => Read(w, hdr[j]) = L(j)
  <2> DEFINE vs == Reverse(L(k))
             z  == 0
  <2>1. vs \in Seq(Cell) /\ Len(vs) = hdr[k].len
    <3>1. Reverse(L(k)) \in Seq(Cell)
      BY <1>2, ReverseType
    <3>2. Len(Reverse(L(k))) = Len(L(k))
      BY <1>2, LenProperties DEF Reverse
    <3> QED BY <1>2, <3>1, <3>2
  <2>2. z \in Nat /\ z + Len(vs) <= hdr[k].len /\ w = Write(mem, hdr[k], z, vs)
    BY <1>2, <2>1
  <2> HIDE DEF vs, w, z
  <2> QED BY <1>1, <2>1, <2>2, WriteSafe
<1>7. Safe(mem, hdr) /\ Free(mem) /\ \A j \in Key : j # k => Read(mem, hdr[j]) = L(j)
  BY NowSafe, FreeArray DEF L
<1>8. /\ m \in Memory /\ Safe(m, hdr) /\ Free(m)
      /\ \A j \in Key : j # k => Read(m, hdr[j]) = L(j)
  <2> HIDE DEF w
  <2>1. Safe(m, hdr) /\ Free(m) /\ \A j \in Key : j # k => Read(m, hdr[j]) = L(j)
    BY <1>6, <1>7
  <2> QED BY <2>1 DEF Safe
<1> HIDE DEF m, w, left
<1>9. SInv' /\ HeldStep /\ Contents' = [Contents EXCEPT ![k] = left]
  <2>1. CASE left = <<>>
    <3> DEFINE g == [hdr EXCEPT ![k] = Nil]
    <3>1. Safe(m, g) /\ \A j \in Key : Read(m, g[j]) = IF j = k THEN <<>> ELSE Read(m, hdr[j])
      BY <1>8, DropSafe
    <3>2. Store(m, g)
      BY <1>1, <2>1
    <3> HIDE DEF g
    <3>3. \A j \in Key : Read(m, g[j]) = IF j = k THEN left ELSE L(j)
      BY <1>8, <2>1, <3>1
    <3> QED BY <3>1, <3>2, <3>3, OneBecomes
  <2>2. CASE left # <<>>
    <3>1. PICK cap \in Len(left)..MaxCap : Put(k, Alloc(m, left, cap))
      BY <1>1, <2>2
    <3>2. cap \in Nat /\ Len(left) <= cap
      BY <1>4, <3>1, SlicesAssumption, LenProperties
    <3> DEFINE r == Alloc(m, left, cap)
    <3>3. Put(k, r) /\ r = Alloc(m, left, cap) /\ Nil \in Slice
      BY <3>1 DEF Slice
    <3> HIDE DEF r
    <3>4. Grows(m, Nil, r, left)
      BY <1>4, <1>8, <2>2, <3>2, <3>3, AllocGrows
    <3> QED BY <1>8, <3>3, <3>4, PutBecomes
  <2> QED BY <2>1, <2>2
<1>10. Contents' = [Contents EXCEPT ![k] = Values!lrem(Contents[k], n, v)]
  BY <1>5, <1>9
<1>11. Values!Lrem(k, n, v)
  BY <1>10 DEF Values!Lrem, Values!Becomes, Contents
<1>12. Values!Next
  BY <1>11 DEF Values!Next
<1> QED BY <1>9, <1>12 DEF Refines

\* The first elements of a list and the rest of it.
LEMMA Halves ==
    ASSUME SInv, NEW k \in Key, Has(k), NEW c \in 0..hdr[k].len,
           NEW s, s = [hdr[k] EXCEPT !.len = c]
    PROVE  /\ s \in Header /\ s.arr = hdr[k].arr /\ s.off = hdr[k].off /\ Within(mem, s)
           /\ Read(mem, s) = SubSeq(L(k), 1, c) /\ Read(mem, s) \in Seq(Cell)
           /\ SubSeq(L(k), c + 1, hdr[k].len) \in Seq(Cell)
<1> DEFINE o == hdr[k]
<1>1. /\ mem \in Memory /\ o \in Header /\ Fits(mem, o)
      /\ o.arr \in Arr /\ o.off \in Nat /\ o.len \in Nat /\ o # Nil
  BY TypesAre, Headers DEF SInv, Has
<1>2. /\ L(k) \in Seq(Cell) /\ Len(L(k)) = o.len
      /\ \A i \in 1..o.len : L(k)[i] = mem[o.arr][o.off + i]
  BY <1>1, ReadAt DEF L, Fits
<1>3. s \in Header /\ s.arr = o.arr /\ s.off = o.off /\ s.len = c /\ c \in Nat
  BY <1>1 DEF Header
<1>4. Len(mem[o.arr]) \in Nat /\ o.off + o.len <= Len(mem[o.arr])
  BY <1>1, MemoryAt DEF Fits, Within
<1>5. o.off + c <= Len(mem[o.arr])
  BY <1>1, <1>4
<1> HIDE DEF o
<1>6. Within(mem, s)
  BY <1>3, <1>5 DEF Within
<1>7. /\ Read(mem, s) \in Seq(Cell) /\ Len(Read(mem, s)) = c
      /\ \A i \in 1..c : Read(mem, s)[i] = mem[o.arr][o.off + i]
  <2>1. mem \in Memory /\ s \in Header /\ Within(mem, s)
    BY <1>1, <1>3, <1>6
  <2>2. Read(mem, s) \in Seq(Cell) /\ Len(Read(mem, s)) = s.len
    BY <2>1, ReadAt
  <2>3. \A i \in 1..s.len : Read(mem, s)[i] = mem[s.arr][s.off + i]
    BY <2>1, ReadAt
  <2> QED BY <1>3, <2>2, <2>3
<1>8. c <= o.len
  BY <1>3 DEF o
<1> DEFINE sub == SubSeq(L(k), 1, c)
<1>9. \A i \in 1..o.len : L(k)[i] \in Cell
  BY <1>2, ElementOfSeq
<1>10. \A i \in 1..c : L(k)[i] \in Cell
  BY <1>1, <1>3, <1>8, <1>9
<1>11. /\ sub \in Seq(Cell) /\ Len(sub) = c
       /\ \A i \in 1..(c - 1 + 1) : sub[i] = L(k)[1 + i - 1]
  <2>1. 1 \in Int /\ c \in Int /\ (IF 1 <= c THEN c - 1 + 1 ELSE 0) = c
    BY <1>3
  <2> QED BY <1>10, <2>1, SubSeqProperties
<1> HIDE DEF sub
<1>12. ASSUME NEW i \in 1..c PROVE Read(mem, s)[i] = sub[i]
  <2>1. i \in 1..(c - 1 + 1) /\ 1 + i - 1 = i /\ i \in 1..o.len
    BY <1>1, <1>3, <1>8
  <2>2. sub[i] = L(k)[1 + i - 1]
    BY <1>11, <2>1
  <2>3. sub[i] = L(k)[i]
    BY <2>1, <2>2
  <2> QED BY <1>2, <1>7, <2>1, <2>3
<1>13. Read(mem, s) = sub
  BY <1>7, <1>11, <1>12, SeqEqual
<1>14. \A i \in (c + 1)..o.len : L(k)[i] \in Cell
  BY <1>1, <1>3, <1>9
<1>15. SubSeq(L(k), c + 1, o.len) \in Seq(Cell)
  BY <1>1, <1>3, <1>14, SubSeqProperties
<1> QED BY <1>3, <1>6, <1>7, <1>13, <1>15 DEF sub, o

\* LINSERT.
LEMMA LinsertRefines ==
    ASSUME SInv, NEW k \in Key, NEW where \in {-1, 1}, NEW p \in Val, NEW v \in Val,
           cmdLinsert(k, where, p, v)
    PROVE  Refines
<1> DEFINE i == pivotAt(L(k), p)
           c == IF where < 0 THEN i - 1 ELSE i
           s == [hdr[k] EXCEPT !.len = c]
           u == SubSeq(L(k), c + 1, hdr[k].len)
           vs == <<v>> \o u
<1>1. Has(k) /\ i # 0 /\ \E r \in inserted(mem, hdr[k], c, v) : Put(k, r)
  BY DEF cmdLinsert
<1>2. /\ L(k) \in Seq(Cell) /\ hdr[k].len \in Nat /\ Len(L(k)) = hdr[k].len
      /\ Contents[k] = L(k)
  BY <1>1, ContentsAt
<1>3. i \in 1..hdr[k].len
  <2> DEFINE I == {j \in 1..Len(L(k)) : L(k)[j] = p}
  <2>1. i = IF I # {} THEN Min(I) ELSE 0
    BY DEF pivotAt, SelectInSeq
  <2>2. Min(I) \in I \/ I = {}
    BY <1>2, FirstOf
  <2> QED BY <1>1, <1>2, <2>1, <2>2
<1> HIDE DEF i
<1>4. c \in 0..hdr[k].len /\ c \in Nat
  BY <1>2, <1>3
<1>5. PICK r \in inserted(mem, hdr[k], c, v) : Put(k, r)
  BY <1>1
<1>6. r \in append(mem, s, vs)
  BY <1>5 DEF inserted, L
<1> HIDE DEF c, s
<1>7. /\ s \in Header /\ s.arr = hdr[k].arr /\ s.off = hdr[k].off /\ Within(mem, s)
      /\ Read(mem, s) = SubSeq(L(k), 1, c) /\ Read(mem, s) \in Seq(Cell)
      /\ u \in Seq(Cell)
  BY <1>1, <1>4, Halves DEF s
<1> HIDE DEF u
<1>8. v \in Cell /\ <<v>> \in Seq(Cell) /\ Len(<<v>>) = 1
  BY DEF Cell
<1>9. vs \in Seq(Cell) /\ Len(vs) = 1 + Len(u)
  BY <1>7, <1>8, ConcatProperties
<1> HIDE DEF vs
<1>10. vs # <<>>
  BY <1>7, <1>9, LenProperties, EmptySeq
<1>11. mem \in Memory /\ Free(mem) /\ s \in Slice /\ hdr[k].off <= s.off
  <2>1. hdr[k].off \in Nat
    BY <1>1, ContentsAt, Headers
  <2>2. \A x \in Nat : x <= x
    OBVIOUS
  <2> QED BY <1>7, <2>1, <2>2, FreeArray, TypesAre DEF SInv, Slice
<1>12. Grows(mem, s, r, Read(mem, s) \o vs)
  BY <1>6, <1>7, <1>9, <1>10, <1>11, AppendGrows
<1>13. Safe(mem, hdr) /\ \A j \in Key : j # k => Read(mem, hdr[j]) = L(j)
  BY NowSafe DEF L
<1>14. SInv' /\ HeldStep /\ Contents' = [Contents EXCEPT ![k] = Read(mem, s) \o vs]
  BY <1>1, <1>5, <1>7, <1>11, <1>12, <1>13, PutBecomes
<1>15. linsert(L(k), where, p, v) = InsertAt(L(k), IF where < 0 THEN i ELSE i + 1, v)
  BY DEF linsert, i
<1>16. (IF where < 0 THEN i ELSE i + 1) = c + 1
  BY <1>2, <1>3 DEF c
<1>17. InsertAt(L(k), c + 1, v) = (SubSeq(L(k), 1, c) \o <<v>>) \o u
  <2>1. (c + 1) - 1 = c
    BY <1>4
  <2> QED BY <1>2, <2>1 DEF InsertAt, u
<1>18. Read(mem, s) \o vs = (SubSeq(L(k), 1, c) \o <<v>>) \o u
  <2> DEFINE x == Read(mem, s)
             y == <<v>>
  <2>1. x \in Seq(Cell) /\ y \in Seq(Cell) /\ u \in Seq(Cell)
    BY <1>7, <1>8
  <2>2. x = SubSeq(L(k), 1, c)
    BY <1>7
  <2> HIDE DEF x, y
  <2>3. (x \o y) \o u = x \o (y \o u)
    BY <2>1, ConcatAssociative
  <2> QED BY <2>2, <2>3 DEF vs, x, y
<1>19. Contents' = [Contents EXCEPT ![k] = Values!linsert(Contents[k], where, p, v)]
  BY <1>2, <1>14, <1>15, <1>16, <1>17, <1>18, SameOps
<1>20. Values!pivotAt(Contents[k], p) # 0
  BY <1>1, <1>2, SameOps DEF i
<1>21. Values!Linsert(k, where, p, v)
  BY <1>19, <1>20 DEF Values!Linsert, Values!Becomes, Contents
<1>22. Values!Next
  BY <1>21 DEF Values!Next
<1> QED BY <1>14, <1>22 DEF Refines

\* RENAME, RENAMENX and MOVE.
LEMMA RenameRefines ==
    ASSUME SInv, NEW from \in Key, NEW to \in Key, rename(from, to)
    PROVE  Refines
<1> DEFINE g == renamed(hdr, from, to)
<1>1. Has(from) /\ from # to /\ Store(mem, g)
  BY DEF rename
<1>2. Safe(mem, g)
  BY <1>1, RenameSafe
<1>3. \A j \in Key : Read(mem, g[j]) =
         IF j = from THEN <<>> ELSE IF j = to THEN L(from) ELSE L(j)
  BY <1>1, RenameSafe
<1> HIDE DEF g
<1>4. SInv' /\ HeldStep /\ Contents' = [j \in Key |-> Read(mem, g[j])]
  BY <1>1, <1>2, StoreStep
<1>5. [j \in Key |-> Read(mem, g[j])] =
         [Contents EXCEPT ![to] = Contents[from], ![from] = <<>>]
  BY <1>1, <1>3 DEF Contents
<1>6. Values!Rename(from, to)
  BY <1>1, <1>4, <1>5 DEF Values!Rename, Contents
<1>7. Values!Next
  BY <1>6 DEF Values!Next
<1> QED BY <1>4, <1>7 DEF Refines

\* RPOPLPUSH.
LEMMA RpoplpushRefines ==
    ASSUME SInv, NEW src \in Key, NEW dst \in Key, cmdRpoplpush(src, dst)
    PROVE  Refines
<1> DEFINE s == reslice(hdr[src], 0, hdr[src].len - 1)
           h == [hdr EXCEPT ![src] = s]
           x == Last(L(src))
<1>1. /\ Has(src)
      /\ \E r \in lpushed(mem, h[dst], x) : Store(r.mem, [h EXCEPT ![dst] = r.s])
  BY DEF cmdRpoplpush
<1>2. /\ L(src) \in Seq(Cell) /\ L(src) # <<>> /\ hdr[src].len \in Nat /\ hdr[src].len > 0
      /\ Len(L(src)) = hdr[src].len /\ Contents[src] = L(src)
  BY <1>1, ContentsAt
<1>3. x \in Cell
  BY <1>2, LastElement DEF Last
<1>4. /\ s \in Slice /\ (s # Nil => Fits(mem, s) /\ s.arr = hdr[src].arr)
      /\ Read(mem, s) = Front(L(src))
  <2> DEFINE z == 0
             to == hdr[src].len - 1
  <2>1. /\ z \in Nat /\ to \in Nat /\ z <= to /\ to <= hdr[src].len /\ z + 1 = 1
        /\ to = Len(L(src)) - 1 /\ s = reslice(hdr[src], z, to)
    BY <1>2
  <2> HIDE DEF z, to, s
  <2>2. /\ s \in Slice /\ (s # Nil => Fits(mem, s) /\ s.arr = hdr[src].arr)
        /\ Read(mem, s) = SubSeq(L(src), z + 1, to)
    BY <1>1, <2>1, Resliced
  <2> QED BY <2>1, <2>2 DEF Front
<1>5. PICK r \in lpushed(mem, h[dst], x) : Store(r.mem, [h EXCEPT ![dst] = r.s])
  BY <1>1
<1> HIDE DEF s, x
<1>6. Safe(mem, h) /\ \A j \in Key : Read(mem, h[j]) = IF j = src THEN Read(mem, s) ELSE L(j)
  BY <1>1, <1>4, CutSafe
<1> HIDE DEF h
<1>7. /\ mem \in Memory /\ Free(mem) /\ h[dst] \in Slice /\ Nil \in Slice
      /\ (h[dst] # Nil => Within(mem, h[dst]))
  BY <1>6, FreeArray DEF Safe, Fits, Slice
<1>8. Grows(mem, Nil, r, <<x>> \o Read(mem, h[dst]))
  BY <1>3, <1>5, <1>7, LpushGrows
<1> DEFINE g == [h EXCEPT ![dst] = r.s]
           l == <<x>> \o Read(mem, h[dst])
<1>9. Grows(mem, Nil, r, l) /\ Store(r.mem, g)
  BY <1>5, <1>8
<1> HIDE DEF l
<1>10. Safe(r.mem, g) /\ \A j \in Key : Read(r.mem, g[j]) = IF j = dst THEN l ELSE Read(mem, h[j])
  BY <1>6, <1>7, <1>9, PutSafe
<1> HIDE DEF g
<1>11. SInv' /\ HeldStep /\ Contents' = [j \in Key |-> Read(r.mem, g[j])]
  BY <1>9, <1>10, StoreStep
<1> DEFINE c == [Contents EXCEPT ![src] = Front(Contents[src])]
<1>12. \A j \in Key : Read(mem, h[j]) = c[j]
  BY <1>2, <1>4, <1>6 DEF Contents
<1>13. DOMAIN c = Key
  BY DEF Contents
<1>14. l = <<x>> \o c[dst]
  BY <1>12 DEF l
<1>15. c = [j \in Key |-> c[j]]
  BY <1>13 DEF Contents
<1> HIDE DEF c
<1>16. [j \in Key |-> Read(r.mem, g[j])] = [c EXCEPT ![dst] = <<x>> \o c[dst]]
  BY <1>10, <1>12, <1>14, <1>15
<1>17. c = [Contents EXCEPT ![src] = Values!Front(Contents[src])]
  BY SameOps DEF c
<1>18. x = Values!Last(Contents[src])
  BY <1>2, SameOps DEF x
<1>19. Contents' = [[Contents EXCEPT ![src] = Values!Front(@)]
                       EXCEPT ![dst] = <<Values!Last(Contents[src])>> \o @]
  BY <1>11, <1>16, <1>17, <1>18
<1>20. Values!RpopLpush(src, dst)
  BY <1>2, <1>19 DEF Values!RpopLpush, Contents
<1>21. Values!Next
  BY <1>20 DEF Values!Next
<1> QED BY <1>11, <1>21 DEF Refines

\* The direct method List, and the program that forgets what it got.
LEMMA HoldingRefines ==
    ASSUME SInv, NEW hd \in Slice, hd # Nil => Fits(mem, hd),
           held' = hd, mem' = Visible(mem, hdr, hd), UNCHANGED hdr
    PROVE  SInv' /\ Contents' = Contents /\ (hd # Nil => Read(mem', hd) = Read(mem, hd))
<1>1. mem \in Memory /\ hdr \in [Key -> Slice] /\ \A k \in Key : hdr[k] # Nil => Fits(mem, hdr[k])
  BY TypesAre DEF SInv
<1>2. Apart(hdr) /\ hdr' = hdr
  BY DEF SInv, Unshared, Apart, Has
<1>3. /\ SInv' /\ Contents' = [k \in Key |-> Read(mem, hdr[k])]
      /\ hd # Nil => Read(mem', hd) = Read(mem, hd)
  BY <1>1, <1>2, Collecting
<1> QED BY <1>3 DEF Contents, L

\* Every step keeps the invariant, disturbs what is held only as it may, and is a step
\* of the lists.
LEMMA StepRefines ==
    ASSUME SInv, [Next]_vars
    PROVE  Refines
<1>1. ASSUME NEW k \in Key, List(k) PROVE Refines
  <2>1. hdr[k] \in Slice /\ hdr[k] # Nil /\ Fits(mem, hdr[k])
    BY <1>1, TypesAre DEF SInv, List, Has
  <2> DEFINE hd == hdr[k]
  <2>2. hd \in Slice /\ Fits(mem, hd) /\ held' = hd /\ mem' = Visible(mem, hdr, hd) /\ UNCHANGED hdr
    BY <1>1, <2>1 DEF List
  <2> HIDE DEF hd
  <2>3. SInv' /\ Contents' = Contents /\ (hd # Nil => Read(mem', hd) = Read(mem, hd))
    BY <2>2, HoldingRefines
  <2>4. HeldStep
    BY <2>2, <2>3 DEF HeldStep
  <2> QED BY <2>3, <2>4 DEF Refines
<1>2. ASSUME Forget PROVE Refines
  <2>1. Nil \in Slice /\ held' = Nil /\ mem' = Visible(mem, hdr, Nil) /\ UNCHANGED hdr
    BY <1>2 DEF Forget, Slice
  <2>2. SInv' /\ Contents' = Contents
    BY <2>1, HoldingRefines
  <2>3. HeldStep
    BY <2>1 DEF HeldStep
  <2> QED BY <2>2, <2>3 DEF Refines
<1>3. ASSUME UNCHANGED vars PROVE Refines
  <2>1. mem' = mem /\ hdr' = hdr /\ held' = held
    BY <1>3 DEF vars
  <2>2. SInv'
    BY <2>1, TypesAre, TypesWillBe DEF SInv, Unshared, Collected, Has
  <2>3. Contents' = Contents
    BY <2>1 DEF Contents, L
  <2>4. HeldStep
    BY <2>1 DEF HeldStep
  <2> QED BY <2>2, <2>3, <2>4 DEF Refines
<1>4. ASSUME NEW k \in Key, NEW v \in Val,
             listPush(k, <<v>>) \/ listPush(k, <<v, v>>) \/ listLpush(k, v)
      PROVE  Refines
  BY <1>4, PushRefines, LpushRefines
<1>5. ASSUME NEW k \in Key, NEW v \in Val, NEW n \in Index, cmdLset(k, n, v) \/ cmdLrem(k, n, v)
      PROVE  Refines
  BY <1>5, LsetRefines, LremRefines
<1>6. ASSUME NEW k \in Key, NEW v \in Val, NEW where \in {-1, 1}, NEW p \in Val,
             cmdLinsert(k, where, p, v)
      PROVE  Refines
  BY <1>6, LinsertRefines
<1>7. ASSUME NEW k \in Key, listLpop(k) \/ listPop(k) \/ del(k)
      PROVE  Refines
  BY <1>7, PopsRefine, DelRefines
<1>8. ASSUME NEW k \in Key, NEW s \in Index, NEW e \in Index, cmdLtrim(k, s, e)
      PROVE  Refines
  BY <1>8, LtrimRefines
<1>9. ASSUME NEW k \in Key, NEW to \in Key, rename(k, to) \/ cmdRpoplpush(k, to)
      PROVE  Refines
  BY <1>9, RenameRefines, RpoplpushRefines
<1> QED BY <1>1, <1>2, <1>3, <1>4, <1>5, <1>6, <1>7, <1>8, <1>9 DEF Next

\* The initial state satisfies the invariant, and its lists are empty.
LEMMA StartRefines ==
    ASSUME Init
    PROVE  SInv /\ Values!Init
<1>1. mem \in Memory
  BY EmptySeq DEF Init, Memory
<1>2. hdr \in [Key -> Slice] /\ held \in Slice /\ held = Nil /\ \A k \in Key : hdr[k] = Nil
  BY DEF Init, Slice
<1>3. TypeOK
  BY <1>1, <1>2, TypesAre
<1>4. Unshared /\ Collected
  BY <1>2 DEF Unshared, Collected, Has, Init
<1>5. Contents = [k \in Key |-> <<>>]
  BY <1>2, ReadNil DEF Contents, L
<1>6. Values!Init
  BY <1>5 DEF Values!Init, Contents
<1> QED BY <1>3, <1>4, <1>6 DEF SInv
-----------------------------------------------------------------------------
\* The inductive invariant: the headers are sound, apart, and the memory is collected.
THEOREM SlicesInvariant == Spec => []SInv
<1>1. Init => SInv
  BY StartRefines
<1>2. SInv /\ [Next]_vars => SInv'
  BY StepRefines DEF Refines
<1> QED BY <1>1, <1>2, PTL DEF Spec

\* No index and no re-slicing in the list commands panics: every header lies within
\* its array (src/db.go, src/cmd_list.go).
THEOREM HeadersSound == Spec => []TypeOK
<1>1. SInv => TypeOK
  BY DEF SInv
<1> QED BY <1>1, SlicesInvariant, PTL

\* Two keys never share an array, so a write in place to one list is never seen in
\* another one, through any sequence of commands.
THEOREM NeverShared == Spec => []Unshared
<1>1. SInv => Unshared
  BY DEF SInv
<1> QED BY <1>1, SlicesInvariant, PTL

\* The slices implement lists that are plain values: re-slicing, appending in place
\* and reversing in place are invisible to the commands.
THEOREM RefinesLists == Spec => ImplementsLists
<1>1. Init => Values!Init
  BY StartRefines
<1>2. SInv /\ [Next]_vars => [Values!Next]_([k \in Key |-> L(k)])
  BY StepRefines DEF Refines, Contents
<1> QED BY <1>1, <1>2, SlicesInvariant, PTL DEF Spec, ImplementsLists, Values!Spec

\* What the program that called List holds changes only where a list still writes:
\* in an array that a list uses, behind the offset of that list (src/direct.go).
THEOREM HeldDisturbedOnlyByOwner == Spec => HeldOnlyOverwritten
<1>1. SInv /\ [Next]_vars =>
         [held # Nil /\ held' = held =>
             \A i \in 1..held.len :
                 Read(mem', held)[i] # Read(mem, held)[i] =>
                     \E k \in Key : /\ Has(k) /\ hdr[k].arr = held.arr
                                    /\ held.off + i > hdr[k].off]_vars
  BY StepRefines DEF Refines, HeldStep
<1> QED BY <1>1, SlicesInvariant, PTL DEF Spec, HeldOnlyOverwritten
=============================================================================
