---------------------------- MODULE BlockingProofs ----------------------------
(***************************************************************************)
(* Proofs about Blocking, for every set of connections, keys, elements and  *)
(* requests: its safety, and that it implements ListService.                *)
(***************************************************************************)
EXTENDS Blocking, TLAPS, FiniteSetTheorems, SequenceTheorems, WellFoundedInduction

Dbs == [Key -> Seq(Elem) \cup {SetKey}]

\* A nonempty set of naturals has a least element.
LEMMA LeastNat ==
    ASSUME NEW S, S \subseteq Nat, S # {}
    PROVE  \E x \in S : \A y \in S : x <= y
<1>1. \E x \in S : \A y \in S : ~ (<<y, x>> \in OpToRel(<, Nat))
  BY NatLessThanWellFounded, WFMin, Zenon
<1>2. PICK x \in S : \A y \in S : ~ (<<y, x>> \in OpToRel(<, Nat))
  BY <1>1
<1>3. ASSUME NEW y \in S PROVE x <= y
  <2>1. x \in Nat /\ y \in Nat
    OBVIOUS
  <2>2. OpToRel(<, Nat) = {ss \in Nat \X Nat : ss[1] < ss[2]}
    BY Zenon DEF OpToRel
  <2>3. y < x => <<y, x>> \in {ss \in Nat \X Nat : ss[1] < ss[2]}
    BY <2>1
  <2>4. ~ (y < x)
    BY <1>2, <2>2, <2>3, Zenon
  <2> QED BY <2>1, <2>4
<1> QED BY <1>3

\* A blocking pop decides on one of its keys, and that key exists.
LEMMA FirstHitIsHit ==
    ASSUME NEW r, NEW d, Hits(r, d) # {}
    PROVE  FirstHit(r, d) \in Hits(r, d)
<1>1. Hits(r, d) \subseteq Nat
  BY DEF Hits
<1>2. \E x \in Hits(r, d) : \A y \in Hits(r, d) : x <= y
  BY <1>1, LeastNat, Zenon
<1> QED BY <1>2, Zenon DEF FirstHit

\* The list operations of a callback stay within lists of elements.
LEMMA ListType ==
    ASSUME NEW l \in Seq(Elem), NEW e \in Elem, NEW lr
    PROVE  /\ Put(l, e, lr) \in Seq(Elem)
           /\ l # <<>> => Rest(l, lr) \in Seq(Elem) /\ EndOf(l, lr) \in Elem
<1>1. Put(l, e, lr) \in Seq(Elem)
  BY DEF Put
<1>2. ASSUME l # <<>> PROVE Rest(l, lr) \in Seq(Elem) /\ EndOf(l, lr) \in Elem
  <2>1. Len(l) \in Nat \ {0} /\ DOMAIN l = 1..Len(l)
    BY <1>2, EmptySeq, LenProperties
  <2>2. Tail(l) \in Seq(Elem) /\ Head(l) \in Elem
    BY <1>2, HeadTailProperties
  <2>3. l[Len(l)] \in Elem
    BY <2>1, ElementOfSeq
  <2>4. SubSeq(l, 1, Len(l) - 1) \in Seq(Elem)
    BY <2>1, SubSeqProperties
  <2> QED BY <2>2, <2>3, <2>4 DEF Rest, EndOf
<1> QED BY <1>1, <1>2

\* The keys a request names are keys.
LEMMA RequestType ==
    ASSUME NEW r \in Request
    PROVE  /\ r.op \in TxOps \cup DirectOps \cup BlockingOps
           /\ r.keys \in Seq(Key) /\ r.elem \in Elem
           /\ r.keys[1] \in Key
           /\ r.op \in MoveOps => r.keys[2] \in Key
<1>1. r \in AllRequests /\ Len(r.keys) >= (IF r.op \in MoveOps THEN 2 ELSE 1)
  BY BlockingAssumption
<1>2. r.keys \in Seq(Key)
  BY <1>1 DEF AllRequests
<1>3. r.keys[1] \in Key
  BY <1>1, <1>2, LenProperties, ElementOfSeq
<1>4. r.op \in MoveOps => r.keys[2] \in Key
  BY <1>1, <1>2, LenProperties, ElementOfSeq
<1> QED BY <1>1, <1>2, <1>3, <1>4 DEF AllRequests

\* A callback maps databases to databases and answers a reply.
LEMMA CbType ==
    ASSUME NEW r \in Request, NEW d \in Dbs
    PROVE  Cb(r, d).db \in Dbs /\ Cb(r, d).reply \in Replies
<1> USE RequestType
<1>1. CASE r.op \in PopOps
  <2>1. Cb(r, d) = PopCb(r, d)
    BY <1>1, Zenon DEF Cb, PopOps, MoveOps, PushOps
  <2>2. CASE Hits(r, d) = {}
    BY <2>1, <2>2 DEF PopCb, Waits, Replies
  <2>3. CASE Hits(r, d) # {}
    <3> DEFINE k == r.keys[FirstHit(r, d)]
    <3>1. k \in Key /\ d[k] # <<>>
      BY <2>3, FirstHitIsHit, LenProperties, ElementOfSeq DEF Hits
    <3>2. CASE d[k] = SetKey
      BY <2>1, <2>3, <3>2 DEF PopCb, Answers, Replies
    <3>3. CASE d[k] # SetKey
      <4>1. d[k] \in Seq(Elem)
        BY <3>1, <3>3 DEF Dbs
      <4>2. Rest(d[k], r.lr) \in Seq(Elem) /\ EndOf(d[k], r.lr) \in Elem
        BY <4>1, <3>1, ListType
      <4>3. Cb(r, d) = Answers([d EXCEPT ![k] = Rest(d[k], r.lr)], EndOf(d[k], r.lr))
        BY <2>1, <2>3, <3>3 DEF PopCb
      <4> QED BY <4>2, <4>3, <3>1 DEF Answers, Replies, Dbs
    <3> QED BY <3>2, <3>3
  <2> QED BY <2>2, <2>3
<1>2. CASE r.op \in MoveOps
  <2> DEFINE src == r.keys[1]
             dst == r.keys[2]
             d1  == [d EXCEPT ![src] = Rest(d[src], "right")]
             el  == EndOf(d[src], "right")
  <2>1. Cb(r, d) = MoveCb(r, d)
    BY <1>2 DEF Cb, PopOps, MoveOps, PushOps
  <2>2. src \in Key /\ dst \in Key
    BY <1>2
  <2>3. CASE d[src] = <<>>
    BY <2>1, <2>3 DEF MoveCb, Waits, Replies
  <2>4. CASE d[src] # <<>> /\ (d[src] = SetKey \/ d[dst] = SetKey)
    BY <2>1, <2>4 DEF MoveCb, Answers, Replies
  <2>5. CASE d[src] # <<>> /\ d[src] # SetKey /\ d[dst] # SetKey
    <3>1. d[src] \in Seq(Elem) /\ d[dst] \in Seq(Elem)
      BY <2>2, <2>5 DEF Dbs
    <3>2. Rest(d[src], "right") \in Seq(Elem) /\ el \in Elem
      BY <3>1, <2>5, ListType
    <3>3. d1 \in Dbs /\ d1[dst] \in Seq(Elem)
      BY <2>2, <3>1, <3>2 DEF Dbs
    <3>4. Put(d1[dst], el, "left") \in Seq(Elem)
      BY <3>2, <3>3, ListType
    <3>5. Cb(r, d) = Answers([d1 EXCEPT ![dst] = Put(d1[dst], el, "left")], el)
      BY <2>1, <2>5 DEF MoveCb
    <3> HIDE DEF d1, el
    <3> QED BY <3>2, <3>3, <3>4, <3>5, <2>2 DEF Answers, Replies, Dbs
  <2> QED BY <2>3, <2>4, <2>5
<1>3. CASE r.op \in PushOps
  <2>1. Cb(r, d) = PushCb(r, d)
    BY <1>3 DEF Cb, PopOps, MoveOps, PushOps
  <2>2. CASE d[r.keys[1]] = SetKey
    BY <2>1, <2>2 DEF PushCb, Answers, Replies
  <2>3. CASE d[r.keys[1]] # SetKey
    <3>1. Put(d[r.keys[1]], r.elem, r.lr) \in Seq(Elem)
      BY <2>3, ListType DEF Dbs
    <3>2. Cb(r, d) = Answers([d EXCEPT ![r.keys[1]] = Put(d[r.keys[1]], r.elem, r.lr)], "ok")
      BY <2>1, <2>3 DEF PushCb
    <3> QED BY <3>1, <3>2 DEF Answers, Replies, Dbs
  <2> QED BY <2>2, <2>3
<1>4. CASE r.op = "sadd"
  BY <1>4 DEF Cb, PopOps, MoveOps, PushOps, SaddCb, Answers, Replies, Dbs
<1>5. CASE r.op = "del"
  <2>1. <<>> \in Seq(Elem)
    BY EmptySeq
  <2> QED BY <1>5, <2>1 DEF Cb, PopOps, MoveOps, PushOps, DelCb, Answers, Replies, Dbs
<1> QED BY <1>1, <1>2, <1>3, <1>4, <1>5
        DEF TxOps, DirectOps, BlockingOps, PopOps, MoveOps, PushOps
-----------------------------------------------------------------------------
\* A Broadcast leaves every helper in one of its states.
LEMMA WokenType ==
    ASSUME TypeOK
    PROVE  Woken \in [Conn -> HelperStates]
BY DEF TypeOK, Woken, HelperStates

\* What a callback hands back to the clients is elements.
LEMMA HandedBackType ==
    ASSUME TypeOK, NEW r \in Request, NEW out
    PROVE  HandedBack(r, out) \subseteq Elem
<1>1. r.elem \in Elem /\ r.keys[1] \in Key
  BY RequestType
<1>2. ListElems(db, r.keys[1]) \subseteq Elem
  <2>1. CASE db[r.keys[1]] = SetKey
    BY <2>1 DEF ListElems
  <2>2. CASE db[r.keys[1]] # SetKey
    <3>1. db[r.keys[1]] \in Seq(Elem)
      BY <1>1, <2>2 DEF TypeOK
    <3>2. \A i \in DOMAIN db[r.keys[1]] : db[r.keys[1]][i] \in Elem
      BY <3>1, ElementOfSeq, LenProperties
    <3> QED BY <2>2, <3>2, Zenon DEF ListElems
  <2> QED BY <2>1, <2>2
<1> QED BY <1>1, <1>2 DEF HandedBack

\* Every step of the protocol keeps every variable in its type.
LEMMA TypeStep ==
    ASSUME TypeOK, [Next]_vars
    PROVE  TypeOK'
<1> USE DEF TypeOK, Goto, Locations, HelperStates
<1>1. ASSUME NEW c \in Conn, NEW r \in Request, Issue(c, r) PROVE TypeOK'
  <2>1. r.elem \in Elem
    BY RequestType
  <2> QED BY <1>1, <2>1 DEF Issue
<1>2. ASSUME NEW c \in Conn, Acquire(c) PROVE TypeOK'
  BY <1>2 DEF Acquire
<1>3. ASSUME NEW c \in Conn, RunTx(c) PROVE TypeOK'
  <2> DEFINE out == Cb(req[c], db)
  <2>1. out.db \in Dbs /\ out.reply \in Replies
    BY CbType DEF Dbs
  <2>2. HandedBack(req[c], out) \subseteq Elem
    BY HandedBackType
  <2>3. Woken \in [Conn -> HelperStates]
    BY WokenType
  <2>4. Append(reply[c], out.reply) \in Seq(Replies)
    BY <2>1, AppendProperties
  <2> HIDE DEF out
  <2> QED BY <1>3, <2>1, <2>2, <2>3, <2>4 DEF RunTx, Dbs, out
<1>4. ASSUME NEW c \in Conn, RunDirect(c) PROVE TypeOK'
  <2> DEFINE out == Cb(req[c], db)
  <2>1. out.db \in Dbs /\ out.reply \in Replies
    BY CbType DEF Dbs
  <2>2. HandedBack(req[c], out) \subseteq Elem
    BY HandedBackType
  <2>4. Append(reply[c], out.reply) \in Seq(Replies)
    BY <2>1, AppendProperties
  <2>5. silent' \in BOOLEAN
    BY <1>4, Zenon DEF RunDirect
  <2> QED BY <1>4, <2>1, <2>2, <2>4, <2>5 DEF RunDirect, Dbs
<1>5. ASSUME NEW c \in Conn, TryDone(c) PROVE TypeOK'
  <2> DEFINE out == Cb(req[c], db)
  <2>1. out.db \in Dbs /\ out.reply \in Replies
    BY CbType DEF Dbs
  <2>4. Append(reply[c], out.reply) \in Seq(Replies)
    BY <2>1, AppendProperties
  <2>5. silent' \in BOOLEAN
    BY <1>5, Zenon DEF TryDone
  <2> QED BY <1>5, <2>1, <2>4, <2>5 DEF TryDone, Dbs
<1>6. ASSUME NEW c \in Conn, TryWait(c) PROVE TypeOK'
  BY <1>6 DEF TryWait
<1>7. ASSUME NEW c \in Conn, Retry(c) PROVE TypeOK'
  BY <1>7 DEF Retry
<1>8. ASSUME NEW c \in Conn, TimeOut(c) PROVE TypeOK'
  BY <1>8, AppendProperties DEF TimeOut, Replies
<1>9. ASSUME NEW c \in Conn, Kill(c) PROVE TypeOK'
  BY <1>9, WokenType DEF Kill
<1>10. ASSUME NEW c \in Conn, Join(c) PROVE TypeOK'
  BY <1>10 DEF Join
<1>11. ASSUME NEW c \in Conn, Release(c) PROVE TypeOK'
  <2>1. <<>> \in Seq(Replies) /\ Whatever \in Request
    BY EmptySeq, BlockingAssumption DEF Whatever
  <2> QED BY <1>11, <2>1 DEF Release
<1>12. ASSUME NEW c \in Conn, HelperWait(c) PROVE TypeOK'
  BY <1>12 DEF HelperWait
<1>13. ASSUME NEW c \in Conn, HelperRelock(c) PROVE TypeOK'
  BY <1>13 DEF HelperRelock
<1>14. ASSUME NEW c \in Conn, Fire(c) PROVE TypeOK'
  BY <1>14 DEF Fire
<1>15. CASE UNCHANGED vars
  BY <1>15 DEF vars
<1> QED
  BY <1>1, <1>2, <1>3, <1>4, <1>5, <1>6, <1>7, <1>8, <1>9, <1>10, <1>11,
     <1>12, <1>13, <1>14, <1>15 DEF Next, Step

\* The initial state is well typed.
LEMMA TypeInit ==
    ASSUME Init
    PROVE  TypeOK
<1>1. Whatever \in Request
  BY BlockingAssumption DEF Whatever
<1>2. <<>> \in Seq(Elem) /\ <<>> \in Seq(Replies)
  BY EmptySeq
<1> QED BY <1>1, <1>2 DEF Init, TypeOK, Locations, HelperStates

\* Type correctness: in every reachable state of the server the lists hold
\* elements only, and every goroutine is at one of its locations.
THEOREM TypeCorrect == Spec => []TypeOK
<1>1. Init => TypeOK
  BY TypeInit
<1>2. TypeOK /\ [Next]_vars => TypeOK'
  BY TypeStep
<1> QED BY <1>1, <1>2, PTL DEF Spec
-----------------------------------------------------------------------------
(***************************************************************************)
(* Mutual exclusion.  A step of c moves c between holding the mutex and not *)
(* holding it exactly as it moves the mutex, and nobody else's Holds        *)
(* changes: Woken turns "parked" to "notified", and neither of them holds.  *)
(***************************************************************************)
\* A step of c moves no other goroutine, and at most wakes another helper.
LEMMA HoldersOfOthers ==
    ASSUME TypeOK, NEW c \in Conn, \/ \E r \in Request : Issue(c, r)
                                   \/ Step(c)
    PROVE  \A d \in Conn \ {c} :
              /\ pc'[d] = pc[d]
              /\ \/ helper'[d] = helper[d]
                 \/ helper[d] = "parked" /\ helper'[d] = "notified"
<1> USE DEF TypeOK, Goto
<1>1. ASSUME NEW r \in Request, Issue(c, r)
      PROVE  \A d \in Conn \ {c} : pc'[d] = pc[d] /\ helper'[d] = helper[d]
  BY <1>1 DEF Issue
<1>2. ASSUME Acquire(c) \/ RunDirect(c) \/ TryDone(c) \/ TryWait(c) \/ Retry(c)
      PROVE  \A d \in Conn \ {c} : pc'[d] = pc[d] /\ helper'[d] = helper[d]
  BY <1>2 DEF Acquire, RunDirect, TryDone, TryWait, Retry
<1>3. ASSUME TimeOut(c) \/ Join(c) \/ Release(c) \/ HelperWait(c) \/ HelperRelock(c) \/ Fire(c)
      PROVE  \A d \in Conn \ {c} : pc'[d] = pc[d] /\ helper'[d] = helper[d]
  BY <1>3 DEF TimeOut, Join, Release, HelperWait, HelperRelock, Fire
<1>4. ASSUME RunTx(c) \/ Kill(c)
      PROVE  \A d \in Conn \ {c} :
                /\ pc'[d] = pc[d]
                /\ \/ helper'[d] = helper[d]
                   \/ helper[d] = "parked" /\ helper'[d] = "notified"
  BY <1>4 DEF RunTx, Kill, Woken
<1> QED BY <1>1, <1>2, <1>3, <1>4 DEF Step

\* A step of c keeps the mutex with c, takes a free mutex for c, gives the mutex
\* of c back, or touches neither the mutex nor who holds it.
LEMMA HolderStep ==
    ASSUME TypeOK, LockHandOff, NEW c \in Conn, \/ \E r \in Request : Issue(c, r)
                                                \/ Step(c)
    PROVE  /\ \/ Holds(c)' = Holds(c) /\ locked' = locked
              \/ ~locked /\ locked' /\ Holds(c)'
              \/ Holds(c) /\ ~locked' /\ ~Holds(c)'
           /\ helper'[c] = "none" <=> ~Waiting(c)'
<1> USE DEF TypeOK, Goto, Holds, Waiting, Locations, HelperStates
<1>0. helper[c] = "none" <=> ~Waiting(c)
  BY DEF LockHandOff
<1>1. ASSUME NEW r \in Request, Issue(c, r)
      PROVE  /\ Holds(c)' = Holds(c) /\ locked' = locked
             /\ helper'[c] = "none" <=> ~Waiting(c)'
  BY <1>0, <1>1 DEF Issue
<1>2. CASE Acquire(c)
  BY <1>0, <1>2 DEF Acquire
<1>3. CASE RunTx(c)
  BY <1>0, <1>3 DEF RunTx, Woken
<1>4. CASE RunDirect(c)
  BY <1>0, <1>4 DEF RunDirect
<1>5. CASE TryDone(c)
  BY <1>0, <1>5 DEF TryDone
<1>6. CASE TryWait(c)
  BY <1>0, <1>6 DEF TryWait
<1>7. CASE Retry(c)
  BY <1>0, <1>7 DEF Retry
<1>8. CASE TimeOut(c)
  BY <1>0, <1>8 DEF TimeOut
<1>9. CASE Kill(c)
  BY <1>0, <1>9 DEF Kill, Woken
<1>10. CASE Join(c)
  BY <1>0, <1>10 DEF Join
<1>11. CASE Release(c)
  BY <1>0, <1>11 DEF Release
<1>12. CASE HelperWait(c)
  BY <1>0, <1>12 DEF HelperWait
<1>13. CASE HelperRelock(c)
  BY <1>0, <1>13 DEF HelperRelock
<1>14. CASE Fire(c)
  BY <1>0, <1>14 DEF Fire
<1> QED
  BY <1>1, <1>2, <1>3, <1>4, <1>5, <1>6, <1>7, <1>8, <1>9, <1>10, <1>11,
     <1>12, <1>13, <1>14 DEF Step

\* Every step keeps the hand-off of the mutex intact.
LEMMA LockStep ==
    ASSUME TypeOK, LockHandOff, [Next]_vars
    PROVE  LockHandOff'
<1>1. CASE UNCHANGED vars
  BY <1>1 DEF vars, LockHandOff, Holds, Waiting
<1>2. ASSUME NEW c \in Conn, (\E r \in Request : Issue(c, r)) \/ Step(c)
      PROVE  LockHandOff'
  <2>1. \A d \in Conn \ {c} : /\ Holds(d)' <=> Holds(d)
                              /\ helper'[d] = "none" <=> ~Waiting(d)'
    BY <1>2, HoldersOfOthers DEF LockHandOff, Holds, Waiting
  <2>2. /\ \/ Holds(c)' = Holds(c) /\ locked' = locked
           \/ ~locked /\ locked' /\ Holds(c)'
           \/ Holds(c) /\ ~locked' /\ ~Holds(c)'
        /\ helper'[c] = "none" <=> ~Waiting(c)'
    BY <1>2, HolderStep
  <2>3. locked => \E d \in Conn : Holds(d)
    BY DEF LockHandOff
  <2>4. \A d \in Conn : Holds(d) => locked
    BY DEF LockHandOff
  <2>5. \A d, e \in Conn : Holds(d) /\ Holds(e) => d = e
    BY DEF LockHandOff
  <2>6. \A d, e \in Conn : Holds(d)' /\ Holds(e)' => d = e
    BY <2>1, <2>2, <2>4, <2>5, Zenon
  <2>7. locked' <=> \E d \in Conn : Holds(d)'
    <3>1. ASSUME Holds(c)' = Holds(c), locked' = locked PROVE locked' <=> \E d \in Conn : Holds(d)'
      <4>1. locked <=> \E d \in Conn : Holds(d)
        BY <2>3, <2>4
      <4>2. \A d \in Conn : Holds(d)' <=> Holds(d)
        BY <2>1, <3>1
      <4> QED BY <3>1, <4>1, <4>2
    <3>2. ASSUME ~locked, locked', Holds(c)' PROVE locked' <=> \E d \in Conn : Holds(d)'
      BY <3>2
    <3>3. ASSUME Holds(c), ~locked', ~Holds(c)' PROVE locked' <=> \E d \in Conn : Holds(d)'
      <4>1. \A d \in Conn : ~Holds(d)'
        BY <2>1, <2>5, <3>3
      <4> QED BY <3>3, <4>1
    <3> QED BY <2>2, <3>1, <3>2, <3>3
  <2>8. \A d \in Conn : helper'[d] = "none" <=> ~Waiting(d)'
    BY <2>1, <2>2
  <2> QED BY <2>6, <2>7, <2>8 DEF LockHandOff
<1> QED BY <1>1, <1>2 DEF Next

\* Nobody holds the mutex of a new server.
LEMMA LockInit ==
    ASSUME Init
    PROVE  LockHandOff
BY DEF Init, LockHandOff, Holds, Waiting

\* Mutual exclusion with hand-off: blocking() passes its locked mutex to a helper
\* goroutine and takes it back, and in every reachable state the mutex is held for
\* at most one connection and locked exactly when it is held for one.
THEOREM MutualExclusion == Spec => []LockHandOff
<1>1. Init => TypeOK /\ LockHandOff
  BY TypeInit, LockInit
<1>2. TypeOK /\ LockHandOff /\ [Next]_vars => TypeOK' /\ LockHandOff'
  BY TypeStep, LockStep
<1> QED BY <1>1, <1>2, PTL DEF Spec
-----------------------------------------------------------------------------
\* A command writes one reply and never a second: the retries of blocking() write
\* nothing, and the timeout branch returns after its null.
THEOREM RepliesOnce == Spec => []OneReply
<1>1. Init => OneReply
  BY EmptySeq DEF Init, OneReply
<1>2. TypeOK /\ OneReply /\ [Next]_vars => OneReply'
  <2> SUFFICES ASSUME TypeOK, OneReply, [Next]_vars PROVE OneReply'
    OBVIOUS
  <2> USE DEF TypeOK, OneReply, Goto
  <2>0. \A c \in Conn : \A x : Len(Append(reply[c], x)) = Len(reply[c]) + 1
    BY AppendProperties
  <2>1. ASSUME NEW c \in Conn, NEW r \in Request, Issue(c, r) PROVE OneReply'
    BY <2>1 DEF Issue
  <2>2. ASSUME NEW c \in Conn, Acquire(c) \/ TryWait(c) \/ Retry(c) \/ Kill(c) \/ Join(c)
        PROVE  OneReply'
    BY <2>2 DEF Acquire, TryWait, Retry, Kill, Join
  <2>3. ASSUME NEW c \in Conn, HelperWait(c) \/ HelperRelock(c) \/ Fire(c) PROVE OneReply'
    BY <2>3 DEF HelperWait, HelperRelock, Fire
  <2>4. ASSUME NEW c \in Conn, RunTx(c) PROVE OneReply'
    BY <2>0, <2>4 DEF RunTx
  <2>5. ASSUME NEW c \in Conn, RunDirect(c) PROVE OneReply'
    BY <2>0, <2>5 DEF RunDirect
  <2>6. ASSUME NEW c \in Conn, TryDone(c) PROVE OneReply'
    BY <2>0, <2>6 DEF TryDone
  <2>7. ASSUME NEW c \in Conn, TimeOut(c) PROVE OneReply'
    BY <2>0, <2>7 DEF TimeOut
  <2>8. ASSUME NEW c \in Conn, Release(c) PROVE OneReply'
    BY <2>8, EmptySeq DEF Release
  <2>9. CASE UNCHANGED vars
    BY <2>9 DEF vars
  <2> QED BY <2>1, <2>2, <2>3, <2>4, <2>5, <2>6, <2>7, <2>8, <2>9 DEF Next, Step
<1> QED BY <1>1, <1>2, TypeCorrect, PTL DEF Spec
-----------------------------------------------------------------------------
(***************************************************************************)
(* Wake-ups.  ServedUnlessSilent is not inductive: a helper that joins the  *)
(* wait list must not join it with its callback able to succeed.  It cannot, *)
(* because the mutex stays locked from the failed callback until the helper *)
(* is on the list.                                                          *)
(***************************************************************************)
SpawnedUnserved ==
    \A c \in Conn : pc[c] = "select" /\ helper[c] = "spawned" => ~Cb(req[c], db).done

WaitersBlock == \A c \in Conn : Waiting(c) => req[c].op \in BlockingOps

WakeInv == TypeOK /\ LockHandOff /\ WaitersBlock /\ SpawnedUnserved /\ ServedUnlessSilent

\* A request that can be answered on a database with fewer lists can be answered
\* on the larger one: waiting depends on which keys exist, not on what they hold.
LEMMA DoneMonotone ==
    ASSUME NEW r \in Request, r.op \in BlockingOps, NEW d \in Dbs, NEW e \in Dbs,
           \A k \in Key : e[k] # <<>> => d[k] # <<>>,
           Cb(r, e).done
    PROVE  Cb(r, d).done
<1> USE DEF Waits, Answers
<1>1. CASE r.op = "bpop"
  <2>1. \A x : Cb(r, x) = PopCb(r, x)
    BY <1>1, Zenon DEF Cb, PopOps, MoveOps, PushOps
  <2>2. \A x : PopCb(r, x).done <=> Hits(r, x) # {}
    BY DEF PopCb
  <2>3. \A i \in 1..Len(r.keys) : r.keys[i] \in Key
    BY RequestType, LenProperties, ElementOfSeq
  <2>4. Hits(r, e) # {} => Hits(r, d) # {}
    BY <2>3 DEF Hits
  <2> QED BY <2>1, <2>2, <2>4
<1>2. CASE r.op = "brpoplpush"
  <2>1. \A x : Cb(r, x) = MoveCb(r, x)
    BY <1>2, Zenon DEF Cb, PopOps, MoveOps, PushOps
  <2>2. \A x : MoveCb(r, x).done <=> x[r.keys[1]] # <<>>
    BY DEF MoveCb
  <2> QED BY <2>1, <2>2, RequestType
<1> QED BY <1>1, <1>2 DEF BlockingOps

\* A pop makes no key appear.
LEMMA PopShrinks ==
    ASSUME NEW r \in Request, r.op \in PopOps, NEW d \in Dbs, NEW k \in Key,
           Cb(r, d).db[k] # <<>>
    PROVE  d[k] # <<>>
<1>1. Cb(r, d) = PopCb(r, d)
  BY Zenon DEF Cb, PopOps, MoveOps, PushOps
<1>2. CASE Hits(r, d) = {}
  BY <1>1, <1>2 DEF PopCb, Waits
<1>3. CASE Hits(r, d) # {}
  <2> DEFINE h == r.keys[FirstHit(r, d)]
  <2>1. h \in Key /\ d[h] # <<>>
    BY <1>3, FirstHitIsHit, RequestType, LenProperties, ElementOfSeq DEF Hits
  <2>2. k # h => Cb(r, d).db[k] = d[k]
    BY <1>1, <1>3, <2>1 DEF PopCb, Answers, Dbs
  <2> QED BY <2>1, <2>2
<1> QED BY <1>2, <1>3

\* Every step keeps the invariant of the wake-ups.
LEMMA WakeStep ==
    ASSUME WakeInv, [Next]_vars
    PROVE  WakeInv'
<1> USE DEF WakeInv
<1>0. TypeOK' /\ LockHandOff'
  BY TypeStep, LockStep
<1> DEFINE Goal == WaitersBlock' /\ SpawnedUnserved' /\ ServedUnlessSilent'
<1> USE DEF TypeOK, Goto, WaitersBlock, Waiting, SpawnedUnserved, ServedUnlessSilent, CouldBeServed
\* Only the holder of the mutex changes the keys, and then no helper is about to
\* join the wait list.
<1>2. \A c, d \in Conn : pc[c] = "run" /\ pc[d] = "select" => helper[d] # "spawned"
  BY DEF LockHandOff, Holds
<1>3. ASSUME NEW c \in Conn, NEW r \in Request, Issue(c, r) PROVE Goal
  BY <1>3 DEF Issue
<1>4. ASSUME NEW c \in Conn, Acquire(c) PROVE Goal
  BY <1>4 DEF Acquire
<1>5. ASSUME NEW c \in Conn, RunTx(c) PROVE Goal
  <2>1. \A d \in Conn : helper'[d] # "parked"
    BY <1>5 DEF RunTx, Woken
  <2>2. \A d \in Conn : pc'[d] = "select" => pc[d] = "select" /\ helper'[d] # "spawned"
    BY <1>2, <1>5 DEF RunTx, Woken
  <2>3. WaitersBlock'
    BY <1>5 DEF RunTx
  <2> QED BY <2>1, <2>2, <2>3
<1>6. ASSUME NEW c \in Conn, RunDirect(c) PROVE Goal
  <2>1. \A d \in Conn : pc'[d] = "select" => pc[d] = "select" /\ helper'[d] # "spawned"
    BY <1>2, <1>6 DEF RunDirect
  <2>2. WaitersBlock'
    BY <1>6 DEF RunDirect
  <2>3. db' # db => silent'
    BY <1>6 DEF RunDirect
  <2>4. db' = db => ServedUnlessSilent'
    BY <1>6, <2>1 DEF RunDirect
  <2> QED BY <2>1, <2>2, <2>3, <2>4
<1>7. ASSUME NEW c \in Conn, TryDone(c) PROVE Goal
  <2>1. \A d \in Conn : pc'[d] = "select" => pc[d] = "select" /\ helper'[d] # "spawned"
    BY <1>2, <1>7 DEF TryDone
  <2>2. WaitersBlock'
    BY <1>7 DEF TryDone
  <2>3. CASE req[c].op \in MoveOps
    <3>1. db' # db => silent'
      BY <1>7, <2>3 DEF TryDone
    <3>2. db' = db => ServedUnlessSilent'
      BY <1>7, <2>1 DEF TryDone
    <3> QED BY <2>1, <2>2, <3>1, <3>2
  <2>4. CASE req[c].op \notin MoveOps
    <3>1. req[c].op \in PopOps
      BY <1>7, <2>4 DEF TryDone, BlockingOps, PopOps, MoveOps
    <3>2. \A k \in Key : db'[k] # <<>> => db[k] # <<>>
      BY <1>7, <3>1, PopShrinks DEF TryDone, Dbs
    <3>3. \A d \in Conn : pc[d] = "select" /\ Cb(req[d], db').done => Cb(req[d], db).done
      BY <1>0, <3>2, DoneMonotone DEF Dbs
    <3>4. ServedUnlessSilent'
      BY <1>7, <2>1, <2>4, <3>3 DEF TryDone
    <3> QED BY <2>1, <2>2, <3>4
  <2> QED BY <2>3, <2>4
<1>8. ASSUME NEW c \in Conn, TryWait(c) PROVE Goal
  BY <1>8 DEF TryWait
<1>9. ASSUME NEW c \in Conn, Retry(c) PROVE Goal
  BY <1>9 DEF Retry
<1>10. ASSUME NEW c \in Conn, TimeOut(c) PROVE Goal
  BY <1>10 DEF TimeOut
<1>11. ASSUME NEW c \in Conn, Kill(c) PROVE Goal
  <2>1. \A d \in Conn : helper'[d] # "parked"
    BY <1>11 DEF Kill, Woken
  <2>2. WaitersBlock' /\ SpawnedUnserved'
    BY <1>11 DEF Kill, Woken
  <2> QED BY <2>1, <2>2
<1>12. ASSUME NEW c \in Conn, Join(c) PROVE Goal
  BY <1>12 DEF Join
<1>13. ASSUME NEW c \in Conn, Release(c) PROVE Goal
  BY <1>13 DEF Release
<1>14. ASSUME NEW c \in Conn, HelperWait(c) PROVE Goal
  BY <1>14 DEF HelperWait
<1>15. ASSUME NEW c \in Conn, HelperRelock(c) PROVE Goal
  BY <1>15 DEF HelperRelock
<1>16. ASSUME NEW c \in Conn, Fire(c) PROVE Goal
  BY <1>16 DEF Fire
<1>17. ASSUME UNCHANGED vars PROVE Goal
  BY <1>17 DEF vars
<1> HIDE DEF Goal, WakeInv, TypeOK, Goto, WaitersBlock, Waiting, SpawnedUnserved,
            ServedUnlessSilent, CouldBeServed
<1>18. Goal
  BY <1>3, <1>4, <1>5, <1>6, <1>7, <1>8, <1>9, <1>10, <1>11, <1>12,
     <1>13, <1>14, <1>15, <1>16, <1>17 DEF Next, Step
<1> QED BY <1>0, <1>18 DEF Goal, WakeInv

\* No lost wake-up: whatever the interleaving of failed callbacks, helpers,
\* timeouts and broadcasts, a command sleeps beside something it could take only
\* if a list grew without a Broadcast (a BRPOPLPUSH or a direct Push).
THEOREM WakeUps == Spec => []ServedUnlessSilent
<1>1. Init => WakeInv
  BY TypeInit, LockInit
  DEF Init, WakeInv, WaitersBlock, Waiting, SpawnedUnserved, ServedUnlessSilent, CouldBeServed
<1>2. WakeInv /\ [Next]_vars => WakeInv'
  BY WakeStep
<1>3. WakeInv => ServedUnlessSilent
  BY DEF WakeInv
<1> QED BY <1>1, <1>2, <1>3, PTL DEF Spec
-----------------------------------------------------------------------------
(***************************************************************************)
(* No element is lost or delivered twice.  Counting the places of an        *)
(* element is not inductive: the invariant says where else it is not.  No   *)
(* list holds an element twice and no two lists share one; an element is    *)
(* with the clients, in a list, or carried by one connection, and only one  *)
(* of them; and a command that timed out carries a null, never an element.  *)
(***************************************************************************)
Elems(l) == {l[i] : i \in DOMAIN l}
NoDup(l) == \A i, j \in DOMAIN l : l[i] = l[j] => i = j

Listed(d) == UNION {ListElems(d, k) : k \in Key}

Tidy(d) ==
    /\ \A k \in Key : d[k] # SetKey => NoDup(d[k])
    /\ \A j, k \in Key : j # k => ListElems(d, j) \cap ListElems(d, k) = {}

Pushing(c, e) == pc[c] \in {"lock", "run"} /\ req[c].op \in PushOps /\ req[c].elem = e
Popped(c, e)  == pc[c] = "release" /\ req[c].op \in PopOps /\ reply[c] = <<e>>
Carries(c, e) == Pushing(c, e) \/ Popped(c, e)

OneSpot(e) ==
    /\ e \in fresh \/ e \in Listed(db) \/ \E c \in Conn : Carries(c, e)
    /\ ~(e \in fresh /\ e \in Listed(db))
    /\ \A c \in Conn : Carries(c, e) => e \notin fresh /\ e \notin Listed(db)
    /\ \A c, d \in Conn : Carries(c, e) /\ Carries(d, e) => c = d

TimedOutNull == \A c \in Conn : pc[c] \in {"kill", "join"} => reply[c] = <<"null">>

OnceInv == TimedOutNull /\ Tidy(db) /\ \A e \in Elem : OneSpot(e)

\* A push adds its element to the list.
LEMMA PutElems ==
    ASSUME NEW l \in Seq(Elem), NEW e \in Elem, NEW lr, NoDup(l), e \notin Elems(l)
    PROVE  NoDup(Put(l, e, lr)) /\ Elems(Put(l, e, lr)) = Elems(l) \cup {e}
<1> DEFINE n == Len(l)
<1>1. n \in Nat /\ DOMAIN l = 1..n
  BY LenProperties
<1>2. \A i \in 1..n : l[i] # e
  BY <1>1 DEF Elems
<1>3. CASE lr = "left"
  <2> DEFINE p == <<e>> \o l
  <2>1. Put(l, e, lr) = p
    BY <1>3 DEF Put
  <2>2. /\ p \in Seq(Elem) /\ Len(p) = n + 1
        /\ \A i \in 1..(n + 1) : p[i] = IF i = 1 THEN e ELSE l[i - 1]
    <3>1. <<e>> \in Seq(Elem) /\ Len(<<e>>) = 1 /\ <<e>>[1] = e
      OBVIOUS
    <3>2. /\ p \in Seq(Elem) /\ Len(p) = 1 + n
          /\ \A i \in 1..(1 + n) : p[i] = IF i <= 1 THEN <<e>>[i] ELSE l[i - 1]
      BY <3>1, ConcatProperties
    <3> HIDE DEF p
    <3> QED BY <1>1, <3>1, <3>2
  <2> HIDE DEF p, n
  <2>3. DOMAIN p = 1..(n + 1)
    BY <2>2, LenProperties
  <2>4. p[1] = e /\ 1 \in 1..(n + 1)
    BY <1>1, <2>2
  <2>5. ASSUME NEW i \in 1..n PROVE i + 1 \in 1..(n + 1) /\ p[i + 1] = l[i]
    <3> DEFINE j == i + 1
    <3>1. j \in 1..(n + 1) /\ j # 1 /\ j - 1 = i
      BY <1>1
    <3> HIDE DEF j
    <3>2. p[j] = l[i]
      BY <2>2, <3>1
    <3> QED BY <3>1, <3>2 DEF j
  <2>6. NoDup(p)
    <3> SUFFICES ASSUME NEW i \in 1..(n + 1), NEW j \in 1..(n + 1), p[i] = p[j] PROVE i = j
      BY <2>3 DEF NoDup
    <3>1. /\ i # 1 => i - 1 \in 1..n /\ p[i] = l[i - 1]
          /\ j # 1 => j - 1 \in 1..n /\ p[j] = l[j - 1]
      BY <1>1, <2>2
    <3>2. i = 1 <=> j = 1
      BY <1>2, <2>4, <3>1
    <3>3. i # 1 /\ j # 1 => i - 1 = j - 1
      BY <1>1, <3>1 DEF NoDup
    <3> QED BY <1>1, <3>2, <3>3
  <2>7. Elems(p) \subseteq Elems(l) \cup {e}
    <3> SUFFICES ASSUME NEW i \in 1..(n + 1) PROVE p[i] \in Elems(l) \cup {e}
      BY <2>3 DEF Elems
    <3>1. CASE i = 1
      BY <2>4, <3>1
    <3>2. CASE i # 1
      <4>1. i - 1 \in 1..n /\ p[i] = l[i - 1]
        BY <1>1, <2>2, <3>2
      <4> QED BY <1>1, <4>1 DEF Elems
    <3> QED BY <3>1, <3>2
  <2>8. Elems(l) \cup {e} \subseteq Elems(p)
    <3>1. e \in Elems(p)
      BY <2>3, <2>4 DEF Elems
    <3>2. ASSUME NEW i \in 1..n PROVE l[i] \in Elems(p)
      <4> DEFINE j == i + 1
      <4>1. j \in DOMAIN p /\ p[j] = l[i]
        BY <2>3, <2>5
      <4> HIDE DEF j
      <4> QED BY <4>1 DEF Elems
    <3> QED BY <1>1, <3>1, <3>2 DEF Elems
  <2> QED BY <2>1, <2>6, <2>7, <2>8
<1>4. CASE lr # "left"
  <2> DEFINE p == Append(l, e)
  <2>1. Put(l, e, lr) = p
    BY <1>4 DEF Put
  <2>2. /\ p \in Seq(Elem) /\ Len(p) = n + 1
        /\ \A i \in 1..n : p[i] = l[i]
        /\ p[n + 1] = e
    BY AppendProperties
  <2> HIDE DEF p, n
  <2>3. DOMAIN p = 1..(n + 1)
    BY <2>2, LenProperties
  <2>4. \A i \in 1..(n + 1) : i \in 1..n \/ i = n + 1
    BY <1>1
  <2>5. \A i \in 1..n : i \in 1..(n + 1) /\ i # n + 1
    BY <1>1
  <2>6. n + 1 \in 1..(n + 1)
    BY <1>1
  <2>7. NoDup(p)
    BY <1>1, <1>2, <2>2, <2>3, <2>4 DEF NoDup
  <2>8. Elems(p) = Elems(l) \cup {e}
    BY <1>1, <2>2, <2>3, <2>4, <2>5, <2>6 DEF Elems
  <2> QED BY <2>1, <2>7, <2>8
<1> QED BY <1>3, <1>4

\* A pop takes the element it answers out of the list.
LEMMA RestElems ==
    ASSUME NEW l \in Seq(Elem), l # <<>>, NEW lr, NoDup(l)
    PROVE  /\ NoDup(Rest(l, lr)) /\ EndOf(l, lr) \in Elems(l)
           /\ Elems(Rest(l, lr)) = Elems(l) \ {EndOf(l, lr)}
<1> DEFINE n == Len(l)
<1>1. n \in Nat /\ n > 0 /\ DOMAIN l = 1..n
  BY LenProperties, EmptySeq
<1>2. CASE lr = "left"
  <2> DEFINE p == Tail(l)
  <2>1. Rest(l, lr) = p /\ EndOf(l, lr) = l[1]
    BY <1>2 DEF Rest, EndOf
  <2>2. p \in Seq(Elem) /\ Len(p) = n - 1 /\ \A i \in 1..Len(p) : p[i] = l[i + 1]
    BY HeadTailProperties
  <2> HIDE DEF p, n
  <2>3. DOMAIN p = 1..(n - 1)
    BY <2>2, LenProperties
  <2>4. \A i \in 1..(n - 1) : p[i] = l[i + 1] /\ i + 1 \in 1..n /\ i + 1 # 1
    BY <1>1, <2>2
  <2>5. 1 \in 1..n
    BY <1>1
  <2>6. NoDup(p)
    <3> SUFFICES ASSUME NEW i \in 1..(n - 1), NEW j \in 1..(n - 1), p[i] = p[j] PROVE i = j
      BY <2>3 DEF NoDup
    <3>1. i + 1 = j + 1
      BY <1>1, <2>4 DEF NoDup
    <3> QED BY <1>1, <3>1
  <2>7. Elems(p) \subseteq Elems(l) \ {l[1]}
    <3> SUFFICES ASSUME NEW i \in 1..(n - 1) PROVE p[i] \in Elems(l) /\ p[i] # l[1]
      BY <2>3 DEF Elems
    <3>1. p[i] = l[i + 1] /\ i + 1 \in 1..n /\ i + 1 # 1
      BY <2>4
    <3>2. l[i + 1] # l[1]
      BY <1>1, <2>5, <3>1 DEF NoDup
    <3> QED BY <1>1, <3>1, <3>2 DEF Elems
  <2>8. Elems(l) \ {l[1]} \subseteq Elems(p)
    <3> SUFFICES ASSUME NEW i \in 1..n, i # 1 PROVE l[i] \in Elems(p)
      BY <1>1 DEF Elems
    <3> DEFINE j == i - 1
    <3>1. j \in 1..(n - 1) /\ j + 1 = i
      BY <1>1
    <3> HIDE DEF j
    <3>2. p[j] = l[i]
      BY <2>4, <3>1
    <3> QED BY <2>3, <3>1, <3>2 DEF Elems
  <2>9. l[1] \in Elems(l)
    BY <1>1, <2>5 DEF Elems
  <2> QED BY <2>1, <2>6, <2>7, <2>8, <2>9
<1>3. CASE lr # "left"
  <2> DEFINE p == SubSeq(l, 1, n - 1)
  <2>1. Rest(l, lr) = p /\ EndOf(l, lr) = l[n]
    BY <1>3 DEF Rest, EndOf
  <2>2. p \in Seq(Elem) /\ Len(p) = n - 1 /\ \A i \in 1..(n - 1) : p[i] = l[i]
    <3>1. \A i \in 1..(n - 1) : l[i] \in Elem
      BY <1>1, ElementOfSeq
    <3>2. 1 \in Int /\ n - 1 \in Int
      BY <1>1
    <3>3. /\ p \in Seq(Elem) /\ Len(p) = IF 1 <= n - 1 THEN (n - 1) - 1 + 1 ELSE 0
          /\ \A i \in 1..((n - 1) - 1 + 1) : p[i] = l[1 + i - 1]
      BY <3>1, <3>2, SubSeqProperties
    <3> HIDE DEF p, n
    <3>4. Len(p) = n - 1
      <4>1. CASE 1 <= n - 1
        BY <1>1, <3>3, <4>1
      <4>2. CASE ~(1 <= n - 1)
        BY <1>1, <3>3, <4>2
      <4> QED BY <4>1, <4>2
    <3>5. ASSUME NEW i \in 1..(n - 1) PROVE p[i] = l[i]
      <4>1. i \in 1..((n - 1) - 1 + 1) /\ 1 + i - 1 = i
        BY <1>1
      <4>2. p[i] = l[1 + i - 1]
        BY <3>3, <4>1
      <4> QED BY <4>1, <4>2
    <3> QED BY <3>3, <3>4, <3>5
  <2> HIDE DEF p, n
  <2>3. DOMAIN p = 1..(n - 1)
    BY <2>2, LenProperties
  <2>4. \A i \in 1..n : i \in 1..(n - 1) \/ i = n
    BY <1>1
  <2>5. \A i \in 1..(n - 1) : i \in 1..n /\ i # n
    BY <1>1
  <2>6. n \in 1..n
    BY <1>1
  <2>7. NoDup(p)
    BY <1>1, <2>2, <2>3, <2>5 DEF NoDup
  <2>8. \A i \in 1..(n - 1) : l[i] # l[n]
    BY <1>1, <2>5, <2>6 DEF NoDup
  <2>9. Elems(p) = Elems(l) \ {l[n]}
    BY <1>1, <2>2, <2>3, <2>4, <2>5, <2>8 DEF Elems
  <2>10. l[n] \in Elems(l)
    BY <1>1, <2>6 DEF Elems
  <2> QED BY <2>1, <2>7, <2>9, <2>10
<1> QED BY <1>2, <1>3

\* An element is listed when some key's list holds it.
LEMMA ListedIn ==
    ASSUME NEW d, NEW y
    PROVE  (y \in Listed(d)) <=> (\E k \in Key : y \in ListElems(d, k))
BY Zenon DEF Listed

\* e is d with the elements S taken out of the list at k.
Taken(d, e, k, S) ==
    /\ S \subseteq ListElems(d, k)
    /\ \A j \in Key : j # k => e[j] = d[j]
    /\ e[k] # SetKey => NoDup(e[k])
    /\ ListElems(e, k) = ListElems(d, k) \ S

\* Taking elements out of one list leaves the others alone.
LEMMA TakeFromOne ==
    ASSUME NEW d, NEW e, NEW k \in Key, NEW S, Tidy(d), Taken(d, e, k, S)
    PROVE  Tidy(e) /\ Listed(e) = Listed(d) \ S
<1> USE DEF Taken
<1>1. \A j \in Key : j # k => ListElems(e, j) = ListElems(d, j)
  BY DEF ListElems
<1>2. \A j \in Key : j # k => ListElems(d, j) \cap S = {}
  BY DEF Tidy
<1>3. \A j \in Key : ListElems(e, j) = ListElems(d, j) \ S
  BY <1>1, <1>2
<1>4. \A j \in Key : e[j] # SetKey => NoDup(e[j])
  BY DEF Tidy
<1>5. \A i, j \in Key : i # j => ListElems(d, i) \cap ListElems(d, j) = {}
  BY DEF Tidy
<1>6. \A i, j \in Key : i # j => ListElems(e, i) \cap ListElems(e, j) = {}
  BY <1>3, <1>5
<1>7. Listed(e) = Listed(d) \ S
  <2>1. \A y : (y \in Listed(e)) <=> (y \in Listed(d) /\ y \notin S)
    BY <1>3, ListedIn
  <2> QED BY <2>1
<1> QED BY <1>4, <1>6, <1>7 DEF Tidy

\* e is d with x added to the list at k.
Added(d, e, k, x) ==
    /\ \A j \in Key : j # k => e[j] = d[j]
    /\ e[k] # SetKey => NoDup(e[k])
    /\ ListElems(e, k) = ListElems(d, k) \cup {x}

\* Adding an element that no list holds to one list leaves the others alone.
LEMMA AddToOne ==
    ASSUME NEW d, NEW e, NEW k \in Key, NEW x, Tidy(d), x \notin Listed(d), Added(d, e, k, x)
    PROVE  Tidy(e) /\ Listed(e) = Listed(d) \cup {x}
<1> USE DEF Added
<1>1. \A j \in Key : j # k => ListElems(e, j) = ListElems(d, j)
  BY DEF ListElems
<1>2. \A j \in Key : x \notin ListElems(d, j)
  BY DEF Listed
<1>4. \A j \in Key : e[j] # SetKey => NoDup(e[j])
  BY DEF Tidy
<1>5. \A i, j \in Key : i # j => ListElems(d, i) \cap ListElems(d, j) = {}
  BY DEF Tidy
<1>6. \A i, j \in Key : i # j => ListElems(e, i) \cap ListElems(e, j) = {}
  BY <1>1, <1>2, <1>5
<1>7. Listed(e) = Listed(d) \cup {x}
  <2>1. \A j \in Key : ListElems(e, j) \subseteq ListElems(d, j) \cup {x}
    BY <1>1
  <2>2. \A j \in Key : ListElems(d, j) \subseteq ListElems(e, j)
    BY <1>1
  <2>3. x \in ListElems(e, k)
    OBVIOUS
  <2>4. \A y : (y \in Listed(e)) <=> (y \in Listed(d) \/ y = x)
    BY <2>1, <2>2, <2>3, ListedIn
  <2> QED BY <2>4
<1> QED BY <1>4, <1>6, <1>7 DEF Tidy

\* The list at k after a pop, and after a push.
PopAt(d, k, lr)     == [d EXCEPT ![k] = Rest(d[k], lr)]
PushAt(d, k, x, lr) == [d EXCEPT ![k] = Put(d[k], x, lr)]

\* The pop of one list: its answer leaves the lists.
LEMMA PopOne ==
    ASSUME NEW d \in Dbs, Tidy(d), NEW k \in Key, d[k] # SetKey, d[k] # <<>>, NEW lr
    PROVE  /\ PopAt(d, k, lr) \in Dbs /\ Tidy(PopAt(d, k, lr)) /\ EndOf(d[k], lr) \in Listed(d)
           /\ Listed(PopAt(d, k, lr)) = Listed(d) \ {EndOf(d[k], lr)}
<1> DEFINE e == PopAt(d, k, lr)
           x == EndOf(d[k], lr)
<1>1. d[k] \in Seq(Elem) /\ NoDup(d[k])
  BY DEF Dbs, Tidy
<1>2. /\ NoDup(Rest(d[k], lr)) /\ x \in Elems(d[k])
      /\ Elems(Rest(d[k], lr)) = Elems(d[k]) \ {x}
  BY <1>1, RestElems
<1>3. Rest(d[k], lr) \in Seq(Elem)
  <2>1. \E y : y \in Elem
    BY <1>1, EmptySeq, LenProperties, ElementOfSeq
  <2> QED BY <1>1, <2>1, ListType
<1>4. Rest(d[k], lr) # SetKey
  BY <1>3, BlockingAssumption
<1>5. e \in Dbs /\ e[k] = Rest(d[k], lr) /\ \A j \in Key : j # k => e[j] = d[j]
  BY <1>3 DEF Dbs, PopAt
<1>6. ListElems(e, k) = ListElems(d, k) \ {x} /\ x \in ListElems(d, k)
  BY <1>2, <1>4, <1>5 DEF ListElems, Elems
<1> HIDE DEF e, x
<1>7. Tidy(e) /\ Listed(e) = Listed(d) \ {x}
  <2>1. Taken(d, e, k, {x})
    BY <1>2, <1>5, <1>6 DEF Taken
  <2> QED BY <2>1, TakeFromOne
<1>8. x \in Listed(d)
  BY <1>6, Zenon DEF Listed
<1> QED BY <1>5, <1>7, <1>8 DEF e, x

\* The push to one list of an element no list holds.
LEMMA PushOne ==
    ASSUME NEW d \in Dbs, Tidy(d), NEW k \in Key, d[k] # SetKey, NEW lr,
           NEW x \in Elem, x \notin Listed(d)
    PROVE  Tidy(PushAt(d, k, x, lr)) /\ Listed(PushAt(d, k, x, lr)) = Listed(d) \cup {x}
<1> DEFINE e == PushAt(d, k, x, lr)
<1>1. d[k] \in Seq(Elem) /\ NoDup(d[k])
  BY DEF Dbs, Tidy
<1>2. ListElems(d, k) = Elems(d[k])
  BY DEF ListElems, Elems
<1>3. x \notin Elems(d[k])
  BY <1>2, Zenon DEF Listed
<1>4. NoDup(Put(d[k], x, lr)) /\ Elems(Put(d[k], x, lr)) = Elems(d[k]) \cup {x}
  BY <1>1, <1>3, PutElems
<1>5. Put(d[k], x, lr) \in Seq(Elem) /\ Put(d[k], x, lr) # SetKey
  BY <1>1, ListType, BlockingAssumption
<1>6. e[k] = Put(d[k], x, lr) /\ \A j \in Key : j # k => e[j] = d[j]
  BY DEF Dbs, PushAt
<1>7. ListElems(e, k) = ListElems(d, k) \cup {x}
  BY <1>2, <1>4, <1>5, <1>6 DEF ListElems, Elems
<1>8. NoDup(e[k])
  BY <1>4, <1>6
<1> HIDE DEF e
<1>9. Added(d, e, k, x)
  BY <1>6, <1>7, <1>8 DEF Added
<1>10. Tidy(e) /\ Listed(e) = Listed(d) \cup {x}
  BY <1>9, AddToOne
<1> QED BY <1>10 DEF e

\* A pop answers an element that leaves the lists with it, or changes nothing.
LEMMA PopMoves ==
    ASSUME NEW r \in Request, r.op \in PopOps, NEW d \in Dbs, Tidy(d)
    PROVE  \/ Cb(r, d).db = d /\ Cb(r, d).reply \notin Elem
           \/ /\ Tidy(Cb(r, d).db) /\ Cb(r, d).reply \in Listed(d)
              /\ Listed(Cb(r, d).db) = Listed(d) \ {Cb(r, d).reply}
<1>1. Cb(r, d) = PopCb(r, d)
  BY Zenon DEF Cb, PopOps, MoveOps, PushOps
<1>2. CASE Hits(r, d) = {}
  BY <1>1, <1>2, ReplyAssumption DEF PopCb, Waits
<1>3. CASE Hits(r, d) # {}
  <2> DEFINE k == r.keys[FirstHit(r, d)]
  <2>1. k \in Key /\ d[k] # <<>>
    BY <1>3, FirstHitIsHit, RequestType, LenProperties, ElementOfSeq DEF Hits
  <2>2. CASE d[k] = SetKey
    BY <1>1, <1>3, <2>2, ReplyAssumption DEF PopCb, Answers
  <2>3. CASE d[k] # SetKey
    <3>1. Cb(r, d) = Answers([d EXCEPT ![k] = Rest(d[k], r.lr)], EndOf(d[k], r.lr))
      BY <1>1, <1>3, <2>3 DEF PopCb
    <3> HIDE DEF k
    <3>2. Cb(r, d).db = PopAt(d, k, r.lr) /\ Cb(r, d).reply = EndOf(d[k], r.lr)
      BY <3>1 DEF Answers, PopAt
    <3> QED BY <2>1, <2>3, <3>2, PopOne
  <2> QED BY <2>2, <2>3
<1> QED BY <1>2, <1>3

\* A rotation takes its element out of one list and puts it in one, also when
\* source and destination are the same list.
LEMMA MoveMoves ==
    ASSUME NEW r \in Request, r.op \in MoveOps, NEW d \in Dbs, Tidy(d)
    PROVE  Tidy(Cb(r, d).db) /\ Listed(Cb(r, d).db) = Listed(d)
<1> DEFINE src == r.keys[1]
           dst == r.keys[2]
           d1  == PopAt(d, src, "right")
           x   == EndOf(d[src], "right")
<1>1. Cb(r, d) = MoveCb(r, d)
  BY Zenon DEF Cb, PopOps, MoveOps, PushOps
<1>2. src \in Key /\ dst \in Key
  BY RequestType
<1>3. CASE d[src] = <<>> \/ d[src] = SetKey \/ d[dst] = SetKey
  BY <1>1, <1>3 DEF MoveCb, Answers, Waits
<1>4. CASE d[src] # <<>> /\ d[src] # SetKey /\ d[dst] # SetKey
  <2>1. Cb(r, d).db = PushAt(d1, dst, x, "left")
    BY <1>1, <1>4 DEF MoveCb, Answers, PopAt, PushAt
  <2>2. d1 \in Dbs /\ Tidy(d1) /\ x \in Listed(d) /\ Listed(d1) = Listed(d) \ {x}
    BY <1>2, <1>4, PopOne
  <2>3. d[src] \in Seq(Elem)
    BY <1>2, <1>4 DEF Dbs
  <2>4. x \in Elem
    <3>1. \E y : y \in Elem
      BY <1>4, <2>3, EmptySeq, LenProperties, ElementOfSeq
    <3> QED BY <1>4, <2>3, <3>1, ListType
  <2>5. Rest(d[src], "right") # SetKey
    BY <1>4, <2>3, <2>4, ListType, BlockingAssumption
  <2>6. d1[dst] # SetKey
    BY <1>2, <1>4, <2>5 DEF Dbs, PopAt
  <2> HIDE DEF d1, x
  <2>7. x \notin Listed(d1)
    BY <2>2
  <2>8. /\ Tidy(PushAt(d1, dst, x, "left"))
        /\ Listed(PushAt(d1, dst, x, "left")) = Listed(d1) \cup {x}
    BY <1>2, <2>2, <2>4, <2>6, <2>7, PushOne
  <2> QED BY <2>1, <2>2, <2>8
<1> QED BY <1>3, <1>4

\* A push adds its element, or is refused and changes nothing.
LEMMA PushMoves ==
    ASSUME NEW r \in Request, r.op \in PushOps, NEW d \in Dbs, Tidy(d),
           r.elem \notin Listed(d)
    PROVE  \/ Cb(r, d).db = d /\ Cb(r, d).reply = "wrongtype"
           \/ /\ Tidy(Cb(r, d).db) /\ Cb(r, d).reply = "ok"
              /\ Listed(Cb(r, d).db) = Listed(d) \cup {r.elem}
<1> DEFINE k == r.keys[1]
<1>1. Cb(r, d) = PushCb(r, d)
  BY Zenon DEF Cb, PopOps, MoveOps, PushOps
<1>2. k \in Key /\ r.elem \in Elem
  BY RequestType
<1>3. CASE d[k] = SetKey
  BY <1>1, <1>3 DEF PushCb, Answers
<1>4. CASE d[k] # SetKey
  <2>1. Cb(r, d).db = PushAt(d, k, r.elem, r.lr) /\ Cb(r, d).reply = "ok"
    BY <1>1, <1>4 DEF PushCb, Answers, PushAt
  <2> HIDE DEF k
  <2> QED BY <1>2, <1>4, <2>1, PushOne
<1> QED BY <1>3, <1>4

\* SADD finds no list element to overwrite.
LEMMA SaddMoves ==
    ASSUME NEW r \in Request, r.op = "sadd", NEW d \in Dbs, Tidy(d)
    PROVE  Tidy(Cb(r, d).db) /\ Listed(Cb(r, d).db) = Listed(d)
<1> DEFINE k == r.keys[1]
<1>1. Cb(r, d) = SaddCb(r, d)
  BY DEF Cb, PopOps, MoveOps, PushOps
<1>2. k \in Key
  BY RequestType
<1>3. CASE d[k] \notin {<<>>, SetKey}
  BY <1>1, <1>3 DEF SaddCb, Answers
<1>4. CASE d[k] \in {<<>>, SetKey}
  <2> DEFINE e == [d EXCEPT ![k] = SetKey]
  <2>1. Cb(r, d).db = e
    BY <1>1, <1>4 DEF SaddCb, Answers
  <2>2. e[k] = SetKey /\ \A j \in Key : j # k => e[j] = d[j]
    BY <1>2 DEF Dbs
  <2>3. DOMAIN <<>> = {}
    OBVIOUS
  <2>4. ListElems(d, k) = {}
    BY <1>4, <2>3 DEF ListElems
  <2>5. ListElems(e, k) = {}
    BY <2>2 DEF ListElems
  <2> HIDE DEF e, k
  <2>6. Taken(d, e, k, {})
    BY <2>2, <2>4, <2>5 DEF Taken
  <2>7. Tidy(e) /\ Listed(e) = Listed(d) \ {}
    BY <1>2, <2>6, TakeFromOne
  <2> QED BY <2>1, <2>7
<1> QED BY <1>3, <1>4

\* DEL takes out exactly the elements of its list.
LEMMA DelMoves ==
    ASSUME NEW r \in Request, r.op = "del", NEW d \in Dbs, Tidy(d)
    PROVE  /\ Tidy(Cb(r, d).db) /\ ListElems(d, r.keys[1]) \subseteq Listed(d)
           /\ Listed(Cb(r, d).db) = Listed(d) \ ListElems(d, r.keys[1])
<1> DEFINE k == r.keys[1]
           e == [d EXCEPT ![k] = <<>>]
<1>1. Cb(r, d).db = e
  BY DEF Cb, PopOps, MoveOps, PushOps, DelCb, Answers
<1>2. k \in Key
  BY RequestType
<1>3. e[k] = <<>> /\ \A j \in Key : j # k => e[j] = d[j]
  BY <1>2 DEF Dbs
<1>4. DOMAIN <<>> = {}
  OBVIOUS
<1>5. ListElems(e, k) = {} /\ NoDup(e[k])
  BY <1>3, <1>4 DEF ListElems, NoDup
<1> HIDE DEF e, k
<1>6. Taken(d, e, k, ListElems(d, k))
  BY <1>3, <1>5 DEF Taken
<1>7. Tidy(e) /\ Listed(e) = Listed(d) \ ListElems(d, k)
  BY <1>2, <1>6, TakeFromOne
<1>8. ListElems(d, k) \subseteq Listed(d)
  BY <1>2, Zenon DEF Listed
<1> QED BY <1>1, <1>7, <1>8 DEF k
-----------------------------------------------------------------------------
\* A step of c moves element e between the clients, the lists and c, and leaves
\* what the other connections carry alone: if it was in one place, it is in one.
LEMMA SpotMoves ==
    ASSUME NEW c \in Conn, NEW e, OneSpot(e),
           \A d \in Conn \ {c} : Carries(d, e)' <=> Carries(d, e),
           (e \in fresh' \/ e \in Listed(db') \/ Carries(c, e)')
             <=> (e \in fresh \/ e \in Listed(db) \/ Carries(c, e)),
           ~(e \in fresh' /\ e \in Listed(db')),
           Carries(c, e)' => e \notin fresh' /\ e \notin Listed(db')
    PROVE  OneSpot(e)'
<1>1. \A d \in Conn : Carries(d, e)' => e \notin fresh' /\ e \notin Listed(db')
  <2> SUFFICES ASSUME NEW d \in Conn, d # c, Carries(d, e)
               PROVE  e \notin fresh' /\ e \notin Listed(db')
    OBVIOUS
  <2>1. e \notin fresh /\ e \notin Listed(db) /\ ~Carries(c, e)
    BY DEF OneSpot
  <2> QED BY <2>1
<1>2. \A d \in Conn : Carries(d, e)' /\ Carries(c, e)' => d = c
  <2> SUFFICES ASSUME NEW d \in Conn, d # c, Carries(d, e) PROVE ~Carries(c, e)'
    OBVIOUS
  <2>1. e \notin fresh /\ e \notin Listed(db) /\ ~Carries(c, e)
    BY DEF OneSpot
  <2> QED BY <2>1
<1>3. \A d, f \in Conn : Carries(d, e) /\ Carries(f, e) => d = f
  BY DEF OneSpot
<1>4. \A d, f \in Conn : Carries(d, e)' /\ Carries(f, e)' => d = f
  BY <1>2, <1>3
<1>5. e \in fresh' \/ e \in Listed(db') \/ \E d \in Conn : Carries(d, e)'
  BY DEF OneSpot
<1> QED BY <1>1, <1>4, <1>5 DEF OneSpot

\* A connection that writes a first reply has written that reply and no other.
LEMMA FirstReply ==
    ASSUME TypeOK, OneReply, NEW c \in Conn, pc[c] \in {"run", "select"}, NEW x
    PROVE  Append(reply[c], x) = <<x>>
<1>1. reply[c] \in Seq(Replies) /\ Len(reply[c]) = 0
  BY DEF TypeOK, OneReply
<1>2. reply[c] = <<>>
  BY <1>1, EmptySeq
<1> QED BY <1>2

\* The callback of c: whichever command it is, the element stays in one place.
LEMMA RunKeepsSpots ==
    ASSUME TypeOK, OneReply, OnceInv, NEW c \in Conn,
           pc[c] = "run", pc' = [pc EXCEPT ![c] = "release"], req' = req,
           reply' = [reply EXCEPT ![c] = Append(@, Cb(req[c], db).reply)],
           db' = Cb(req[c], db).db,
           fresh' = fresh \cup HandedBack(req[c], Cb(req[c], db))
    PROVE  Tidy(db') /\ \A e \in Elem : OneSpot(e)'
<1> DEFINE r == req[c]
           o == Cb(req[c], db)
           h == HandedBack(req[c], Cb(req[c], db))
<1>1. r \in Request /\ db \in Dbs /\ r.elem \in Elem
  BY RequestType DEF TypeOK, Dbs
<1>2. /\ pc'[c] = "release" /\ req'[c] = r /\ reply'[c] = <<o.reply>>
      /\ \A d \in Conn \ {c} : pc'[d] = pc[d] /\ req'[d] = req[d] /\ reply'[d] = reply[d]
  BY FirstReply DEF TypeOK
<1>3. \A e : \A d \in Conn \ {c} : Carries(d, e)' <=> Carries(d, e)
  BY <1>2 DEF Carries, Pushing, Popped
<1>4. \A e : Carries(c, e) <=> r.op \in PushOps /\ r.elem = e
  BY DEF Carries, Pushing, Popped
<1>5. \A e : Carries(c, e)' <=> r.op \in PopOps /\ o.reply = e
  BY <1>2 DEF Carries, Pushing, Popped
<1>6. Tidy(db) /\ \A e \in Elem : OneSpot(e)
  BY DEF OnceInv
<1>7. \A e \in Elem : /\ ~(e \in fresh /\ e \in Listed(db))
                      /\ Carries(c, e) => e \notin fresh /\ e \notin Listed(db)
  BY <1>6 DEF OneSpot
<1>8. db' = o.db /\ fresh' = fresh \cup h
  OBVIOUS
<1> HIDE DEF o, h, r
<1>9. SUFFICES ASSUME NEW e \in Elem
               PROVE  /\ Tidy(db')
                      /\ (e \in fresh' \/ e \in Listed(db') \/ Carries(c, e)')
                            <=> (e \in fresh \/ e \in Listed(db) \/ Carries(c, e))
                      /\ ~(e \in fresh' /\ e \in Listed(db'))
                      /\ Carries(c, e)' => e \notin fresh' /\ e \notin Listed(db')
  <2>1. r.elem \in Elem
    BY <1>1
  <2>2. Tidy(db')
    BY <1>9, <2>1
  <2>3. ASSUME NEW e \in Elem PROVE OneSpot(e)'
    BY <1>3, <1>6, <1>9, SpotMoves
  <2> QED BY <2>2, <2>3
<1>10. CASE r.op \in PopOps
  <2>1. h = {} /\ r.op \notin PushOps
    BY <1>10 DEF h, r, HandedBack, PopOps, PushOps
  <2>2. \/ o.db = db /\ o.reply \notin Elem
        \/ /\ Tidy(o.db) /\ o.reply \in Listed(db)
           /\ Listed(o.db) = Listed(db) \ {o.reply}
    BY <1>1, <1>6, <1>10, PopMoves DEF o, r
  <2> QED BY <1>4, <1>5, <1>6, <1>7, <1>8, <1>10, <2>1, <2>2
<1>11. CASE r.op \in MoveOps
  <2>1. h = {} /\ r.op \notin PushOps /\ r.op \notin PopOps
    BY <1>11 DEF h, r, HandedBack, PopOps, PushOps, MoveOps
  <2>2. Tidy(o.db) /\ Listed(o.db) = Listed(db)
    BY <1>1, <1>6, <1>11, MoveMoves DEF o, r
  <2> QED BY <1>4, <1>5, <1>7, <1>8, <2>1, <2>2
<1>12. CASE r.op \in PushOps
  <2>1. r.op \notin PopOps
    BY <1>12 DEF PopOps, PushOps
  <2>2. r.elem \notin Listed(db)
    BY <1>1, <1>4, <1>7, <1>12
  <2>3. \/ o.db = db /\ o.reply = "wrongtype"
        \/ /\ Tidy(o.db) /\ o.reply = "ok"
           /\ Listed(o.db) = Listed(db) \cup {r.elem}
    BY <1>1, <1>6, <1>12, <2>2, PushMoves DEF o, r
  <2>4. /\ o.reply = "wrongtype" => h = {r.elem}
        /\ o.reply = "ok" => h = {}
    BY <1>12 DEF h, o, r, HandedBack, PushOps
  <2>5. CASE o.reply = "wrongtype"
    BY <1>4, <1>5, <1>6, <1>7, <1>8, <1>12, <2>1, <2>3, <2>4, <2>5
  <2>6. CASE o.reply = "ok"
    BY <1>4, <1>5, <1>7, <1>8, <1>12, <2>1, <2>2, <2>3, <2>4, <2>6
  <2> QED BY <2>3, <2>5, <2>6
<1>13. CASE r.op = "sadd"
  <2>1. h = {} /\ r.op \notin PushOps /\ r.op \notin PopOps
    BY <1>13 DEF h, r, HandedBack, PopOps, PushOps
  <2>2. Tidy(o.db) /\ Listed(o.db) = Listed(db)
    BY <1>1, <1>6, <1>13, SaddMoves DEF o, r
  <2> QED BY <1>4, <1>5, <1>7, <1>8, <2>1, <2>2
<1>14. CASE r.op = "del"
  <2>1. h = ListElems(db, r.keys[1]) /\ r.op \notin PushOps /\ r.op \notin PopOps
    BY <1>14 DEF h, r, HandedBack, PopOps, PushOps
  <2>2. /\ Tidy(o.db) /\ h \subseteq Listed(db)
        /\ Listed(o.db) = Listed(db) \ h
    BY <1>1, <1>6, <1>14, <2>1, DelMoves DEF o, r
  <2> QED BY <1>4, <1>5, <1>7, <1>8, <2>1, <2>2
<1> QED BY <1>1, <1>10, <1>11, <1>12, <1>13, <1>14, RequestType
        DEF TxOps, DirectOps, BlockingOps, PopOps, MoveOps, PushOps

\* Every step keeps every element in its one place.
LEMMA OnceStep ==
    ASSUME WakeInv, OneReply, OnceInv, [Next]_vars
    PROVE  OnceInv'
<1>1. TypeOK /\ WaitersBlock
  BY DEF WakeInv
<1>2. Tidy(db) /\ TimedOutNull /\ \A e \in Elem : OneSpot(e)
  BY DEF OnceInv
<1> DEFINE Spots == \A e \in Elem : OneSpot(e)'
\* A step that leaves the keys and the fresh elements alone, and what its
\* connection carries, moves no element.
<1>3. ASSUME NEW c \in Conn, db' = db, fresh' = fresh,
             \A d \in Conn \ {c} : pc'[d] = pc[d] /\ req'[d] = req[d] /\ reply'[d] = reply[d],
             \A e \in Elem : Carries(c, e)' <=> Carries(c, e)
      PROVE  Spots
  <2>1. \A e : \A d \in Conn \ {c} : Carries(d, e)' <=> Carries(d, e)
    BY <1>3 DEF Carries, Pushing, Popped
  <2>2. \A e \in Elem : /\ ~(e \in fresh /\ e \in Listed(db))
                        /\ Carries(c, e) => e \notin fresh /\ e \notin Listed(db)
    BY <1>2 DEF OneSpot
  <2> QED BY <1>2, <1>3, <2>1, <2>2, SpotMoves
<1>4. ASSUME NEW c \in Conn, NEW r \in Request, Issue(c, r) PROVE OnceInv'
  <2>1. /\ pc[c] = "idle" /\ pc'[c] = "lock" /\ req'[c] = r /\ db' = db /\ reply' = reply
        /\ \A d \in Conn \ {c} : pc'[d] = pc[d] /\ req'[d] = req[d] /\ reply'[d] = reply[d]
    BY <1>1, <1>4 DEF Issue, Goto, TypeOK
  <2>2. /\ r.op \in PushOps => r.elem \in fresh /\ fresh' = fresh \ {r.elem}
        /\ r.op \notin PushOps => fresh' = fresh
    BY <1>4 DEF Issue
  <2>3. \A e : \A d \in Conn \ {c} : Carries(d, e)' <=> Carries(d, e)
    BY <2>1 DEF Carries, Pushing, Popped
  <2>4. \A e : ~Carries(c, e)
    BY <2>1 DEF Carries, Pushing, Popped
  <2>5. \A e : Carries(c, e)' <=> r.op \in PushOps /\ r.elem = e
    BY <2>1 DEF Carries, Pushing, Popped
  <2>6. ASSUME NEW e \in Elem PROVE OneSpot(e)'
    <3>1. OneSpot(e) /\ ~(e \in fresh /\ e \in Listed(db))
      BY <1>2 DEF OneSpot
    <3>2. /\ (e \in fresh' \/ e \in Listed(db') \/ Carries(c, e)')
                <=> (e \in fresh \/ e \in Listed(db) \/ Carries(c, e))
          /\ ~(e \in fresh' /\ e \in Listed(db'))
          /\ Carries(c, e)' => e \notin fresh' /\ e \notin Listed(db')
      BY <2>1, <2>2, <2>4, <2>5, <3>1
    <3> QED BY <2>3, <3>1, <3>2, SpotMoves
  <2>7. TimedOutNull'
    BY <1>2, <2>1 DEF TimedOutNull
  <2>8. Tidy(db')
    BY <1>2, <2>1
  <2> QED BY <2>6, <2>7, <2>8 DEF OnceInv
<1>5. ASSUME NEW c \in Conn, RunTx(c) \/ RunDirect(c) \/ TryDone(c) PROVE OnceInv'
  <2>1. /\ pc[c] = "run" /\ pc' = [pc EXCEPT ![c] = "release"] /\ req' = req
        /\ reply' = [reply EXCEPT ![c] = Append(@, Cb(req[c], db).reply)]
        /\ db' = Cb(req[c], db).db
    BY <1>5 DEF RunTx, RunDirect, TryDone, Goto
  <2>2. fresh' = fresh \cup HandedBack(req[c], Cb(req[c], db))
    <3>1. CASE RunTx(c) \/ RunDirect(c)
      BY <3>1 DEF RunTx, RunDirect
    <3>2. CASE TryDone(c)
      BY <3>2 DEF TryDone, HandedBack, BlockingOps, PushOps
    <3> QED BY <1>5, <3>1, <3>2
  <2>3. Tidy(db') /\ \A e \in Elem : OneSpot(e)'
    BY <1>1, <2>1, <2>2, RunKeepsSpots
  <2>4. TimedOutNull'
    BY <1>1, <1>2, <2>1 DEF TimedOutNull, TypeOK
  <2> QED BY <2>3, <2>4 DEF OnceInv
<1>6. ASSUME NEW c \in Conn, Release(c) PROVE OnceInv'
  <2>1. /\ pc[c] = "release" /\ pc'[c] = "idle" /\ db' = db
        /\ \A d \in Conn \ {c} : pc'[d] = pc[d] /\ req'[d] = req[d] /\ reply'[d] = reply[d]
    BY <1>1, <1>6 DEF Release, Goto, TypeOK
  <2>2. \A e : \A d \in Conn \ {c} : Carries(d, e)' <=> Carries(d, e)
    BY <2>1 DEF Carries, Pushing, Popped
  <2>3. \A e : ~Carries(c, e)'
    BY <2>1 DEF Carries, Pushing, Popped
  <2>4. reply[c] \in Seq(Replies) /\ Len(reply[c]) = 1
    BY <1>1, <2>1 DEF TypeOK, OneReply
  <2>5. \A e : (reply[c] = <<e>>) <=> (reply[c][1] = e)
    BY <2>4
  <2>6. \A e : Carries(c, e) <=> req[c].op \in PopOps /\ reply[c][1] = e
    BY <2>1, <2>5 DEF Carries, Pushing, Popped
  <2>7. \A e \in Elem : (e \in fresh') <=> (e \in fresh \/ Carries(c, e))
    BY <1>6, <2>6 DEF Release
  <2>8. ASSUME NEW e \in Elem PROVE OneSpot(e)'
    <3>1. /\ OneSpot(e) /\ ~(e \in fresh /\ e \in Listed(db))
          /\ Carries(c, e) => e \notin fresh /\ e \notin Listed(db)
      BY <1>2 DEF OneSpot
    <3>2. /\ (e \in fresh' \/ e \in Listed(db') \/ Carries(c, e)')
                <=> (e \in fresh \/ e \in Listed(db) \/ Carries(c, e))
          /\ ~(e \in fresh' /\ e \in Listed(db'))
          /\ Carries(c, e)' => e \notin fresh' /\ e \notin Listed(db')
      BY <2>1, <2>3, <2>7, <3>1
    <3> QED BY <2>2, <3>1, <3>2, SpotMoves
  <2>9. TimedOutNull'
    BY <1>2, <2>1 DEF TimedOutNull
  <2>10. Tidy(db')
    BY <1>2, <2>1
  <2> QED BY <2>8, <2>9, <2>10 DEF OnceInv
<1>7. ASSUME NEW c \in Conn, \/ Acquire(c) \/ TryWait(c) \/ Retry(c)
                             \/ Kill(c) \/ Join(c) \/ TimeOut(c)
      PROVE  OnceInv'
  <2>1. /\ db' = db /\ fresh' = fresh /\ req' = req
        /\ \A d \in Conn \ {c} : pc'[d] = pc[d] /\ req'[d] = req[d] /\ reply'[d] = reply[d]
    <3>1. CASE TimeOut(c)
      BY <1>1, <3>1 DEF TimeOut, Goto, TypeOK
    <3>2. CASE ~TimeOut(c)
      BY <1>1, <1>7, <3>2 DEF Acquire, TryWait, Retry, Kill, Join, Goto, TypeOK
    <3> QED BY <3>1, <3>2
  <2>2. /\ \A e \in Elem : Carries(c, e)' <=> Carries(c, e)
        /\ pc'[c] \in {"kill", "join"} => reply'[c] = <<"null">>
    <3>1. CASE Acquire(c)
      BY <1>1, <3>1 DEF Acquire, Goto, TypeOK, Carries, Pushing, Popped
    <3>2. CASE TryWait(c)
      BY <1>1, <3>2 DEF TryWait, Goto, TypeOK, Carries, Pushing, Popped, BlockingOps, PushOps
    <3>3. CASE Retry(c)
      <4>1. req[c].op \in BlockingOps
        BY <1>1, <3>3 DEF Retry, Goto, WaitersBlock, Waiting
      <4> QED BY <1>1, <3>3, <4>1
              DEF Retry, Goto, TypeOK, Carries, Pushing, Popped, BlockingOps, PushOps
    <3>4. CASE Kill(c)
      BY <1>1, <1>2, <3>4 DEF Kill, Goto, TypeOK, Carries, Pushing, Popped, TimedOutNull
    <3>5. CASE Join(c)
      <4>1. reply[c] = <<"null">> /\ reply' = reply
        BY <1>2, <3>5 DEF Join, Goto, TimedOutNull
      <4>2. \A e \in Elem : e # "null"
        BY ReplyAssumption
      <4>3. \A e \in Elem : reply[c] # <<e>>
        BY <4>1, <4>2
      <4> QED BY <1>1, <3>5, <4>1, <4>3 DEF Join, Goto, TypeOK, Carries, Pushing, Popped
    <3>6. CASE TimeOut(c)
      <4>1. reply'[c] = <<"null">>
        BY <1>1, <3>6, FirstReply DEF TimeOut, Goto, TypeOK
      <4> QED BY <1>1, <3>6, <4>1 DEF TimeOut, Goto, TypeOK, Carries, Pushing, Popped
    <3> QED BY <1>7, <3>1, <3>2, <3>3, <3>4, <3>5, <3>6
  <2>3. Spots
    BY <1>3, <2>1, <2>2
  <2>4. TimedOutNull'
    BY <1>2, <2>1, <2>2 DEF TimedOutNull
  <2>5. Tidy(db')
    BY <1>2, <2>1
  <2> QED BY <2>3, <2>4, <2>5 DEF OnceInv
<1>8. ASSUME UNCHANGED <<db, fresh, pc, req, reply>> PROVE OnceInv'
  <2>1. Tidy(db') /\ TimedOutNull'
    BY <1>2, <1>8 DEF TimedOutNull
  <2>2. \A e \in Elem : OneSpot(e)'
    BY <1>2, <1>8 DEF OneSpot, Carries, Pushing, Popped
  <2> QED BY <2>1, <2>2 DEF OnceInv
<1>9. ASSUME NEW c \in Conn, HelperWait(c) \/ HelperRelock(c) \/ Fire(c) PROVE OnceInv'
  BY <1>8, <1>9 DEF HelperWait, HelperRelock, Fire
<1>10. CASE UNCHANGED vars
  BY <1>8, <1>10 DEF vars
<1> QED BY <1>4, <1>5, <1>6, <1>7, <1>9, <1>10 DEF Next, Step

\* A new server holds nothing: the clients have every element.
LEMMA OnceInit ==
    ASSUME Init
    PROVE  OnceInv
<1>1. DOMAIN <<>> = {}
  OBVIOUS
<1>2. \A k \in Key : db[k] = <<>>
  BY DEF Init
<1>3. \A k \in Key : ListElems(db, k) = {}
  BY <1>1, <1>2 DEF ListElems
<1>4. Tidy(db)
  BY <1>1, <1>2, <1>3 DEF Tidy, NoDup
<1>5. \A e : e \notin Listed(db)
  BY <1>3, ListedIn
<1>6. \A c \in Conn : pc[c] = "idle"
  BY DEF Init
<1>7. \A e \in Elem : OneSpot(e)
  BY <1>5, <1>6 DEF Init, OneSpot, Carries, Pushing, Popped
<1> QED BY <1>4, <1>6, <1>7 DEF OnceInv, TimedOutNull

\* An element in one spot has one place: with the clients, in one request, in one
\* reply, or at one position of one list.
LEMMA OnePlace ==
    ASSUME TypeOK, OnceInv, NEW e \in Elem
    PROVE  Cardinality(Places(e)) = 1
<1> DEFINE A == {<<x>> : x \in {e} \cap fresh}
           B == {<<c, "pushing">> : c \in {x \in Conn : /\ pc[x] \in {"lock", "run"}
                                                       /\ req[x].op \in PushOps
                                                       /\ req[x].elem = e}}
           C == {<<c, "popped">> : c \in {x \in Conn : /\ pc[x] = "release"
                                                      /\ req[x].op \in PopOps
                                                      /\ reply[x] = <<e>>}}
           At(k) == {j \in DOMAIN db[k] : db[k][j] = e}
           Spots(k) == {<<k, i, "list">> : i \in At(k)}
           D == UNION {Spots(k) : k \in {x \in Key : db[x] # SetKey}}
<1>1. Places(e) = ((A \cup B) \cup C) \cup D
  BY Zenon DEF Places
<1>2. OneSpot(e) /\ Tidy(db)
  BY DEF OnceInv
<1>3. e \notin fresh => A = {}
  OBVIOUS
<1>4. e \in fresh => A = {<<e>>}
  OBVIOUS
<1>5. \A p : (p \in B) <=> (\E c \in Conn : Pushing(c, e) /\ p = <<c, "pushing">>)
  BY DEF Pushing
<1>6. \A p : (p \in C) <=> (\E c \in Conn : Popped(c, e) /\ p = <<c, "popped">>)
  BY DEF Popped
<1>7. \A k \in Key : db[k] # SetKey => ((At(k) # {}) <=> (e \in ListElems(db, k)))
  BY DEF ListElems
<1>8. \A p : (p \in D) <=> (\E k \in Key : db[k] # SetKey /\ \E i \in At(k) : p = <<k, i, "list">>)
  <2>1. \A k, p : (p \in Spots(k)) <=> (\E i \in At(k) : p = <<k, i, "list">>)
    OBVIOUS
  <2> HIDE DEF Spots
  <2>2. \A p : (p \in D) <=> (\E k \in Key : db[k] # SetKey /\ p \in Spots(k))
    OBVIOUS
  <2> QED BY <2>1, <2>2
<1>9. \A k \in Key : e \in ListElems(db, k) => db[k] # SetKey
  BY DEF ListElems
<1>10. e \notin Listed(db) => D = {}
  <2> SUFFICES ASSUME e \notin Listed(db), NEW p \in D PROVE FALSE
    OBVIOUS
  <2>1. PICK k \in Key : db[k] # SetKey /\ \E i \in At(k) : p = <<k, i, "list">>
    BY <1>8
  <2>2. At(k) # {}
    BY <2>1
  <2>3. e \in ListElems(db, k)
    BY <1>7, <2>1, <2>2
  <2> QED BY <2>3, ListedIn
<1> HIDE DEF A, B, C, D
<1>11. SUFFICES \E p : Places(e) = {p}
  BY FS_Singleton
<1>12. CASE e \in fresh
  <2>1. e \notin Listed(db) /\ \A c \in Conn : ~Pushing(c, e) /\ ~Popped(c, e)
    BY <1>2, <1>12 DEF OneSpot, Carries
  <2>2. B = {} /\ C = {}
    BY <1>5, <1>6, <2>1
  <2> QED BY <1>1, <1>4, <1>10, <1>12, <2>1, <2>2
<1>13. CASE \E c \in Conn : Carries(c, e)
  <2>1. PICK c \in Conn : Carries(c, e)
    BY <1>13
  <2>2. e \notin fresh /\ e \notin Listed(db) /\ \A d \in Conn : Carries(d, e) => d = c
    BY <1>2, <2>1 DEF OneSpot
  <2>3. A = {} /\ D = {}
    BY <1>3, <1>10, <2>2
  <2>4. CASE Pushing(c, e)
    <3>1. \A d \in Conn : ~Popped(d, e)
      BY <2>2, <2>4 DEF Carries, Pushing, Popped
    <3>2. C = {}
      BY <1>6, <3>1
    <3>3. \A d \in Conn : Pushing(d, e) => d = c
      BY <2>2 DEF Carries
    <3>4. \A p : (p \in B) <=> (p = <<c, "pushing">>)
      BY <1>5, <2>4, <3>3
    <3>5. Places(e) = {<<c, "pushing">>}
      BY <1>1, <2>3, <3>2, <3>4
    <3> QED BY <3>5
  <2>5. CASE Popped(c, e)
    <3>1. \A d \in Conn : ~Pushing(d, e)
      BY <2>2, <2>5 DEF Carries, Pushing, Popped
    <3>2. B = {}
      BY <1>5, <3>1
    <3>3. \A d \in Conn : Popped(d, e) => d = c
      BY <2>2 DEF Carries
    <3>4. \A p : (p \in C) <=> (p = <<c, "popped">>)
      BY <1>6, <2>5, <3>3
    <3>5. Places(e) = {<<c, "popped">>}
      BY <1>1, <2>3, <3>2, <3>4
    <3> QED BY <3>5
  <2> QED BY <2>1, <2>4, <2>5 DEF Carries
<1>14. CASE e \in Listed(db)
  <2>1. e \notin fresh /\ \A c \in Conn : ~Pushing(c, e) /\ ~Popped(c, e)
    BY <1>2, <1>14 DEF OneSpot, Carries
  <2>2. A = {} /\ B = {} /\ C = {}
    BY <1>3, <1>5, <1>6, <2>1
  <2>3. PICK k \in Key : e \in ListElems(db, k)
    BY <1>14, ListedIn
  <2>4. db[k] # SetKey /\ At(k) # {} /\ NoDup(db[k])
    BY <1>2, <1>7, <1>9, <2>3 DEF Tidy
  <2>5. PICK i \in At(k) : TRUE
    BY <2>4
  <2>6. \A j \in At(k) : j = i
    BY <2>4, <2>5 DEF NoDup
  <2>7. \A h \in Key : db[h] # SetKey /\ At(h) # {} => h = k
    <3> SUFFICES ASSUME NEW h \in Key, db[h] # SetKey, At(h) # {}, h # k PROVE FALSE
      OBVIOUS
    <3>1. e \in ListElems(db, h)
      BY <1>7
    <3>2. ListElems(db, h) \cap ListElems(db, k) = {}
      BY <1>2 DEF Tidy
    <3> QED BY <2>3, <3>1, <3>2
  <2> HIDE DEF At
  <2>8. \A p : (p \in D) <=> (p = <<k, i, "list">>)
    BY <1>8, <2>4, <2>5, <2>6, <2>7
  <2>9. Places(e) = {<<k, i, "list">>}
    BY <1>1, <2>2, <2>8
  <2> QED BY <2>9
<1> QED BY <1>2, <1>12, <1>13, <1>14 DEF OneSpot

\* Nothing lost, nothing delivered twice: whatever pushes, pops, rotations,
\* retries and timeouts interleave, every element is in exactly one place.
THEOREM NothingLostOrDoubled == Spec => []EachElementOnce
<1>1. Init => WakeInv /\ OnceInv
  BY TypeInit, LockInit, OnceInit
  DEF Init, WakeInv, WaitersBlock, Waiting, SpawnedUnserved, ServedUnlessSilent, CouldBeServed
<1>2. WakeInv /\ OneReply /\ OnceInv /\ [Next]_vars => WakeInv' /\ OnceInv'
  BY WakeStep, OnceStep
<1>3. WakeInv /\ OnceInv => EachElementOnce
  BY OnePlace DEF WakeInv, EachElementOnce
<1> QED BY <1>1, <1>2, <1>3, RepliesOnce, PTL DEF Spec

-----------------------------------------------------------------------------
(* The refinement.  The lock and wake-up protocol of Blocking implements    *)
(* the service of ListService, for every set of connections, keys, elements *)
(* and requests.  Stage forgets the mutex and the helper: a step is a step  *)
(* of the service when it decides a reply, and a stutter when it only moves *)
(* the mutex, a helper or a timer.                                          *)

\* A timer that may still fire belongs to a blocking command with a timeout.
TimersTimed ==
    \A c \in Conn : timer[c] # "off" => req[c].op \in BlockingOps /\ req[c].timed

\* The invariant of the refinement: a request that is not answered has no reply
\* yet, and only a command with a timeout can be given up.
ServiceInv == TypeOK /\ OneReply /\ TimersTimed

\* The service runs the callbacks of the protocol.
LEMMA SameCallbacks ==
    /\ \A r, d : Service!Cb(r, d) = Cb(r, d)
    /\ Service!BlockingOps = BlockingOps
<1>1. Service!BlockingOps = BlockingOps
  BY DEF Service!BlockingOps, BlockingOps
<1> USE DEF Service!Waits, Waits, Service!Answers, Answers, Service!Put, Put,
            Service!Rest, Rest, Service!EndOf, EndOf
<1>2. \A r, d : Service!PopCb(r, d) = PopCb(r, d)
  BY Zenon DEF Service!PopCb, PopCb, Service!Hits, Hits, Service!FirstHit, FirstHit
<1>3. \A r, d : Service!MoveCb(r, d) = MoveCb(r, d)
  BY Zenon DEF Service!MoveCb, MoveCb
<1>4. \A r, d : /\ Service!PushCb(r, d) = PushCb(r, d)
                /\ Service!SaddCb(r, d) = SaddCb(r, d)
                /\ Service!DelCb(r, d) = DelCb(r, d)
  BY Zenon DEF Service!PushCb, PushCb, Service!SaddCb, SaddCb, Service!DelCb, DelCb
<1> HIDE DEF Service!Waits, Waits, Service!Answers, Answers, Service!Put, Put,
             Service!Rest, Rest, Service!EndOf, EndOf
<1>5. \A r, d : Service!Cb(r, d) = Cb(r, d)
  BY <1>2, <1>3, <1>4, Zenon
  DEF Service!Cb, Cb, Service!PopOps, PopOps, Service!MoveOps, MoveOps, Service!PushOps, PushOps
<1> QED BY <1>1, <1>5

\* Every step keeps the timers with the commands that armed them.
LEMMA TimersStep ==
    ASSUME TypeOK, TimersTimed, [Next]_vars
    PROVE  TimersTimed'
<1> USE DEF TypeOK, TimersTimed, Goto
<1>1. ASSUME NEW c \in Conn, NEW r \in Request, Issue(c, r) PROVE TimersTimed'
  BY <1>1 DEF Issue
<1>2. ASSUME NEW c \in Conn, Release(c) PROVE TimersTimed'
  BY <1>2 DEF Release
<1>3. ASSUME NEW c \in Conn, TimeOut(c) \/ Fire(c) PROVE TimersTimed'
  BY <1>3 DEF TimeOut, Fire
<1>4. ASSUME NEW c \in Conn, \/ Acquire(c) \/ RunTx(c) \/ RunDirect(c) \/ TryDone(c)
                             \/ TryWait(c) \/ Retry(c) \/ Kill(c) \/ Join(c)
                             \/ HelperWait(c) \/ HelperRelock(c)
      PROVE  timer' = timer /\ req' = req
  BY <1>4, Zenon
  DEF Acquire, RunTx, RunDirect, TryDone, TryWait, Retry, Kill, Join, HelperWait, HelperRelock
<1>5. CASE UNCHANGED vars
  BY <1>5 DEF vars
<1> QED BY <1>1, <1>2, <1>3, <1>4, <1>5 DEF Next, Step

\* A new server: the service has no request.
LEMMA ServiceInit ==
    ASSUME Init
    PROVE  Service!SInit
<1>1. req \in [Conn -> Request]
  BY TypeInit DEF TypeOK
<1>2. Stage = [c \in Conn |-> "idle"]
  BY DEF Init, Stage
<1> QED BY <1>1, <1>2 DEF Init, Service!SInit

\* How a move of one goroutine shows in the service.
LEMMA StageMove ==
    ASSUME TypeOK, NEW c \in Conn, NEW from \in Locations, NEW to \in Locations,
           Goto(c, from, to)
    PROVE  Stage' = [Stage EXCEPT ![c] = IF to = "idle" THEN "idle"
                                         ELSE IF to \in {"lock", "run", "select"} THEN "pending"
                                         ELSE "answered"]
BY DEF TypeOK, Goto, Stage, Locations

\* A request that is not answered has no reply yet, so the reply a step appends is
\* the one reply of the service.
LEMMA AppendsItsReply ==
    ASSUME ServiceInv, NEW c \in Conn, pc[c] \in {"run", "select"}, NEW x
    PROVE  [reply EXCEPT ![c] = Append(@, x)] = [reply EXCEPT ![c] = <<x>>]
<1>1. reply[c] = <<>>
  BY EmptySeq DEF ServiceInv, TypeOK, OneReply
<1>2. Append(<<>>, x) = <<x>>
  OBVIOUS
<1> QED BY <1>1, <1>2

\* A callback that ends a request is the one step in which the service acts on it.
LEMMA EffectStep ==
    ASSUME ServiceInv, NEW c \in Conn, Goto(c, "run", "release"),
           req[c].op \in BlockingOps => Cb(req[c], db).done,
           db' = Cb(req[c], db).db,
           reply' = [reply EXCEPT ![c] = Append(@, Cb(req[c], db).reply)],
           req' = req
    PROVE  Service!TakeEffect(c)
<1>1. Stage' = [Stage EXCEPT ![c] = "answered"]
  BY StageMove DEF ServiceInv, Locations
<1>2. Stage[c] = "pending"
  BY DEF Goto, Stage
<1>3. reply' = [reply EXCEPT ![c] = <<Cb(req[c], db).reply>>]
  BY AppendsItsReply DEF Goto
<1> QED BY <1>1, <1>2, <1>3, SameCallbacks DEF Service!TakeEffect, Service!Move

\* Every step of the protocol is a step of the service or leaves it unchanged.
LEMMA ServiceStep ==
    ASSUME ServiceInv, [Next]_vars
    PROVE  [Service!SNext]_(Service!svars)
<1> DEFINE Goal == [Service!SNext]_(Service!svars)
<1> USE DEF ServiceInv
<1>1. ASSUME NEW c \in Conn, NEW r \in Request, Issue(c, r) PROVE Service!Ask(c, r)
  <2>1. Stage' = [Stage EXCEPT ![c] = "pending"]
    BY <1>1, StageMove DEF Issue, Locations
  <2>2. Stage[c] = "idle"
    BY <1>1 DEF Issue, Goto, Stage
  <2> QED BY <1>1, <2>1, <2>2 DEF Issue, Service!Ask, Service!Move
<1>2. ASSUME NEW c \in Conn, RunTx(c) PROVE Service!TakeEffect(c)
  <2>1. req[c].op \notin BlockingOps
    BY <1>2 DEF RunTx, TxOps, BlockingOps
  <2> QED BY <1>2, <2>1, EffectStep DEF RunTx
<1>3. ASSUME NEW c \in Conn, RunDirect(c) PROVE Service!TakeEffect(c)
  <2>1. req[c].op \notin BlockingOps
    BY <1>3 DEF RunDirect, DirectOps, BlockingOps
  <2> QED BY <1>3, <2>1, EffectStep DEF RunDirect
<1>4. ASSUME NEW c \in Conn, TryDone(c) PROVE Service!TakeEffect(c)
  BY <1>4, EffectStep DEF TryDone
<1>5. ASSUME NEW c \in Conn, TimeOut(c) PROVE Service!GiveUp(c)
  <2>1. Stage' = [Stage EXCEPT ![c] = "answered"]
    BY <1>5, StageMove DEF TimeOut, Locations
  <2>2. Stage[c] = "pending"
    BY <1>5 DEF TimeOut, Goto, Stage
  <2>3. reply' = [reply EXCEPT ![c] = <<"null">>]
    BY <1>5, AppendsItsReply DEF TimeOut, Goto
  <2>4. req[c].op \in BlockingOps /\ req[c].timed
    BY <1>5 DEF TimeOut, TimersTimed
  <2> QED BY <1>5, <2>1, <2>2, <2>3, <2>4, SameCallbacks
          DEF TimeOut, Service!GiveUp, Service!Move
<1>6. ASSUME NEW c \in Conn, Release(c) PROVE Service!Return(c)
  <2>1. Stage' = [Stage EXCEPT ![c] = "idle"]
    BY <1>6, StageMove DEF Release, Locations
  <2>2. Stage[c] = "answered"
    BY <1>6 DEF Release, Goto, Stage
  <2>3. Whatever \in Request
    BY BlockingAssumption DEF Whatever
  <2> QED BY <1>6, <2>1, <2>2, <2>3 DEF Release, Service!Return, Service!Move
<1>7. ASSUME NEW c \in Conn, Acquire(c) \/ TryWait(c) \/ Retry(c) \/ Kill(c) \/ Join(c)
      PROVE  UNCHANGED <<db, Stage, req, reply>>
  <2>1. /\ UNCHANGED <<db, req, reply>>
        /\ \/ Goto(c, "lock", "run") \/ Goto(c, "run", "select") \/ Goto(c, "select", "run")
           \/ Goto(c, "kill", "join") \/ Goto(c, "join", "release")
    BY <1>7 DEF Acquire, TryWait, Retry, Kill, Join
  <2>2. Stage' = Stage
    BY <2>1 DEF TypeOK, Goto, Stage
  <2> QED BY <2>1, <2>2
<1>8. ASSUME NEW c \in Conn, HelperWait(c) \/ HelperRelock(c) \/ Fire(c)
      PROVE  UNCHANGED <<db, Stage, req, reply>>
  BY <1>8 DEF HelperWait, HelperRelock, Fire, Stage
<1>9. ASSUME UNCHANGED vars PROVE UNCHANGED <<db, Stage, req, reply>>
  BY <1>9 DEF vars, Stage
<1> QED
  BY <1>1, <1>2, <1>3, <1>4, <1>5, <1>6, <1>7, <1>8, <1>9, Zenon
  DEF Next, Step, Service!SNext, Service!svars

\* blocking() and withTx implement the service: whatever goroutines, helpers, timers
\* and broadcasts do, every request takes effect in one step between its arrival and
\* its answer, a timed-out one has no effect, and only a command with a timeout is
\* given up.
THEOREM RefinesService == Spec => ImplementsService
<1>1. Init => ServiceInv /\ Service!SInit
  BY TypeInit, ServiceInit, EmptySeq DEF Init, ServiceInv, OneReply, TimersTimed
<1>2. TypeOK /\ TimersTimed /\ [Next]_vars => TimersTimed'
  BY TimersStep
<1>3. Spec => []TimersTimed
  <2>1. Init => TimersTimed
    BY <1>1 DEF ServiceInv
  <2> QED BY <2>1, <1>2, TypeCorrect, PTL DEF Spec
<1>4. TypeOK /\ OneReply /\ TimersTimed /\ [Next]_vars => [Service!SNext]_(Service!svars)
  BY ServiceStep DEF ServiceInv
<1> QED BY <1>1, <1>3, <1>4, TypeCorrect, RepliesOnce, PTL
        DEF Spec, ImplementsService, Service!SSpec
=============================================================================
