---------------------------- MODULE LifecycleProofs ----------------------------
(***************************************************************************)
(* Proofs about Lifecycle, for every number of threads, connections, ports, *)
(* servers and command tables.                                              *)
(***************************************************************************)
EXTENDS Lifecycle, TLAPS

\* Where a thread has the mutex of the RediQueue.
Locked == {"register", "sweep", "wait", "save"}

\* A thread between net.Listen and the mutex has an open server that nobody else
\* has; one inside start or Close works on m.srv, and its Close has closed it.
ThreadInv ==
    /\ \A t \in Thread :
          /\ thr[t].at = "start" => /\ thr[t].srv \in Server /\ thr[t].srv # srv
                                    /\ sv[thr[t].srv].listen = "open"
          /\ thr[t].at \in {"register", "sweep", "wait"} => srv \in Server
          /\ thr[t].at = "register" => thr[t].srv = srv
          /\ thr[t].at = "wait" => sv[srv].listen = "closed"
    /\ \A t, u \in Thread :
          thr[t].at = "start" /\ thr[u].at = "start" /\ thr[t].srv = thr[u].srv => t = u

\* m.srv is closed only while a Close waits, and a server nobody started is untouched.
ServerInv ==
    /\ srv \in Server => sv[srv].listen = "open" \/ \E t \in Thread : thr[t].at = "wait"
    /\ \A i \in Server : sv[i].listen = "new" => sv[i] = NewServer
    /\ \A i \in Server : sv[i].listen # "new" => sv[i].port # None

\* The accept loop holds a connection of its own server, and a connection belongs to
\* a server that was started.
ConnInv ==
    /\ \A i \in Server : sv[i].loop \in Conn =>
          conn[sv[i].loop].at = "held" /\ conn[sv[i].loop].srv = i
    /\ \A c \in Conn : conn[c].at # "none" =>
          conn[c].srv \in Server /\ sv[conn[c].srv].listen # "new"

\* Every goroutine of a server is in its wait group: the accept loop, and a
\* connection from the go statement on.
Counted ==
    /\ \A i \in Server : sv[i].loop # "done" => "serve" \in sv[i].wg
    /\ \A c \in Conn : conn[c].at \notin {"none", "dialed", "held"} => c \in sv[conn[c].srv].wg

\* A server without all its commands is one that start has not returned for.
Registering ==
    \A i \in Server : sv[i].listen # "new" /\ sv[i].cmds < Tables =>
        \E t \in Thread : thr[t].at \in {"start", "register"} /\ thr[t].srv = i

LifeInv ==
    /\ TypeOK /\ ThreadInv /\ ServerInv /\ ConnInv /\ Counted /\ Registering
    /\ NothingServesAfterClose

\* No two listeners share a port.  Unless a start was beside or over another: before the
\* first of them has set m.port there is one thread that starts a server, and its server
\* is the only one; after that every server, and every thread that is about to listen,
\* has m.port.
PortInv ==
    /\ \A i, j \in Server :
          sv[i].listen = "open" /\ sv[j].listen = "open" /\ sv[i].port = sv[j].port => i = j
    /\ srv # None => port # None
    /\ ~again =>
          /\ port = None =>
                /\ \A t, u \in Thread : thr[t].at \in {"listen", "start"}
                                         /\ thr[u].at \in {"listen", "start"} => t = u
                /\ \A i \in Server : sv[i].listen # "new" =>
                      \E t \in Thread : thr[t].at = "start" /\ thr[t].srv = i
          /\ port # None =>
                /\ \A i \in Server : sv[i].listen # "new" => sv[i].port = port
                /\ \A t \in Thread : thr[t].at = "listen" => thr[t].port = port
          /\ \A i \in Server : sv[i].listen = "open" =>
                i = srv \/ \E t \in Thread : thr[t].at = "start" /\ thr[t].srv = i
-----------------------------------------------------------------------------
\* The mutex is held by the thread that is between Lock and Unlock, and by no other.
OwnerInv ==
    /\ owner \in Thread \cup {None}
    /\ \A t \in Thread : thr[t].at \in Locked <=> owner = t

\* The clause of the type invariant about the mutex, thread by thread.
LEMMA OwnerEquiv ==
    ({owner} \ {None} = {t \in Thread : thr[t].at \in {"register", "sweep", "wait", "save"}})
        <=> OwnerInv
<1>1. None \notin Thread
  BY LifecycleAssumption
<1> DEFINE Holders == {t \in Thread : thr[t].at \in {"register", "sweep", "wait", "save"}}
<1>2. ASSUME {owner} \ {None} = Holders PROVE OwnerInv
  <2>1. owner \in Thread \cup {None}
    BY <1>2
  <2>2. ASSUME NEW t \in Thread PROVE thr[t].at \in Locked <=> owner = t
    <3>1. t \in {owner} \ {None} <=> t \in Holders
      BY <1>2
    <3> QED BY <1>1, <3>1 DEF Locked
  <2> QED BY <2>1, <2>2 DEF OwnerInv
<1>3. ASSUME OwnerInv PROVE {owner} \ {None} = Holders
  BY <1>1, <1>3 DEF OwnerInv, Locked
<1> QED BY <1>2, <1>3

\* What the type invariant says of the values.
Typed ==
    /\ up \in BOOLEAN
    /\ srv \in Server \cup {None} /\ port \in Port \cup {None}
    /\ thr \in [Thread -> Thread0]
    /\ sv \in [Server -> Server0]
    /\ conn \in [Conn -> Conn0]

\* The history is a Boolean.
AgainType == again \in BOOLEAN

\* The type invariant is that of the values and that of the mutex.
LEMMA TypeSplit == TypeOK <=> Typed /\ OwnerInv /\ AgainType
BY OwnerEquiv, Zenon DEF TypeOK, Typed, AgainType

\* The same of the next state.
LEMMA TypeSplitPrime == TypeOK' <=> Typed' /\ OwnerInv' /\ AgainType'
BY TypeSplit, PTL

\* How the goroutine of a connection moves without an effect on the server.
Moves(from, to) ==
    \/ from = "accepted" /\ to = "read"
    \/ from = "dispatch" /\ to \in {"read", "handle"}
    \/ from = "handle" /\ to \in {"read", "blocked"}
    \/ from = "blocked" /\ to = "handle"

\* net.Listen by Start, Restart or StartAddr, with what the three have in common, and
\* what is before and beside it.
Begins(t, i, p) == /\ StartListen(t, i, p) \/ StartAddr(t, i, p)
                   /\ At(t, "idle") \/ At(t, "listen")
                   /\ Listen(t, i, p)
Aside(t)        == StartRead(t) \/ StartFails(t)

\* The cases of a step that the proofs tell apart.
LEMMA StepCases ==
    ASSUME [Next]_vars
    PROVE  \/ \E t \in Thread :
                 \/ \E i \in Server, p \in Port : Begins(t, i, p)
                 \/ Aside(t) \/ StartLock(t) \/ Register(t) \/ CloseLock(t) \/ Sweep(t) \/ CloseReturn(t)
                 \/ SaveOpen(t) \/ SaveWrite(t)
           \/ \E i \in Server : Spawn(i) \/ AcceptFails(i)
           \/ \E i \in Server, c \in Conn : Dial(c, i) \/ Accept(i, c)
           \/ \E c \in Conn :
                 \/ \E r \in Requests, more \in BOOLEAN : ReadRequest(c, r, more)
                 \/ \E r \in Requests : ReadBuffered(c, r)
                 \/ (conn[c].at = "read" \/ Known(c)) /\ Ends(c)
                 \/ \E from, to : Moves(from, to) /\ Goes(c, from, to)
           \/ Dies \/ Boot \/ UNCHANGED vars
<1>1. ASSUME NEW c \in Conn, Enter(c) \/ Dispatch(c) \/ Handle(c) \/ Wake(c)
      PROVE  \/ Known(c) /\ Ends(c)
             \/ \E from, to : Moves(from, to) /\ Goes(c, from, to)
  <2>1. \/ Goes(c, "accepted", "read") \/ Goes(c, "dispatch", "read")
        \/ Goes(c, "dispatch", "handle") \/ Goes(c, "handle", "read")
        \/ Goes(c, "handle", "blocked") \/ Goes(c, "blocked", "handle")
        \/ Known(c) /\ Ends(c)
    BY <1>1, Zenon DEF Enter, Dispatch, Handle, Wake
  <2>2. /\ Moves("accepted", "read") /\ Moves("dispatch", "read") /\ Moves("dispatch", "handle")
        /\ Moves("handle", "read") /\ Moves("handle", "blocked") /\ Moves("blocked", "handle")
    BY DEF Moves
  <2> QED BY <2>1, <2>2, Zenon
<1>2. ASSUME NEW c \in Conn, ReadClosed(c) \/ Hangup(c)
      PROVE  conn[c].at = "read" /\ Ends(c)
  BY <1>2, Zenon DEF ReadClosed, Hangup
<1>3. ASSUME NEW t \in Thread, NEW i \in Server, NEW p \in Port,
             StartListen(t, i, p) \/ StartAddr(t, i, p)
      PROVE  Begins(t, i, p)
  BY <1>3, Zenon DEF StartListen, StartAddr, Begins
<1> QED BY <1>1, <1>2, <1>3, Zenon DEF Next, Query, Crash, Aside

-----------------------------------------------------------------------------
(* Types.  A record with one field replaced is still of its type. *)

\* Replacing one value of a function.
LEMMA UpdateType ==
    ASSUME NEW S, NEW T, NEW f \in [S -> T], NEW x \in S, NEW v \in T
    PROVE  [f EXCEPT ![x] = v] \in [S -> T]
OBVIOUS

\* The records of the threads.
LEMMA ThreadType ==
    /\ Idle \in Thread0
    /\ \A i \in Server : [at |-> "start", srv |-> i, port |-> None] \in Thread0
    /\ \A p \in Port \cup {None} : [at |-> "listen", srv |-> None, port |-> p] \in Thread0
    /\ \A v \in Thread0 : \A a \in Locked \cup {"idle"} : [v EXCEPT !.at = a] \in Thread0
<1>1. /\ Idle \in Thread0
      /\ \A i \in Server : [at |-> "start", srv |-> i, port |-> None] \in Thread0
      /\ \A p \in Port \cup {None} : [at |-> "listen", srv |-> None, port |-> p] \in Thread0
  BY DEF Idle, Thread0
<1>2. ASSUME NEW v \in Thread0, NEW a \in Locked \cup {"idle"} PROVE [v EXCEPT !.at = a] \in Thread0
  BY DEF Locked, Thread0
<1> QED BY <1>1, <1>2

\* The records of the server.Servers.
LEMMA ServerType ==
    /\ NewServer \in Server0
    /\ \A v \in Server0 : \A p \in Port :
          [v EXCEPT !.listen = "open", !.port = p, !.loop = "accept", !.wg = {"serve"}] \in Server0
    /\ \A v \in Server0 : v.cmds < Tables => [v EXCEPT !.cmds = v.cmds + 1] \in Server0
    /\ \A v \in Server0 : [v EXCEPT !.listen = "closed"] \in Server0
    /\ \A v \in Server0 : \A c \in Conn : [v EXCEPT !.loop = c] \in Server0
    /\ \A v \in Server0 : \A c \in Conn :
          [v EXCEPT !.loop = "accept", !.wg = v.wg \cup {c}] \in Server0
    /\ \A v \in Server0 : [v EXCEPT !.loop = "done", !.wg = v.wg \ {"serve"}] \in Server0
    /\ \A v \in Server0 : \A c \in Conn : [v EXCEPT !.wg = v.wg \ {c}] \in Server0
<1>0. Tables \in Nat
  BY LifecycleAssumption
<1>1. NewServer \in Server0
  BY <1>0 DEF NewServer, Server0
<1>2. ASSUME NEW v \in Server0, NEW p \in Port
      PROVE  [v EXCEPT !.listen = "open", !.port = p, !.loop = "accept", !.wg = {"serve"}]
                \in Server0
  BY DEF Server0
<1>3. ASSUME NEW v \in Server0, v.cmds < Tables PROVE [v EXCEPT !.cmds = v.cmds + 1] \in Server0
  <2>1. v.cmds + 1 \in 0..Tables
    BY <1>0, <1>3 DEF Server0
  <2> QED BY <2>1 DEF Server0
<1>4. ASSUME NEW v \in Server0 PROVE [v EXCEPT !.listen = "closed"] \in Server0
  BY DEF Server0
<1>5. ASSUME NEW v \in Server0, NEW c \in Conn PROVE [v EXCEPT !.loop = c] \in Server0
  BY DEF Server0
<1>6. ASSUME NEW v \in Server0, NEW c \in Conn
      PROVE  [v EXCEPT !.loop = "accept", !.wg = v.wg \cup {c}] \in Server0
  BY DEF Server0
<1>7. ASSUME NEW v \in Server0 PROVE [v EXCEPT !.loop = "done", !.wg = v.wg \ {"serve"}] \in Server0
  BY DEF Server0
<1>8. ASSUME NEW v \in Server0, NEW c \in Conn PROVE [v EXCEPT !.wg = v.wg \ {c}] \in Server0
  BY DEF Server0
<1> QED BY <1>1, <1>2, <1>3, <1>4, <1>5, <1>6, <1>7, <1>8

\* The records of the connections.
LEMMA ConnType ==
    /\ NoConn \in Conn0
    /\ \A i \in Server : [NoConn EXCEPT !.at = "dialed", !.srv = i, !.open = TRUE] \in Conn0
    /\ \A v \in Conn0 : \A a \in {"held", "accepted", "read", "handle", "blocked"} :
          [v EXCEPT !.at = a] \in Conn0 /\ [v EXCEPT !.at = a, !.req = NoReq] \in Conn0
    /\ \A v \in Conn0 : [v EXCEPT !.open = FALSE] \in Conn0
    /\ \A v \in Conn0 : \A r \in Requests : \A more \in BOOLEAN :
          [v EXCEPT !.at = "dispatch", !.req = r, !.more = more] \in Conn0
<1>1. NoConn \in Conn0
  BY DEF NoConn, Conn0
<1>2. ASSUME NEW i \in Server
      PROVE  [NoConn EXCEPT !.at = "dialed", !.srv = i, !.open = TRUE] \in Conn0
  BY DEF NoConn, Conn0
<1>3. ASSUME NEW v \in Conn0, NEW a \in {"held", "accepted", "read", "handle", "blocked"}
      PROVE  [v EXCEPT !.at = a] \in Conn0 /\ [v EXCEPT !.at = a, !.req = NoReq] \in Conn0
  BY DEF Conn0
<1>4. ASSUME NEW v \in Conn0 PROVE [v EXCEPT !.open = FALSE] \in Conn0
  BY DEF Conn0
<1>5. ASSUME NEW v \in Conn0, NEW r \in Requests, NEW more \in BOOLEAN
      PROVE  [v EXCEPT !.at = "dispatch", !.req = r, !.more = more] \in Conn0
  BY DEF Conn0
<1> QED BY <1>1, <1>2, <1>3, <1>4, <1>5

\* A thread goes on to another place.
LEMMA ThrToType ==
    ASSUME Typed, NEW t \in Thread, NEW a \in Locked \cup {"idle"}, ThrTo(t, a)
    PROVE  thr' \in [Thread -> Thread0]
<1>1. [thr[t] EXCEPT !.at = a] \in Thread0
  BY ThreadType DEF Typed
<1> QED BY <1>1, UpdateType DEF ThrTo, Typed

\* Reading m.port, and a net.Listen that fails, change nothing but where the thread is.
LEMMA AsideEffect ==
    ASSUME Typed, NEW t \in Thread, Aside(t)
    PROVE  /\ UNCHANGED <<up, owner, srv, port, sv, conn>>
           /\ thr' \in [Thread -> Thread0]
           /\ \A u \in Thread \ {t} : thr'[u] = thr[u]
           /\ thr[t].at \in {"idle", "listen"} /\ thr'[t].at \in {"idle", "listen"}
           /\ thr'[t].at = "listen" => thr'[t].port = port
<1>1. UNCHANGED <<up, owner, srv, port, sv, conn>>
  BY Zenon DEF Aside, StartRead, StartFails, Stays
<1>2. PICK v \in Thread0 : /\ thr' = [thr EXCEPT ![t] = v] /\ v.at \in {"idle", "listen"}
                           /\ v.at = "listen" => v.port = port
  <2>1. CASE StartRead(t)
    BY <2>1, ThreadType DEF StartRead, Typed
  <2>2. CASE StartFails(t)
    BY <2>2, ThreadType DEF StartFails, Idle
  <2> QED BY <2>1, <2>2 DEF Aside
<1>3. thr[t].at \in {"idle", "listen"}
  BY DEF Aside, StartRead, StartFails, At
<1> QED BY <1>1, <1>2, <1>3, UpdateType DEF Typed

\* The variables that are not functions.
Scalars ==
    /\ up \in BOOLEAN
    /\ srv \in Server \cup {None} /\ port \in Port \cup {None}

\* A thread that starts a server, and one that holds m.srv, have one.
StartServer ==
    \A t \in Thread : /\ thr[t].at = "start" => thr[t].srv \in Server
                      /\ thr[t].at \in {"register", "sweep", "wait"} => srv \in Server

\* Every step keeps every variable in its type.
LEMMA TypeStep ==
    ASSUME Typed, StartServer, [Next]_vars
    PROVE  Typed'
<1>1. ASSUME NEW t \in Thread, NEW i \in Server, NEW p \in Port, Begins(t, i, p) PROVE Typed'
  <2>1. thr' \in [Thread -> Thread0]
    BY <1>1, UpdateType, ThreadType DEF Begins, Listen, Typed
  <2>2. sv' \in [Server -> Server0]
    <3>1. [sv[i] EXCEPT !.listen = "open", !.port = p, !.loop = "accept", !.wg = {"serve"}]
             \in Server0
      BY <1>1, ServerType DEF Begins, Listen, Typed
    <3> QED BY <1>1, <3>1, UpdateType DEF Begins, Listen, Typed
  <2>3. conn' \in [Conn -> Conn0]
    BY <1>1, Zenon DEF Begins, Listen, Typed, Stays, OnServer
  <2>4. Scalars'
    BY <1>1, Zenon DEF Begins, Listen, Typed, Scalars, Stays
  <2> QED BY <2>1, <2>2, <2>3, <2>4 DEF Typed, Scalars
<1>2. ASSUME NEW t \in Thread, StartLock(t) PROVE Typed'
  <2>1. thr' \in [Thread -> Thread0]
    BY <1>2, ThrToType DEF StartLock, Locked
  <2>2. sv' \in [Server -> Server0]
    BY <1>2, Zenon DEF StartLock, Typed, Stays, OnServer
  <2>3. conn' \in [Conn -> Conn0]
    BY <1>2, Zenon DEF StartLock, Typed, Stays, OnServer
  <2>4. Scalars'
    <3>1. thr[t].srv \in Server /\ sv[thr[t].srv].port \in Port \cup {None}
      BY <1>2 DEF StartLock, At, StartServer, Typed, Server0
    <3> QED BY <1>2, <3>1, Zenon DEF StartLock, Typed, Scalars, Stays
  <2> QED BY <2>1, <2>2, <2>3, <2>4 DEF Typed, Scalars
<1>3. ASSUME NEW t \in Thread, Register(t) PROVE Typed'
  <2>1. thr' \in [Thread -> Thread0]
    BY <1>3, UpdateType, ThreadType DEF Register, Typed
  <2>2. sv' \in [Server -> Server0]
    <3>1. srv \in Server
      BY <1>3 DEF Register, At, StartServer
    <3>2. CASE sv[srv].cmds < Tables
      <4>1. [sv[srv] EXCEPT !.cmds = sv[srv].cmds + 1] \in Server0
        BY <3>1, <3>2, ServerType DEF Typed
      <4> QED BY <1>3, <3>1, <3>2, <4>1, UpdateType DEF Register, Typed
    <3>3. CASE ~(sv[srv].cmds < Tables)
      BY <1>3, <3>3 DEF Register, Typed
    <3> QED BY <3>2, <3>3
  <2>3. conn' \in [Conn -> Conn0] /\ Scalars'
    BY <1>3, Zenon DEF Register, Typed, Scalars, Stays
  <2> QED BY <2>1, <2>2, <2>3 DEF Typed, Scalars
<1>4. ASSUME NEW t \in Thread, CloseLock(t) PROVE Typed'
  <2>1. thr' \in [Thread -> Thread0]
    BY <1>4, ThrToType DEF CloseLock, Locked
  <2>2. sv' \in [Server -> Server0]
    BY <1>4, Zenon DEF CloseLock, Typed, Stays, OnServer
  <2>3. conn' \in [Conn -> Conn0]
    BY <1>4, Zenon DEF CloseLock, Typed, Stays, OnServer
  <2>4. Scalars'
    BY <1>4, Zenon DEF CloseLock, Typed, Scalars, Stays
  <2> QED BY <2>1, <2>2, <2>3, <2>4 DEF Typed, Scalars
<1>5. ASSUME NEW t \in Thread, Sweep(t) PROVE Typed'
  <2>1. thr' \in [Thread -> Thread0]
    BY <1>5, ThrToType DEF Sweep, Locked
  <2>2. sv' \in [Server -> Server0]
    <3>1. srv \in Server
      BY <1>5 DEF Sweep, At, StartServer
    <3>2. [sv[srv] EXCEPT !.listen = "closed"] \in Server0
      BY <3>1, ServerType DEF Typed
    <3> QED BY <1>5, <3>1, <3>2, UpdateType DEF Sweep, Typed
  <2>3. conn' \in [Conn -> Conn0]
    BY <1>5, ConnType DEF Sweep, Typed
  <2>4. Scalars'
    BY <1>5, Zenon DEF Sweep, Typed, Scalars, Stays
  <2> QED BY <2>1, <2>2, <2>3, <2>4 DEF Typed, Scalars
<1>6. ASSUME NEW t \in Thread, CloseReturn(t) PROVE Typed'
  <2>1. thr' \in [Thread -> Thread0]
    BY <1>6, ThrToType DEF CloseReturn, Locked
  <2>2. sv' \in [Server -> Server0]
    BY <1>6, Zenon DEF CloseReturn, Typed, Stays, OnServer
  <2>3. conn' \in [Conn -> Conn0]
    BY <1>6, Zenon DEF CloseReturn, Typed, Stays, OnServer
  <2>4. Scalars'
    BY <1>6, Zenon DEF CloseReturn, Typed, Scalars, Stays
  <2> QED BY <2>1, <2>2, <2>3, <2>4 DEF Typed, Scalars
<1>7. ASSUME NEW t \in Thread, SaveOpen(t) PROVE Typed'
  <2>1. thr' \in [Thread -> Thread0]
    BY <1>7, ThrToType DEF SaveOpen, Locked
  <2>2. sv' \in [Server -> Server0]
    BY <1>7, Zenon DEF SaveOpen, Typed, Stays, OnServer
  <2>3. conn' \in [Conn -> Conn0]
    BY <1>7, Zenon DEF SaveOpen, Typed, Stays, OnServer
  <2>4. Scalars'
    BY <1>7, Zenon DEF SaveOpen, Typed, Scalars, Stays
  <2> QED BY <2>1, <2>2, <2>3, <2>4 DEF Typed, Scalars
<1>8. ASSUME NEW t \in Thread, SaveWrite(t) PROVE Typed'
  <2>1. thr' \in [Thread -> Thread0]
    BY <1>8, ThrToType DEF SaveWrite, Locked
  <2>2. sv' \in [Server -> Server0]
    BY <1>8, Zenon DEF SaveWrite, Typed, Stays, OnServer
  <2>3. conn' \in [Conn -> Conn0]
    BY <1>8, Zenon DEF SaveWrite, Typed, Stays, OnServer
  <2>4. Scalars'
    BY <1>8, Zenon DEF SaveWrite, Typed, Scalars, Stays
  <2> QED BY <2>1, <2>2, <2>3, <2>4 DEF Typed, Scalars
<1>9. ASSUME NEW i \in Server, NEW c \in Conn, Dial(c, i) PROVE Typed'
  <2>1. thr' \in [Thread -> Thread0]
    BY <1>9, Zenon DEF Dial, Typed, Stays, OnServer
  <2>2. sv' \in [Server -> Server0]
    BY <1>9, Zenon DEF Dial, Typed, Stays, OnServer
  <2>3. conn' \in [Conn -> Conn0]
    BY <1>9, UpdateType, ConnType DEF Dial, Typed
  <2>4. Scalars'
    BY <1>9, Zenon DEF Dial, Typed, Scalars, OnServer
  <2> QED BY <2>1, <2>2, <2>3, <2>4 DEF Typed, Scalars
<1>10. ASSUME NEW i \in Server, NEW c \in Conn, Accept(i, c) PROVE Typed'
  <2>1. thr' \in [Thread -> Thread0]
    BY <1>10, Zenon DEF Accept, Typed, Stays, OnServer
  <2>2. sv' \in [Server -> Server0]
    BY <1>10, UpdateType, ServerType DEF Accept, Typed
  <2>3. conn' \in [Conn -> Conn0]
    BY <1>10, UpdateType, ConnType DEF Accept, ConnTo, Typed
  <2>4. Scalars'
    BY <1>10, Zenon DEF Accept, Typed, Scalars, OnServer
  <2> QED BY <2>1, <2>2, <2>3, <2>4 DEF Typed, Scalars
<1>11. ASSUME NEW i \in Server, Spawn(i) PROVE Typed'
  <2>1. thr' \in [Thread -> Thread0]
    BY <1>11, Zenon DEF Spawn, Typed, Stays, OnServer
  <2>2. sv' \in [Server -> Server0]
    <3>1. [sv[i] EXCEPT !.loop = "accept", !.wg = sv[i].wg \cup {sv[i].loop}] \in Server0
      BY <1>11, ServerType DEF Spawn, Typed
    <3>2. sv' = [sv EXCEPT ![i] =
                   [sv[i] EXCEPT !.loop = "accept", !.wg = sv[i].wg \cup {sv[i].loop}]]
      BY <1>11 DEF Spawn, Typed
    <3> QED BY <3>1, <3>2, UpdateType DEF Typed
  <2>3. conn' \in [Conn -> Conn0]
    <3>1. [conn[sv[i].loop] EXCEPT !.at = "accepted"] \in Conn0
      BY <1>11, ConnType DEF Spawn, ConnTo, Typed
    <3> QED BY <1>11, <3>1, UpdateType DEF Spawn, ConnTo, Typed
  <2>4. Scalars'
    BY <1>11, Zenon DEF Spawn, Typed, Scalars, OnServer
  <2> QED BY <2>1, <2>2, <2>3, <2>4 DEF Typed, Scalars
<1>12. ASSUME NEW i \in Server, AcceptFails(i) PROVE Typed'
  <2>1. thr' \in [Thread -> Thread0]
    BY <1>12, Zenon DEF AcceptFails, Typed, Stays, OnServer
  <2>2. sv' \in [Server -> Server0]
    BY <1>12, UpdateType, ServerType DEF AcceptFails, Typed
  <2>3. conn' \in [Conn -> Conn0]
    BY <1>12, Zenon DEF AcceptFails, Typed, Stays, OnServer
  <2>4. Scalars'
    BY <1>12, Zenon DEF AcceptFails, Typed, Scalars, OnServer
  <2> QED BY <2>1, <2>2, <2>3, <2>4 DEF Typed, Scalars
<1>13. ASSUME NEW c \in Conn, NEW r \in Requests, NEW more \in BOOLEAN, ReadRequest(c, r, more)
       PROVE  Typed'
  <2>1. thr' \in [Thread -> Thread0]
    BY <1>13, Zenon DEF ReadRequest, Typed, Stays, OnServer
  <2>2. sv' \in [Server -> Server0]
    BY <1>13, Zenon DEF ReadRequest, Typed, Stays, OnServer
  <2>3. conn' \in [Conn -> Conn0]
    <3>1. [conn[c] EXCEPT !.at = "dispatch", !.req = r, !.more = more] \in Conn0
      BY ConnType DEF Typed
    <3> QED BY <1>13, <3>1, UpdateType DEF ReadRequest, Typed
  <2>4. Scalars'
    BY <1>13, Zenon DEF ReadRequest, Typed, Scalars, OnServer
  <2> QED BY <2>1, <2>2, <2>3, <2>4 DEF Typed, Scalars
<1>14. ASSUME NEW c \in Conn, NEW r \in Requests, ReadBuffered(c, r) PROVE Typed'
  <2>1. thr' \in [Thread -> Thread0]
    BY <1>14, Zenon DEF ReadBuffered, Typed, Stays, OnServer
  <2>2. sv' \in [Server -> Server0]
    BY <1>14, Zenon DEF ReadBuffered, Typed, Stays, OnServer
  <2>3. conn' \in [Conn -> Conn0]
    <3>1. [conn[c] EXCEPT !.at = "dispatch", !.req = r, !.more = FALSE] \in Conn0
      BY ConnType DEF Typed
    <3> QED BY <1>14, <3>1, UpdateType DEF ReadBuffered, Typed
  <2>4. Scalars'
    BY <1>14, Zenon DEF ReadBuffered, Typed, Scalars, OnServer
  <2> QED BY <2>1, <2>2, <2>3, <2>4 DEF Typed, Scalars
<1>15. ASSUME NEW c \in Conn, conn[c].at = "read" \/ Known(c), Ends(c) PROVE Typed'
  <2>1. thr' \in [Thread -> Thread0]
    BY <1>15, Zenon DEF Ends, Typed, Stays, OnServer
  <2>2. sv' \in [Server -> Server0]
    <3>1. ASSUME conn[c].srv \in Server
          PROVE  [sv[conn[c].srv] EXCEPT !.wg = sv[conn[c].srv].wg \ {c}] \in Server0
      BY <3>1, ServerType DEF Typed
    <3>2. conn[c].srv \notin Server => sv' = sv
      BY <1>15 DEF Ends, Typed
    <3> QED BY <1>15, <3>1, <3>2, UpdateType DEF Ends, Typed
  <2>3. conn' \in [Conn -> Conn0]
    BY <1>15, UpdateType, ConnType DEF Ends, Typed
  <2>4. Scalars'
    BY <1>15, Zenon DEF Ends, Typed, Scalars, OnServer
  <2> QED BY <2>1, <2>2, <2>3, <2>4 DEF Typed, Scalars
<1>16. ASSUME NEW c \in Conn, NEW from, NEW to, Moves(from, to), Goes(c, from, to) PROVE Typed'
  <2>1. thr' \in [Thread -> Thread0]
    BY <1>16, Zenon DEF Goes, Typed, Stays, OnServer
  <2>2. sv' \in [Server -> Server0]
    BY <1>16, Zenon DEF Goes, Typed, Stays, OnServer
  <2>3. conn' \in [Conn -> Conn0]
    <3>1. /\ to \in {"read", "handle", "blocked"}
          /\ [conn[c] EXCEPT !.at = to] \in Conn0
          /\ [conn[c] EXCEPT !.at = to, !.req = NoReq] \in Conn0
      BY <1>16, ConnType DEF Moves, Typed
    <3>2. conn' = [conn EXCEPT ![c] = [conn[c] EXCEPT
                   !.at = to, !.req = IF to = "read" THEN NoReq ELSE conn[c].req]]
      BY <1>16 DEF Goes, Typed
    <3>3. [conn[c] EXCEPT !.at = to, !.req = IF to = "read" THEN NoReq ELSE conn[c].req] \in Conn0
      BY <3>1 DEF Conn0, Typed
    <3> QED BY <3>2, <3>3, UpdateType DEF Typed
  <2>4. Scalars'
    BY <1>16, Zenon DEF Goes, Typed, Scalars, OnServer
  <2> QED BY <2>1, <2>2, <2>3, <2>4 DEF Typed, Scalars
<1>17. ASSUME Dies PROVE Typed'
  BY <1>17, ThreadType, ServerType, ConnType, Zenon DEF Dies, Typed
<1>18. ASSUME Boot PROVE Typed'
  BY <1>18, Zenon DEF Boot, Typed
<1>19. ASSUME UNCHANGED vars PROVE Typed'
  BY <1>19, Zenon DEF vars, Typed
<1>20. ASSUME NEW t \in Thread, Aside(t) PROVE Typed'
  BY <1>20, AsideEffect DEF Typed
<1> QED BY StepCases, <1>1, <1>2, <1>3, <1>4, <1>5, <1>6, <1>7, <1>8, <1>9, <1>10,
           <1>11, <1>12, <1>13, <1>14, <1>15, <1>16, <1>17, <1>18, <1>19, <1>20,
           Zenon

\* Every step keeps the mutex with the thread between Lock and Unlock.
LEMMA OwnerStep ==
    ASSUME Typed, OwnerInv, [Next]_vars
    PROVE  OwnerInv'
<1>0. /\ None \notin Thread
      /\ thr \in [Thread ->
             [at : {"idle", "listen", "start", "register", "sweep", "wait", "save"},
              srv : Server \cup {None}, port : Port \cup {None}]]
  BY LifecycleAssumption DEF Typed, Thread0
<1> USE DEF OwnerInv, Locked, At, Takes
<1>1. ASSUME NEW t \in Thread, NEW i \in Server, NEW p \in Port, Begins(t, i, p)
      PROVE  OwnerInv'
  BY <1>1, <1>0 DEF Begins, Listen
<1>2. ASSUME NEW t \in Thread, StartLock(t) PROVE OwnerInv'
  BY <1>2, <1>0 DEF StartLock, ThrTo
<1>3. ASSUME NEW t \in Thread, Register(t) PROVE OwnerInv'
  BY <1>3, <1>0 DEF Register, Idle
<1>4. ASSUME NEW t \in Thread, CloseLock(t) PROVE OwnerInv'
  BY <1>4, <1>0 DEF CloseLock, ThrTo
<1>5. ASSUME NEW t \in Thread, Sweep(t) PROVE OwnerInv'
  BY <1>5, <1>0 DEF Sweep, ThrTo
<1>6. ASSUME NEW t \in Thread, CloseReturn(t) PROVE OwnerInv'
  BY <1>6, <1>0 DEF CloseReturn, ThrTo
<1>7. ASSUME NEW t \in Thread, SaveOpen(t) PROVE OwnerInv'
  BY <1>7, <1>0 DEF SaveOpen, ThrTo
<1>8. ASSUME NEW t \in Thread, SaveWrite(t) PROVE OwnerInv'
  BY <1>8, <1>0 DEF SaveWrite, ThrTo
<1>9. ASSUME NEW i \in Server, NEW c \in Conn, Dial(c, i) PROVE OwnerInv'
  <2>1. UNCHANGED <<thr, owner>>
    BY <1>9, Zenon DEF Dial, OnServer
  <2> QED BY <2>1, Zenon
<1>10. ASSUME NEW i \in Server, NEW c \in Conn, Accept(i, c) PROVE OwnerInv'
  <2>1. UNCHANGED <<thr, owner>>
    BY <1>10, Zenon DEF Accept, OnServer
  <2> QED BY <2>1, Zenon
<1>11. ASSUME NEW i \in Server, Spawn(i) PROVE OwnerInv'
  <2>1. UNCHANGED <<thr, owner>>
    BY <1>11, Zenon DEF Spawn, OnServer
  <2> QED BY <2>1, Zenon
<1>12. ASSUME NEW i \in Server, AcceptFails(i) PROVE OwnerInv'
  <2>1. UNCHANGED <<thr, owner>>
    BY <1>12, Zenon DEF AcceptFails, OnServer
  <2> QED BY <2>1, Zenon
<1>13. ASSUME NEW c \in Conn, NEW r \in Requests, NEW more \in BOOLEAN, ReadRequest(c, r, more)
       PROVE  OwnerInv'
  <2>1. UNCHANGED <<thr, owner>>
    BY <1>13, Zenon DEF ReadRequest, OnServer
  <2> QED BY <2>1, Zenon
<1>14. ASSUME NEW c \in Conn, NEW r \in Requests, ReadBuffered(c, r) PROVE OwnerInv'
  <2>1. UNCHANGED <<thr, owner>>
    BY <1>14, Zenon DEF ReadBuffered, OnServer
  <2> QED BY <2>1, Zenon
<1>15. ASSUME NEW c \in Conn, conn[c].at = "read" \/ Known(c), Ends(c) PROVE OwnerInv'
  <2>1. UNCHANGED <<thr, owner>>
    BY <1>15, Zenon DEF Ends, OnServer
  <2> QED BY <2>1, Zenon
<1>16. ASSUME NEW c \in Conn, NEW from, NEW to, Moves(from, to), Goes(c, from, to) PROVE OwnerInv'
  <2>1. UNCHANGED <<thr, owner>>
    BY <1>16, Zenon DEF Goes, OnServer
  <2> QED BY <2>1, Zenon
<1>17. ASSUME Dies PROVE OwnerInv'
  BY <1>17, <1>0 DEF Dies, Idle
<1>18. ASSUME Boot PROVE OwnerInv'
  <2>1. UNCHANGED <<thr, owner>>
    BY <1>18, Zenon DEF Boot, OnServer
  <2> QED BY <2>1, Zenon
<1>19. ASSUME UNCHANGED vars PROVE OwnerInv'
  <2>1. UNCHANGED <<thr, owner>>
    BY <1>19, Zenon DEF vars, OnServer
  <2> QED BY <2>1, Zenon
<1>20. ASSUME NEW t \in Thread, Aside(t) PROVE OwnerInv'
  BY <1>20, <1>0, AsideEffect
<1> HIDE DEF OwnerInv, Locked, At, Takes
<1> QED BY StepCases, <1>1, <1>2, <1>3, <1>4, <1>5, <1>6, <1>7, <1>8, <1>9, <1>10,
           <1>11, <1>12, <1>13, <1>14, <1>15, <1>16, <1>17, <1>18, <1>19, <1>20,
           Zenon

\* None is no thread, port, server or connection.
LEMMA NoneApart ==
    None \notin Thread /\ None \notin Port /\ None \notin Server /\ None \notin Conn
BY LifecycleAssumption DEF Server

\* A step moves a thread only with the server it works on.
LEMMA ThreadStep ==
    ASSUME Typed, OwnerInv, ThreadInv, ServerInv, [Next]_vars
    PROVE  ThreadInv'
<1>0. /\ thr \in [Thread -> Thread0] /\ sv \in [Server -> Server0] /\ conn \in [Conn -> Conn0]
      /\ srv \in Server \cup {None} /\ None \notin Thread /\ None \notin Port /\ None \notin Server
  BY NoneApart DEF Typed
<1> USE DEF ThreadInv
<1>1. ASSUME NEW t \in Thread, NEW i \in Server, NEW p \in Port, Begins(t, i, p)
      PROVE  ThreadInv'
  BY <1>1, <1>0
  DEF Begins, Listen, ThrTo, Takes, At, Thread0, Server0, ServerInv, OwnerInv, Locked, Stays
<1>2. ASSUME NEW t \in Thread, StartLock(t) PROVE ThreadInv'
  BY <1>2, <1>0
  DEF StartLock, ThrTo, Takes, At, Thread0, Server0, ServerInv, OwnerInv, Locked, Stays
<1>3. ASSUME NEW t \in Thread, Register(t) PROVE ThreadInv'
  <2>1. srv' = srv /\ \A j \in Server : sv'[j].listen = sv[j].listen
    BY <1>3, <1>0 DEF Register, Server0
  <2>2. \A u \in Thread : thr'[u] = thr[u] \/ thr'[u].at = "idle"
    BY <1>3, <1>0 DEF Register, Idle
  <2> QED BY <1>0, <2>1, <2>2
<1>4. ASSUME NEW t \in Thread, CloseLock(t) PROVE ThreadInv'
  BY <1>4, <1>0
  DEF CloseLock, ThrTo, Takes, At, Thread0, Server0, ServerInv, OwnerInv, Locked, Stays
<1>5. ASSUME NEW t \in Thread, Sweep(t) PROVE ThreadInv'
  BY <1>5, <1>0 DEF Sweep, ThrTo, Takes, At, Thread0, Server0, ServerInv, OwnerInv, Locked, Stays
<1>6. ASSUME NEW t \in Thread, CloseReturn(t) PROVE ThreadInv'
  BY <1>6, <1>0
  DEF CloseReturn, ThrTo, Takes, At, Thread0, Server0, ServerInv, OwnerInv, Locked, Stays
<1>7. ASSUME NEW t \in Thread, SaveOpen(t) PROVE ThreadInv'
  <2>1. UNCHANGED <<sv, srv>>
    BY <1>7, Zenon DEF SaveOpen
  <2>2. \A u \in Thread : thr'[u] = thr[u] \/ thr'[u].at = "save"
    BY <1>7, <1>0 DEF SaveOpen, ThrTo, Thread0
  <2> QED BY <1>0, <2>1, <2>2
<1>8. ASSUME NEW t \in Thread, SaveWrite(t) PROVE ThreadInv'
  BY <1>8, <1>0
  DEF SaveWrite, ThrTo, Takes, At, Thread0, Server0, ServerInv, OwnerInv, Locked, Stays
<1>9. ASSUME NEW i \in Server, NEW c \in Conn, Dial(c, i) PROVE ThreadInv'
  <2>1. UNCHANGED <<thr, sv, srv>>
    BY <1>9, Zenon DEF Dial, OnServer
  <2> QED BY <2>1, Zenon
<1>10. ASSUME NEW i \in Server, NEW c \in Conn, Accept(i, c) PROVE ThreadInv'
  <2>1. UNCHANGED <<thr, srv>> /\ \A j \in Server : sv'[j].listen = sv[j].listen
    BY <1>10, <1>0 DEF Accept, OnServer, Server0
  <2> QED BY <2>1
<1>11. ASSUME NEW i \in Server, Spawn(i) PROVE ThreadInv'
  <2>1. UNCHANGED <<thr, srv>> /\ \A j \in Server : sv'[j].listen = sv[j].listen
    BY <1>11, <1>0 DEF Spawn, OnServer, Server0
  <2> QED BY <2>1
<1>12. ASSUME NEW i \in Server, AcceptFails(i) PROVE ThreadInv'
  <2>1. UNCHANGED <<thr, srv>> /\ \A j \in Server : sv'[j].listen = sv[j].listen
    BY <1>12, <1>0 DEF AcceptFails, OnServer, Server0
  <2> QED BY <2>1
<1>13. ASSUME NEW c \in Conn, NEW r \in Requests, NEW more \in BOOLEAN, ReadRequest(c, r, more)
       PROVE  ThreadInv'
  <2>1. UNCHANGED <<thr, sv, srv>>
    BY <1>13, Zenon DEF ReadRequest, OnServer
  <2> QED BY <2>1, Zenon
<1>14. ASSUME NEW c \in Conn, NEW r \in Requests, ReadBuffered(c, r) PROVE ThreadInv'
  <2>1. UNCHANGED <<thr, sv, srv>>
    BY <1>14, Zenon DEF ReadBuffered, OnServer
  <2> QED BY <2>1, Zenon
<1>15. ASSUME NEW c \in Conn, conn[c].at = "read" \/ Known(c), Ends(c) PROVE ThreadInv'
  <2>1. UNCHANGED <<thr, srv>> /\ \A j \in Server : sv'[j].listen = sv[j].listen
    BY <1>15, <1>0 DEF Ends, OnServer, Server0
  <2> QED BY <2>1
<1>16. ASSUME NEW c \in Conn, NEW from, NEW to, Moves(from, to), Goes(c, from, to) PROVE ThreadInv'
  <2>1. UNCHANGED <<thr, sv, srv>>
    BY <1>16, Zenon DEF Goes, OnServer
  <2> QED BY <2>1, Zenon
<1>17. ASSUME Dies PROVE ThreadInv'
  BY <1>17, <1>0 DEF Dies, Idle
<1>18. ASSUME Boot PROVE ThreadInv'
  <2>1. UNCHANGED <<thr, sv, srv>>
    BY <1>18, Zenon DEF Boot, OnServer
  <2> QED BY <2>1, Zenon
<1>19. ASSUME UNCHANGED vars PROVE ThreadInv'
  <2>1. UNCHANGED <<thr, sv, srv>>
    BY <1>19, Zenon DEF vars, OnServer
  <2> QED BY <2>1, Zenon
<1>20. ASSUME NEW t \in Thread, Aside(t) PROVE ThreadInv'
  BY <1>20, <1>0, AsideEffect
<1> HIDE DEF ThreadInv
<1> QED BY StepCases, <1>1, <1>2, <1>3, <1>4, <1>5, <1>6, <1>7, <1>8, <1>9, <1>10,
           <1>11, <1>12, <1>13, <1>14, <1>15, <1>16, <1>17, <1>18, <1>19, <1>20,
           Zenon

\* m.srv stays a server that is open until it is closed, and a new server stays untouched.
LEMMA ServerStep ==
    ASSUME Typed, OwnerInv, ThreadInv, ServerInv, ConnInv, [Next]_vars
    PROVE  ServerInv'
<1>0. /\ thr \in [Thread -> Thread0] /\ sv \in [Server -> Server0] /\ conn \in [Conn -> Conn0]
      /\ srv \in Server \cup {None} /\ None \notin Thread /\ None \notin Port /\ None \notin Server
  BY NoneApart DEF Typed
<1> USE DEF ServerInv
<1>1. ASSUME NEW t \in Thread, NEW i \in Server, NEW p \in Port, Begins(t, i, p)
      PROVE  ServerInv'
  BY <1>1, <1>0 DEF Begins, Listen, ThrTo, Takes, At, Thread0, Server0, ThreadInv, OwnerInv, Locked
<1>2. ASSUME NEW t \in Thread, StartLock(t) PROVE ServerInv'
  BY <1>2, <1>0 DEF StartLock, ThrTo, Takes, At, Thread0, Server0, ThreadInv, OwnerInv, Locked
<1>3. ASSUME NEW t \in Thread, Register(t) PROVE ServerInv'
  <2>1. srv \in Server /\ sv[srv].listen # "new" /\ srv' = srv
    BY <1>3, <1>0 DEF Register, At, ThreadInv
  <2>2. \A j \in Server : /\ sv'[j].listen = sv[j].listen /\ sv'[j].port = sv[j].port
                          /\ j # srv => sv'[j] = sv[j]
    BY <1>3, <1>0, <2>1 DEF Register, Server0
  <2>3. \A u \in Thread : thr[u].at = "wait" => thr'[u].at = "wait"
    BY <1>3, <1>0 DEF Register, At, Idle
  <2> QED BY <1>0, <2>1, <2>2, <2>3
<1>4. ASSUME NEW t \in Thread, CloseLock(t) PROVE ServerInv'
  BY <1>4, <1>0 DEF CloseLock, ThrTo, Takes, At, Thread0, Server0, ThreadInv, OwnerInv, Locked
<1>5. ASSUME NEW t \in Thread, Sweep(t) PROVE ServerInv'
  BY <1>5, <1>0 DEF Sweep, ThrTo, Takes, At, Thread0, Server0, ThreadInv, OwnerInv, Locked
<1>6. ASSUME NEW t \in Thread, CloseReturn(t) PROVE ServerInv'
  BY <1>6, <1>0 DEF CloseReturn, ThrTo, Takes, At, Thread0, Server0, ThreadInv, OwnerInv, Locked
<1>7. ASSUME NEW t \in Thread, SaveOpen(t) PROVE ServerInv'
  <2>1. UNCHANGED <<sv, srv>>
    BY <1>7, Zenon DEF SaveOpen
  <2>2. \A u \in Thread : thr[u].at = "wait" => thr'[u].at = "wait"
    BY <1>7, <1>0 DEF SaveOpen, At, ThrTo, Thread0
  <2> QED BY <1>0, <2>1, <2>2
<1>8. ASSUME NEW t \in Thread, SaveWrite(t) PROVE ServerInv'
  BY <1>8, <1>0 DEF SaveWrite, ThrTo, Takes, At, Thread0, Server0, ThreadInv, OwnerInv, Locked
<1>9. ASSUME NEW i \in Server, NEW c \in Conn, Dial(c, i) PROVE ServerInv'
  <2>1. UNCHANGED <<thr, sv, srv>>
    BY <1>9, Zenon DEF Dial, OnServer, Stays
  <2> QED BY <2>1, Zenon
<1>10. ASSUME NEW i \in Server, NEW c \in Conn, Accept(i, c) PROVE ServerInv'
  <2>1. sv[i].listen # "new"
    BY <1>10, <1>0, LifecycleAssumption DEF Accept, NewServer, ConnInv, Known
  <2>2. UNCHANGED <<thr, srv>>
    BY <1>10, Zenon DEF Accept, OnServer
  <2>3. \A j \in Server : /\ sv'[j].listen = sv[j].listen /\ sv'[j].port = sv[j].port
                          /\ j # i => sv'[j] = sv[j]
    BY <1>10, <1>0 DEF Accept, Server0
  <2> QED BY <2>1, <2>2, <2>3
<1>11. ASSUME NEW i \in Server, Spawn(i) PROVE ServerInv'
  <2>1. sv[i].listen # "new"
    BY <1>11, <1>0, LifecycleAssumption DEF Spawn, NewServer, ConnInv, Known
  <2>2. UNCHANGED <<thr, srv>>
    BY <1>11, Zenon DEF Spawn, OnServer
  <2>3. \A j \in Server : /\ sv'[j].listen = sv[j].listen /\ sv'[j].port = sv[j].port
                          /\ j # i => sv'[j] = sv[j]
    BY <1>11, <1>0 DEF Spawn, Server0
  <2> QED BY <2>1, <2>2, <2>3
<1>12. ASSUME NEW i \in Server, AcceptFails(i) PROVE ServerInv'
  <2>1. sv[i].listen # "new"
    BY <1>12, <1>0, LifecycleAssumption DEF AcceptFails, NewServer, ConnInv, Known
  <2>2. UNCHANGED <<thr, srv>>
    BY <1>12, Zenon DEF AcceptFails, OnServer
  <2>3. \A j \in Server : /\ sv'[j].listen = sv[j].listen /\ sv'[j].port = sv[j].port
                          /\ j # i => sv'[j] = sv[j]
    BY <1>12, <1>0 DEF AcceptFails, Server0
  <2> QED BY <2>1, <2>2, <2>3
<1>13. ASSUME NEW c \in Conn, NEW r \in Requests, NEW more \in BOOLEAN, ReadRequest(c, r, more)
       PROVE  ServerInv'
  <2>1. UNCHANGED <<thr, sv, srv>>
    BY <1>13, Zenon DEF ReadRequest, OnServer, Stays
  <2> QED BY <2>1, Zenon
<1>14. ASSUME NEW c \in Conn, NEW r \in Requests, ReadBuffered(c, r) PROVE ServerInv'
  <2>1. UNCHANGED <<thr, sv, srv>>
    BY <1>14, Zenon DEF ReadBuffered, OnServer, Stays
  <2> QED BY <2>1, Zenon
<1>15. ASSUME NEW c \in Conn, conn[c].at = "read" \/ Known(c), Ends(c) PROVE ServerInv'
  <2>1. sv[conn[c].srv].listen # "new"
    BY <1>15, <1>0, LifecycleAssumption DEF Ends, NewServer, ConnInv, Known
  <2>2. UNCHANGED <<thr, srv>>
    BY <1>15, Zenon DEF Ends, OnServer
  <2>3. \A j \in Server : /\ sv'[j].listen = sv[j].listen /\ sv'[j].port = sv[j].port
                          /\ j # conn[c].srv => sv'[j] = sv[j]
    BY <1>15, <1>0 DEF Ends, Server0
  <2> QED BY <2>1, <2>2, <2>3
<1>16. ASSUME NEW c \in Conn, NEW from, NEW to, Moves(from, to), Goes(c, from, to) PROVE ServerInv'
  <2>1. UNCHANGED <<thr, sv, srv>>
    BY <1>16, Zenon DEF Goes, OnServer, Stays
  <2> QED BY <2>1, Zenon
<1>17. ASSUME Dies PROVE ServerInv'
  BY <1>17, <1>0 DEF Dies, NewServer
<1>18. ASSUME Boot PROVE ServerInv'
  <2>1. UNCHANGED <<thr, sv, srv>>
    BY <1>18, Zenon DEF Boot, OnServer, Stays
  <2> QED BY <2>1, Zenon
<1>19. ASSUME UNCHANGED vars PROVE ServerInv'
  <2>1. UNCHANGED <<thr, sv, srv>>
    BY <1>19, Zenon DEF vars, OnServer, Stays
  <2> QED BY <2>1, Zenon
<1>20. ASSUME NEW t \in Thread, Aside(t) PROVE ServerInv'
  BY <1>20, <1>0, AsideEffect
<1> HIDE DEF ServerInv
<1> QED BY StepCases, <1>1, <1>2, <1>3, <1>4, <1>5, <1>6, <1>7, <1>8, <1>9, <1>10,
           <1>11, <1>12, <1>13, <1>14, <1>15, <1>16, <1>17, <1>18, <1>19, <1>20,
           Zenon

\* The fields of a connection that a step does not name stay as they are.
LEMMA ConnFields ==
    ASSUME NEW v \in Conn0
    PROVE  /\ \A a : [v EXCEPT !.at = a].at = a /\ [v EXCEPT !.at = a].srv = v.srv
           /\ \A a, r : /\ [v EXCEPT !.at = a, !.req = r].at = a
                        /\ [v EXCEPT !.at = a, !.req = r].srv = v.srv
           /\ \A a, r, m : /\ [v EXCEPT !.at = a, !.req = r, !.more = m].at = a
                           /\ [v EXCEPT !.at = a, !.req = r, !.more = m].srv = v.srv
           /\ [v EXCEPT !.open = FALSE].at = v.at /\ [v EXCEPT !.open = FALSE].srv = v.srv
<1>1. \A a : [v EXCEPT !.at = a].at = a /\ [v EXCEPT !.at = a].srv = v.srv
  BY DEF Conn0
<1>2. \A a, r : [v EXCEPT !.at = a, !.req = r].at = a /\ [v EXCEPT !.at = a, !.req = r].srv = v.srv
  BY DEF Conn0
<1>3. \A a, r, m : /\ [v EXCEPT !.at = a, !.req = r, !.more = m].at = a
                   /\ [v EXCEPT !.at = a, !.req = r, !.more = m].srv = v.srv
  BY DEF Conn0
<1>4. [v EXCEPT !.open = FALSE].at = v.at /\ [v EXCEPT !.open = FALSE].srv = v.srv
  BY DEF Conn0
<1> QED BY <1>1, <1>2, <1>3, <1>4

-----------------------------------------------------------------------------
(* What the steps of the server and of its connections change: one connection, and
   of the servers at most the accept loop and the wait group of one. *)

\* What Dial changes.
LEMMA DialEffect ==
    ASSUME Typed, NEW i \in Server, NEW c \in Conn, Dial(c, i)
    PROVE  /\ UNCHANGED <<srv, thr, sv>>
           /\ \A d \in Conn \ {c} : conn'[d] = conn[d]
           /\ conn'[c].at = "dialed" /\ conn'[c].srv = i
<1>1. UNCHANGED <<srv, thr, sv>>
  BY Zenon DEF Dial, OnServer
<1>2. \A d \in Conn \ {c} : conn'[d] = conn[d]
  BY DEF Dial, OnServer, ConnTo, Typed, Server0, Conn0, NoConn
<1>3. conn'[c].at = "dialed" /\ conn'[c].srv = i
  BY DEF Dial, OnServer, ConnTo, Typed, Server0, Conn0, NoConn
<1> QED BY <1>1, <1>2, <1>3

\* What Accept changes.
LEMMA AcceptEffect ==
    ASSUME Typed, NEW i \in Server, NEW c \in Conn, Accept(i, c)
    PROVE  /\ UNCHANGED <<srv, thr>>
           /\ \A d \in Conn \ {c} : conn'[d] = conn[d]
           /\ conn'[c].at = "held" /\ conn'[c].srv = i
           /\ \A j \in Server \ {i} : sv'[j] = sv[j]
           /\ sv'[i].listen = sv[i].listen /\ sv'[i].port = sv[i].port
           /\ sv'[i].cmds = sv[i].cmds /\ sv'[i].loop = c /\ sv'[i].wg = sv[i].wg
<1>1. UNCHANGED <<srv, thr>>
  BY Zenon DEF Accept, OnServer
<1>2. \A d \in Conn \ {c} : conn'[d] = conn[d]
  BY DEF Accept, OnServer, ConnTo, Typed, Server0, Conn0, NoConn
<1>3. conn'[c].at = "held" /\ conn'[c].srv = i
  BY DEF Accept, OnServer, ConnTo, Typed, Server0, Conn0, NoConn
<1>4. \A j \in Server \ {i} : sv'[j] = sv[j]
  BY DEF Accept, OnServer, ConnTo, Typed, Server0, Conn0, NoConn
<1>5. /\ sv'[i].listen = sv[i].listen /\ sv'[i].port = sv[i].port
      /\ sv'[i].cmds = sv[i].cmds /\ sv'[i].loop = c /\ sv'[i].wg = sv[i].wg
  <2>1. sv'[i] = [sv[i] EXCEPT !.loop = c]
    BY DEF Accept, Typed, Server0
  <2>2. sv[i] \in Server0
    BY DEF Typed
  <2> QED BY <2>1, <2>2 DEF Server0
<1> QED BY <1>1, <1>2, <1>3, <1>4, <1>5

\* What the go statement of the accept loop changes.
LEMMA SpawnEffect ==
    ASSUME Typed, NEW i \in Server, NEW c \in Conn, c = sv[i].loop, Spawn(i)
    PROVE  /\ UNCHANGED <<srv, thr>>
           /\ \A d \in Conn \ {c} : conn'[d] = conn[d]
           /\ conn'[c].at = "accepted" /\ conn'[c].srv = conn[c].srv
           /\ \A j \in Server \ {i} : sv'[j] = sv[j]
           /\ sv'[i].listen = sv[i].listen /\ sv'[i].port = sv[i].port
           /\ sv'[i].cmds = sv[i].cmds /\ sv'[i].loop = "accept" /\ sv'[i].wg = sv[i].wg \cup {c}
<1>1. UNCHANGED <<srv, thr>>
  BY Zenon DEF Spawn, OnServer
<1>2. \A d \in Conn \ {c} : conn'[d] = conn[d]
  BY DEF Spawn, OnServer, ConnTo, Typed, Server0, Conn0, NoConn
<1>3. conn'[c].at = "accepted" /\ conn'[c].srv = conn[c].srv
  <2>1. conn'[c] = [conn[c] EXCEPT !.at = "accepted"]
    BY DEF Spawn, ConnTo, Typed
  <2>2. conn[c] \in Conn0
    BY DEF Typed
  <2>3. /\ [conn[c] EXCEPT !.at = "accepted"].at = "accepted"
        /\ [conn[c] EXCEPT !.at = "accepted"].srv = conn[c].srv
    BY <2>2, ConnFields
  <2> QED BY <2>1, <2>3, Zenon
<1>4. \A j \in Server \ {i} : sv'[j] = sv[j]
  BY DEF Spawn, OnServer, ConnTo, Typed, Server0, Conn0, NoConn
<1>5. /\ sv'[i].listen = sv[i].listen /\ sv'[i].port = sv[i].port
      /\ sv'[i].cmds = sv[i].cmds /\ sv'[i].loop = "accept" /\ sv'[i].wg = sv[i].wg \cup {c}
  BY DEF Spawn, OnServer, ConnTo, Typed, Server0, Conn0, NoConn
<1> QED BY <1>1, <1>2, <1>3, <1>4, <1>5

\* What the end of the accept loop changes.
LEMMA AcceptFailsEffect ==
    ASSUME Typed, NEW i \in Server, AcceptFails(i)
    PROVE  /\ UNCHANGED <<srv, thr, conn>>
           /\ \A j \in Server \ {i} : sv'[j] = sv[j]
           /\ sv'[i].listen = sv[i].listen /\ sv'[i].port = sv[i].port
           /\ sv'[i].cmds = sv[i].cmds /\ sv'[i].loop = "done" /\ sv'[i].wg = sv[i].wg \ {"serve"}
<1>1. UNCHANGED <<srv, thr, conn>>
  BY Zenon DEF AcceptFails, OnServer
<1>2. \A j \in Server \ {i} : sv'[j] = sv[j]
  BY DEF AcceptFails, OnServer, ConnTo, Typed, Server0, Conn0, NoConn
<1>3. /\ sv'[i].listen = sv[i].listen /\ sv'[i].port = sv[i].port
      /\ sv'[i].cmds = sv[i].cmds /\ sv'[i].loop = "done" /\ sv'[i].wg = sv[i].wg \ {"serve"}
  <2>1. sv'[i] = [sv[i] EXCEPT !.loop = "done", !.wg = sv[i].wg \ {"serve"}]
    BY DEF AcceptFails, Typed, Server0
  <2>2. sv[i] \in Server0
    BY DEF Typed
  <2> QED BY <2>1, <2>2 DEF Server0
<1> QED BY <1>1, <1>2, <1>3

\* What reading a request changes.
LEMMA ReadEffect ==
    ASSUME Typed, NEW c \in Conn, NEW r \in Requests, NEW more,
           ReadRequest(c, r, more) \/ ReadBuffered(c, r)
    PROVE  /\ UNCHANGED <<srv, thr, sv>>
           /\ \A d \in Conn \ {c} : conn'[d] = conn[d]
           /\ conn'[c].at = "dispatch" /\ conn'[c].srv = conn[c].srv
<1>1. UNCHANGED <<srv, thr, sv>>
  BY Zenon DEF ReadRequest, ReadBuffered, OnServer
<1>2. \A d \in Conn \ {c} : conn'[d] = conn[d]
  BY DEF ReadRequest, ReadBuffered, OnServer, ConnTo, Typed, Server0, Conn0, NoConn
<1>3. conn'[c].at = "dispatch" /\ conn'[c].srv = conn[c].srv
  <2>1. \/ conn'[c] = [conn[c] EXCEPT !.at = "dispatch", !.req = r, !.more = more]
        \/ conn'[c] = [conn[c] EXCEPT !.at = "dispatch", !.req = r, !.more = FALSE]
    BY DEF ReadRequest, ReadBuffered, Typed
  <2>2. conn[c] \in Conn0
    BY DEF Typed
  <2>3. /\ [conn[c] EXCEPT !.at = "dispatch", !.req = r, !.more = more].at = "dispatch"
        /\ [conn[c] EXCEPT !.at = "dispatch", !.req = r, !.more = more].srv = conn[c].srv
    BY <2>2, ConnFields
  <2>4. /\ [conn[c] EXCEPT !.at = "dispatch", !.req = r, !.more = FALSE].at = "dispatch"
        /\ [conn[c] EXCEPT !.at = "dispatch", !.req = r, !.more = FALSE].srv = conn[c].srv
    BY <2>2, ConnFields
  <2> QED BY <2>1, <2>3, <2>4, Zenon
<1> QED BY <1>1, <1>2, <1>3

\* What the end of a connection changes.
LEMMA EndsEffect ==
    ASSUME Typed, NEW c \in Conn, conn[c].srv \in Server, Ends(c)
    PROVE  /\ UNCHANGED <<srv, thr>>
           /\ \A d \in Conn \ {c} : conn'[d] = conn[d]
           /\ conn'[c].at = "none"
           /\ \A j \in Server \ {conn[c].srv} : sv'[j] = sv[j]
           /\ sv'[conn[c].srv].listen = sv[conn[c].srv].listen
           /\ sv'[conn[c].srv].port = sv[conn[c].srv].port
           /\ sv'[conn[c].srv].cmds = sv[conn[c].srv].cmds
           /\ sv'[conn[c].srv].loop = sv[conn[c].srv].loop
           /\ sv'[conn[c].srv].wg = sv[conn[c].srv].wg \ {c}
<1>1. UNCHANGED <<srv, thr>>
  BY Zenon DEF Ends, OnServer
<1>2. \A d \in Conn \ {c} : conn'[d] = conn[d]
  BY DEF Ends, OnServer, ConnTo, Typed, Server0, Conn0, NoConn
<1>3. conn'[c].at = "none"
  BY DEF Ends, OnServer, ConnTo, Typed, Server0, Conn0, NoConn
<1>4. \A j \in Server \ {conn[c].srv} : sv'[j] = sv[j]
  BY DEF Ends, OnServer, ConnTo, Typed, Server0, Conn0, NoConn
<1>5. /\ sv'[conn[c].srv].listen = sv[conn[c].srv].listen
      /\ sv'[conn[c].srv].port = sv[conn[c].srv].port
      /\ sv'[conn[c].srv].cmds = sv[conn[c].srv].cmds
      /\ sv'[conn[c].srv].loop = sv[conn[c].srv].loop
      /\ sv'[conn[c].srv].wg = sv[conn[c].srv].wg \ {c}
  <2>1. sv'[conn[c].srv] = [sv[conn[c].srv] EXCEPT !.wg = sv[conn[c].srv].wg \ {c}]
    BY DEF Ends, Typed, Server0
  <2>2. sv[conn[c].srv] \in Server0
    BY DEF Typed
  <2> QED BY <2>1, <2>2 DEF Server0
<1> QED BY <1>1, <1>2, <1>3, <1>4, <1>5

\* What a move of a connection's goroutine changes.
LEMMA GoesEffect ==
    ASSUME Typed, NEW c \in Conn, NEW from, NEW to, Moves(from, to), Goes(c, from, to)
    PROVE  /\ UNCHANGED <<srv, thr, sv>>
           /\ \A d \in Conn \ {c} : conn'[d] = conn[d]
           /\ conn'[c].at = to /\ conn'[c].srv = conn[c].srv
<1>1. UNCHANGED <<srv, thr, sv>>
  BY Zenon DEF Goes, OnServer
<1>2. \A d \in Conn \ {c} : conn'[d] = conn[d]
  BY DEF Goes, OnServer, ConnTo, Typed, Server0, Conn0, NoConn
<1>3. conn'[c].at = to /\ conn'[c].srv = conn[c].srv
  <2>1. conn'[c] = [conn[c] EXCEPT !.at = to, !.req = IF to = "read" THEN NoReq ELSE conn[c].req]
    BY DEF Goes, Typed
  <2>2. conn[c] \in Conn0
    BY DEF Typed
  <2>3. /\ [conn[c] EXCEPT !.at = to, !.req = IF to = "read" THEN NoReq ELSE conn[c].req].at = to
        /\ [conn[c] EXCEPT !.at = to, !.req = IF to = "read" THEN NoReq ELSE conn[c].req].srv
              = conn[c].srv
    BY <2>2, ConnFields
  <2> QED BY <2>1, <2>3, Zenon
<1> QED BY <1>1, <1>2, <1>3

\* What the sweep of Close changes.
LEMMA SweepEffect ==
    ASSUME Typed, NEW t \in Thread, srv \in Server, Sweep(t)
    PROVE  /\ srv' = srv
           /\ \A j \in Server \ {srv} : sv'[j] = sv[j]
           /\ sv'[srv].listen = "closed" /\ sv'[srv].port = sv[srv].port
           /\ sv'[srv].cmds = sv[srv].cmds /\ sv'[srv].loop = sv[srv].loop
           /\ sv'[srv].wg = sv[srv].wg
           /\ \A c \in Conn : \/ conn'[c].at = "none"
                              \/ conn'[c].at = conn[c].at /\ conn'[c].srv = conn[c].srv
           /\ \A c \in Conn : conn[c].at \notin {"none", "dialed"} =>
                 conn'[c].at = conn[c].at /\ conn'[c].srv = conn[c].srv
<1>1. srv' = srv
  BY DEF Sweep, InPeers, ThrTo, Stays, OnServer, ConnTo, Typed, Server0, Conn0, NoConn
<1>2. \A j \in Server \ {srv} : sv'[j] = sv[j]
  BY DEF Sweep, InPeers, ThrTo, Stays, OnServer, ConnTo, Typed, Server0, Conn0, NoConn
<1>3. /\ sv'[srv].listen = "closed" /\ sv'[srv].port = sv[srv].port
      /\ sv'[srv].cmds = sv[srv].cmds /\ sv'[srv].loop = sv[srv].loop /\ sv'[srv].wg = sv[srv].wg
  BY DEF Sweep, InPeers, ThrTo, Stays, OnServer, ConnTo, Typed, Server0, Conn0, NoConn
<1>4. ASSUME NEW c \in Conn
      PROVE  /\ conn'[c].at = "none" \/ (conn'[c].at = conn[c].at /\ conn'[c].srv = conn[c].srv)
             /\ conn[c].at \notin {"none", "dialed"} =>
                   conn'[c].at = conn[c].at /\ conn'[c].srv = conn[c].srv
  <2>1. \/ conn[c].at = "dialed" /\ conn'[c] = NoConn
        \/ conn'[c] = [conn[c] EXCEPT !.open = FALSE]
        \/ conn'[c] = conn[c]
    BY DEF Sweep
  <2>2. conn[c] \in Conn0 /\ NoConn.at = "none"
    BY DEF Typed, NoConn
  <2> QED BY <2>1, <2>2, ConnFields, Zenon
<1> QED BY <1>1, <1>2, <1>3, <1>4

\* The accept loop keeps its connection, and a connection its server.
LEMMA ConnStep ==
    ASSUME Typed, ThreadInv, ConnInv, [Next]_vars
    PROVE  ConnInv'
<1>0. /\ thr \in [Thread -> Thread0] /\ sv \in [Server -> Server0] /\ conn \in [Conn -> Conn0]
      /\ srv \in Server \cup {None} /\ None \notin Thread /\ None \notin Port /\ None \notin Server
      /\ "serve" \notin Conn /\ "accept" \notin Conn /\ "done" \notin Conn
  BY NoneApart, LifecycleAssumption DEF Typed
<1> USE DEF ConnInv
<1>1. ASSUME NEW t \in Thread, NEW i \in Server, NEW p \in Port, Begins(t, i, p) PROVE ConnInv'
  <2>1. conn' = conn
    BY <1>1, Zenon DEF Begins, Listen
  <2>2. sv'[i].loop = "accept" /\ sv'[i].listen = "open" /\ \A j \in Server \ {i} : sv'[j] = sv[j]
    BY <1>1, <1>0 DEF Begins, Listen, Server0
  <2> QED BY <1>0, <2>1, <2>2
<1>2. ASSUME NEW t \in Thread, StartLock(t) PROVE ConnInv'
  <2>1. UNCHANGED <<sv, conn>>
    BY <1>2, Zenon DEF StartLock, OnServer, Stays
  <2> QED BY <2>1, Zenon
<1>3. ASSUME NEW t \in Thread, Register(t) PROVE ConnInv'
  <2>1. conn' = conn
    BY <1>3, Zenon DEF Register
  <2>2. \A j \in Server : sv'[j].loop = sv[j].loop /\ sv'[j].listen = sv[j].listen
    BY <1>3, <1>0 DEF Register, Server0
  <2> QED BY <1>0, <2>1, <2>2
<1>4. ASSUME NEW t \in Thread, CloseLock(t) PROVE ConnInv'
  <2>1. UNCHANGED <<sv, conn>>
    BY <1>4, Zenon DEF CloseLock, OnServer, Stays
  <2> QED BY <2>1, Zenon
<1>5. ASSUME NEW t \in Thread, Sweep(t) PROVE ConnInv'
  <2>0. srv \in Server
    BY <1>5 DEF Sweep, At, ThreadInv
  <2>1. \A j \in Server :
           sv'[j].loop = sv[j].loop /\ (sv[j].listen # "new" => sv'[j].listen # "new")
    BY <1>5, <2>0, SweepEffect
  <2> QED BY <1>5, <1>0, <2>0, <2>1, SweepEffect
<1>6. ASSUME NEW t \in Thread, CloseReturn(t) PROVE ConnInv'
  <2>1. UNCHANGED <<sv, conn>>
    BY <1>6, Zenon DEF CloseReturn, OnServer, Stays
  <2> QED BY <2>1, Zenon
<1>7. ASSUME NEW t \in Thread, SaveOpen(t) PROVE ConnInv'
  <2>1. UNCHANGED <<sv, conn>>
    BY <1>7, Zenon DEF SaveOpen, OnServer, Stays
  <2> QED BY <2>1, Zenon
<1>8. ASSUME NEW t \in Thread, SaveWrite(t) PROVE ConnInv'
  <2>1. UNCHANGED <<sv, conn>>
    BY <1>8, Zenon DEF SaveWrite, OnServer, Stays
  <2> QED BY <2>1, Zenon
<1>9. ASSUME NEW i \in Server, NEW c \in Conn, Dial(c, i) PROVE ConnInv'
  <2>1. sv' = sv /\ sv[i].listen = "open" /\ conn[c].at = "none"
    BY <1>9 DEF Dial
  <2>2. /\ \A d \in Conn \ {c} : conn'[d] = conn[d]
        /\ conn'[c].at = "dialed" /\ conn'[c].srv = i
    BY <1>9, DialEffect
  <2> QED BY <2>1, <2>2
<1>10. ASSUME NEW i \in Server, NEW c \in Conn, Accept(i, c) PROVE ConnInv'
  <2>1. sv[i].listen = "open" /\ conn[c].at = "dialed"
    BY <1>10 DEF Accept
  <2>2. /\ \A d \in Conn \ {c} : conn'[d] = conn[d]
        /\ conn'[c].at = "held" /\ conn'[c].srv = i
        /\ \A j \in Server \ {i} : sv'[j] = sv[j]
        /\ sv'[i].loop = c /\ sv'[i].listen = sv[i].listen
    BY <1>10, AcceptEffect
  <2> QED BY <2>1, <2>2
<1>11. ASSUME NEW i \in Server, Spawn(i) PROVE ConnInv'
  <2> DEFINE c == sv[i].loop
  <2>1. c \in Conn /\ conn[c].at = "held" /\ conn[c].srv = i
    BY <1>11 DEF Spawn
  <2>2. /\ \A d \in Conn \ {c} : conn'[d] = conn[d]
        /\ conn'[c].at = "accepted" /\ conn'[c].srv = i
        /\ \A j \in Server \ {i} : sv'[j] = sv[j]
        /\ sv'[i].loop = "accept" /\ sv'[i].listen = sv[i].listen
    BY <1>11, <2>1, SpawnEffect
  <2> QED BY <1>0, <2>1, <2>2
<1>12. ASSUME NEW i \in Server, AcceptFails(i) PROVE ConnInv'
  <2>1. conn' = conn
    BY <1>12, Zenon DEF AcceptFails
  <2>2. /\ \A j \in Server \ {i} : sv'[j] = sv[j]
        /\ sv'[i].loop = "done" /\ sv'[i].listen = sv[i].listen
    BY <1>12, AcceptFailsEffect
  <2> QED BY <1>0, <2>1, <2>2
<1>13. ASSUME NEW c \in Conn, NEW r \in Requests, NEW more \in BOOLEAN, ReadRequest(c, r, more)
       PROVE  ConnInv'
  <2>1. sv' = sv /\ conn[c].at = "read"
    BY <1>13 DEF ReadRequest
  <2>2. /\ \A d \in Conn \ {c} : conn'[d] = conn[d]
        /\ conn'[c].at = "dispatch" /\ conn'[c].srv = conn[c].srv
    BY <1>13, ReadEffect
  <2> QED BY <2>1, <2>2
<1>14. ASSUME NEW c \in Conn, NEW r \in Requests, ReadBuffered(c, r) PROVE ConnInv'
  <2>1. sv' = sv /\ conn[c].at = "read"
    BY <1>14 DEF ReadBuffered
  <2>2. /\ \A d \in Conn \ {c} : conn'[d] = conn[d]
        /\ conn'[c].at = "dispatch" /\ conn'[c].srv = conn[c].srv
    BY <1>14, ReadEffect
  <2> QED BY <2>1, <2>2
<1>15. ASSUME NEW c \in Conn, conn[c].at = "read" \/ Known(c), Ends(c) PROVE ConnInv'
  <2>1. conn[c].at \notin {"none", "held"} /\ conn[c].srv \in Server
    BY <1>15 DEF Known
  <2>2. /\ \A d \in Conn \ {c} : conn'[d] = conn[d]
        /\ conn'[c].at = "none"
        /\ \A j \in Server : sv'[j].loop = sv[j].loop /\ sv'[j].listen = sv[j].listen
    BY <1>15, <2>1, EndsEffect
  <2> QED BY <2>1, <2>2
<1>16. ASSUME NEW c \in Conn, NEW from, NEW to, Moves(from, to), Goes(c, from, to) PROVE ConnInv'
  <2>1. sv' = sv /\ conn[c].at \notin {"none", "held"}
    BY <1>16 DEF Goes, Moves
  <2>2. /\ \A d \in Conn \ {c} : conn'[d] = conn[d]
        /\ conn'[c].at = to /\ conn'[c].srv = conn[c].srv
    BY <1>16, GoesEffect
  <2> QED BY <2>1, <2>2
<1>17. ASSUME Dies PROVE ConnInv'
  BY <1>17, <1>0 DEF Dies, NewServer, NoConn
<1>18. ASSUME Boot PROVE ConnInv'
  <2>1. UNCHANGED <<sv, conn>>
    BY <1>18, Zenon DEF Boot, OnServer, Stays
  <2> QED BY <2>1, Zenon
<1>19. ASSUME UNCHANGED vars PROVE ConnInv'
  <2>1. UNCHANGED <<sv, conn>>
    BY <1>19, Zenon DEF vars, OnServer, Stays
  <2> QED BY <2>1, Zenon
<1>20. ASSUME NEW t \in Thread, Aside(t) PROVE ConnInv'
  BY <1>20, AsideEffect
<1> HIDE DEF ConnInv
<1> QED BY StepCases, <1>1, <1>2, <1>3, <1>4, <1>5, <1>6, <1>7, <1>8, <1>9, <1>10,
           <1>11, <1>12, <1>13, <1>14, <1>15, <1>16, <1>17, <1>18, <1>19, <1>20,
           Zenon

\* Every goroutine is counted from its go statement to its Done.
LEMMA CountStep ==
    ASSUME Typed, ThreadInv, ConnInv, Counted, [Next]_vars
    PROVE  Counted'
<1>0. /\ thr \in [Thread -> Thread0] /\ sv \in [Server -> Server0] /\ conn \in [Conn -> Conn0]
      /\ srv \in Server \cup {None} /\ None \notin Thread /\ None \notin Port /\ None \notin Server
      /\ "serve" \notin Conn /\ "accept" \notin Conn /\ "done" \notin Conn
  BY NoneApart, LifecycleAssumption DEF Typed
<1> USE DEF Counted
<1>1. ASSUME NEW t \in Thread, NEW i \in Server, NEW p \in Port, Begins(t, i, p) PROVE Counted'
  <2>1. conn' = conn /\ sv[i].listen = "new"
    BY <1>1 DEF Begins, Listen
  <2>2. sv'[i].wg = {"serve"} /\ \A j \in Server \ {i} : sv'[j] = sv[j]
    BY <1>1, <1>0 DEF Begins, Listen, Server0
  <2>3. \A c \in Conn : conn[c].at # "none" => conn[c].srv \in Server \ {i}
    BY <2>1 DEF ConnInv
  <2> QED BY <1>0, <2>1, <2>2, <2>3
<1>2. ASSUME NEW t \in Thread, StartLock(t) PROVE Counted'
  <2>1. UNCHANGED <<sv, conn>>
    BY <1>2, Zenon DEF StartLock, OnServer, Stays
  <2> QED BY <2>1, Zenon
<1>3. ASSUME NEW t \in Thread, Register(t) PROVE Counted'
  <2>1. conn' = conn
    BY <1>3, Zenon DEF Register
  <2>2. \A j \in Server : sv'[j].loop = sv[j].loop /\ sv'[j].wg = sv[j].wg
    BY <1>3, <1>0 DEF Register, Server0
  <2> QED BY <2>1, <2>2 DEF ConnInv
<1>4. ASSUME NEW t \in Thread, CloseLock(t) PROVE Counted'
  <2>1. UNCHANGED <<sv, conn>>
    BY <1>4, Zenon DEF CloseLock, OnServer, Stays
  <2> QED BY <2>1, Zenon
<1>5. ASSUME NEW t \in Thread, Sweep(t) PROVE Counted'
  <2>0. srv \in Server
    BY <1>5 DEF Sweep, At, ThreadInv
  <2>1. \A j \in Server : sv'[j].loop = sv[j].loop /\ sv'[j].wg = sv[j].wg
    BY <1>5, <2>0, SweepEffect
  <2> QED BY <1>5, <2>0, <2>1, SweepEffect DEF ConnInv
<1>6. ASSUME NEW t \in Thread, CloseReturn(t) PROVE Counted'
  <2>1. UNCHANGED <<sv, conn>>
    BY <1>6, Zenon DEF CloseReturn, OnServer, Stays
  <2> QED BY <2>1, Zenon
<1>7. ASSUME NEW t \in Thread, SaveOpen(t) PROVE Counted'
  <2>1. UNCHANGED <<sv, conn>>
    BY <1>7, Zenon DEF SaveOpen, OnServer, Stays
  <2> QED BY <2>1, Zenon
<1>8. ASSUME NEW t \in Thread, SaveWrite(t) PROVE Counted'
  <2>1. UNCHANGED <<sv, conn>>
    BY <1>8, Zenon DEF SaveWrite, OnServer, Stays
  <2> QED BY <2>1, Zenon
<1>9. ASSUME NEW i \in Server, NEW c \in Conn, Dial(c, i) PROVE Counted'
  <2>1. sv' = sv /\ sv[i].listen = "open" /\ conn[c].at = "none"
    BY <1>9 DEF Dial
  <2>2. /\ \A d \in Conn \ {c} : conn'[d] = conn[d]
        /\ conn'[c].at = "dialed" /\ conn'[c].srv = i
    BY <1>9, DialEffect
  <2> QED BY <2>1, <2>2
<1>10. ASSUME NEW i \in Server, NEW c \in Conn, Accept(i, c) PROVE Counted'
  <2>1. sv[i].loop = "accept" /\ conn[c].at = "dialed"
    BY <1>10 DEF Accept
  <2>2. /\ \A d \in Conn \ {c} : conn'[d] = conn[d]
        /\ conn'[c].at = "held" /\ conn'[c].srv = i
        /\ \A j \in Server \ {i} : sv'[j] = sv[j]
        /\ sv'[i].loop = c /\ sv'[i].wg = sv[i].wg
    BY <1>10, AcceptEffect
  <2> QED BY <2>1, <2>2 DEF ConnInv
<1>11. ASSUME NEW i \in Server, Spawn(i) PROVE Counted'
  <2> DEFINE c == sv[i].loop
  <2>1. c \in Conn /\ conn[c].at = "held" /\ conn[c].srv = i
    BY <1>11 DEF Spawn, ConnInv
  <2>2. /\ \A d \in Conn \ {c} : conn'[d] = conn[d]
        /\ conn'[c].at = "accepted" /\ conn'[c].srv = i
        /\ \A j \in Server \ {i} : sv'[j] = sv[j]
        /\ sv'[i].loop = "accept" /\ sv'[i].wg = sv[i].wg \cup {c}
    BY <1>11, <2>1, SpawnEffect
  <2>3. "serve" \in sv[i].wg
    BY <1>0, <2>1
  <2> QED BY <1>0, <2>1, <2>2, <2>3 DEF ConnInv
<1>12. ASSUME NEW i \in Server, AcceptFails(i) PROVE Counted'
  <2>1. conn' = conn
    BY <1>12, Zenon DEF AcceptFails
  <2>2. /\ \A j \in Server \ {i} : sv'[j] = sv[j]
        /\ sv'[i].loop = "done" /\ sv'[i].wg = sv[i].wg \ {"serve"}
    BY <1>12, AcceptFailsEffect
  <2> QED BY <1>0, <2>1, <2>2 DEF ConnInv
<1>13. ASSUME NEW c \in Conn, NEW r \in Requests, NEW more \in BOOLEAN, ReadRequest(c, r, more)
       PROVE  Counted'
  <2>1. sv' = sv /\ conn[c].at = "read"
    BY <1>13 DEF ReadRequest
  <2>2. /\ \A d \in Conn \ {c} : conn'[d] = conn[d]
        /\ conn'[c].at = "dispatch" /\ conn'[c].srv = conn[c].srv
    BY <1>13, ReadEffect
  <2> QED BY <2>1, <2>2
<1>14. ASSUME NEW c \in Conn, NEW r \in Requests, ReadBuffered(c, r) PROVE Counted'
  <2>1. sv' = sv /\ conn[c].at = "read"
    BY <1>14 DEF ReadBuffered
  <2>2. /\ \A d \in Conn \ {c} : conn'[d] = conn[d]
        /\ conn'[c].at = "dispatch" /\ conn'[c].srv = conn[c].srv
    BY <1>14, ReadEffect
  <2> QED BY <2>1, <2>2
<1>15. ASSUME NEW c \in Conn, conn[c].at = "read" \/ Known(c), Ends(c) PROVE Counted'
  <2> DEFINE i == conn[c].srv
  <2>1. conn[c].at \notin {"none", "held"} /\ i \in Server
    BY <1>15 DEF Known, ConnInv
  <2>2. /\ \A d \in Conn \ {c} : conn'[d] = conn[d]
        /\ conn'[c].at = "none"
        /\ \A j \in Server \ {i} : sv'[j] = sv[j]
        /\ sv'[i].loop = sv[i].loop /\ sv'[i].wg = sv[i].wg \ {c}
    BY <1>15, <2>1, EndsEffect
  <2> QED BY <1>0, <2>1, <2>2 DEF ConnInv
<1>16. ASSUME NEW c \in Conn, NEW from, NEW to, Moves(from, to), Goes(c, from, to) PROVE Counted'
  <2>1. sv' = sv /\ conn[c].at \notin {"none", "dialed", "held"}
    BY <1>16 DEF Goes, Moves
  <2>2. /\ \A d \in Conn \ {c} : conn'[d] = conn[d]
        /\ conn'[c].at = to /\ conn'[c].srv = conn[c].srv
    BY <1>16, GoesEffect
  <2> QED BY <2>1, <2>2
<1>17. ASSUME Dies PROVE Counted'
  BY <1>17, <1>0 DEF Dies, NewServer, NoConn
<1>18. ASSUME Boot PROVE Counted'
  <2>1. UNCHANGED <<sv, conn>>
    BY <1>18, Zenon DEF Boot, OnServer, Stays
  <2> QED BY <2>1, Zenon
<1>19. ASSUME UNCHANGED vars PROVE Counted'
  <2>1. UNCHANGED <<sv, conn>>
    BY <1>19, Zenon DEF vars, OnServer, Stays
  <2> QED BY <2>1, Zenon
<1>20. ASSUME NEW t \in Thread, Aside(t) PROVE Counted'
  BY <1>20, AsideEffect
<1> HIDE DEF Counted
<1> QED BY StepCases, <1>1, <1>2, <1>3, <1>4, <1>5, <1>6, <1>7, <1>8, <1>9, <1>10,
           <1>11, <1>12, <1>13, <1>14, <1>15, <1>16, <1>17, <1>18, <1>19, <1>20,
           Zenon

\* A server with commands missing is one that start has not returned for.
LEMMA RegisterStep ==
    ASSUME Typed, ThreadInv, ServerInv, ConnInv, Registering, [Next]_vars
    PROVE  Registering'
<1>0. /\ thr \in [Thread -> Thread0] /\ sv \in [Server -> Server0] /\ conn \in [Conn -> Conn0]
      /\ srv \in Server \cup {None} /\ None \notin Thread /\ None \notin Port /\ None \notin Server
      /\ "serve" \notin Conn /\ "accept" \notin Conn /\ "done" \notin Conn
  BY NoneApart, LifecycleAssumption DEF Typed
<1> USE DEF Registering
<1>1. ASSUME NEW t \in Thread, NEW i \in Server, NEW p \in Port, Begins(t, i, p)
      PROVE  Registering'
  <2>1. /\ thr'[t] = [at |-> "start", srv |-> i, port |-> None]
        /\ \A u \in Thread \ {t} : thr'[u] = thr[u]
        /\ \A j \in Server \ {i} : sv'[j] = sv[j]
    BY <1>1, <1>0 DEF Begins, Listen
  <2>2. thr[t].at \in {"idle", "listen"}
    BY <1>1 DEF Begins, At
  <2> QED BY <2>1, <2>2
<1>2. ASSUME NEW t \in Thread, StartLock(t) PROVE Registering'
  <2>1. sv' = sv
    BY <1>2, Zenon DEF StartLock
  <2>2. \A u \in Thread : thr[u].at \in {"start", "register"} =>
            thr'[u].at \in {"start", "register"} /\ thr'[u].srv = thr[u].srv
    BY <1>2, <1>0 DEF StartLock, At, ThrTo, Thread0
  <2> QED BY <2>1, <2>2
<1>3. ASSUME NEW t \in Thread, Register(t) PROVE Registering'
  <2>1. thr[t].at = "register" /\ thr[t].srv = srv /\ srv \in Server
    BY <1>3 DEF Register, At, ThreadInv
  <2>2. CASE sv[srv].cmds < Tables
    <3>1. thr' = thr /\ \A j \in Server : j = srv \/ sv'[j] = sv[j]
      BY <1>3, <1>0, <2>2 DEF Register
    <3> QED BY <2>1, <3>1
  <2>3. CASE ~(sv[srv].cmds < Tables)
    <3>1. sv' = sv /\ \A u \in Thread \ {t} : thr'[u] = thr[u]
      BY <1>3, <1>0, <2>3 DEF Register
    <3> QED BY <2>1, <2>3, <3>1
  <2> QED BY <2>2, <2>3
<1>4. ASSUME NEW t \in Thread, CloseLock(t) PROVE Registering'
  <2>1. sv' = sv
    BY <1>4, Zenon DEF CloseLock
  <2>2. \A u \in Thread : thr[u].at \in {"start", "register"} =>
            thr'[u].at \in {"start", "register"} /\ thr'[u].srv = thr[u].srv
    BY <1>4, <1>0 DEF CloseLock, At, ThrTo, Thread0
  <2> QED BY <2>1, <2>2
<1>5. ASSUME NEW t \in Thread, Sweep(t) PROVE Registering'
  <2>0. srv \in Server /\ sv[srv].listen # "new" /\ thr[t].at = "sweep"
    BY <1>5 DEF Sweep, At, ThreadInv, ServerInv
  <2>1. \A j \in Server :
           sv'[j].cmds = sv[j].cmds /\ (sv'[j].listen # "new" => sv[j].listen # "new")
    BY <1>5, <2>0, SweepEffect
  <2>2. \A u \in Thread \ {t} : thr'[u] = thr[u]
    BY <1>5, <1>0 DEF Sweep, ThrTo
  <2> QED BY <2>0, <2>1, <2>2
<1>6. ASSUME NEW t \in Thread, CloseReturn(t) PROVE Registering'
  <2>1. sv' = sv
    BY <1>6, Zenon DEF CloseReturn
  <2>2. \A u \in Thread : thr[u].at \in {"start", "register"} =>
            thr'[u].at \in {"start", "register"} /\ thr'[u].srv = thr[u].srv
    BY <1>6, <1>0 DEF CloseReturn, At, ThrTo, Thread0
  <2> QED BY <2>1, <2>2
<1>7. ASSUME NEW t \in Thread, SaveOpen(t) PROVE Registering'
  <2>1. sv' = sv
    BY <1>7, Zenon DEF SaveOpen
  <2>2. \A u \in Thread : thr[u].at \in {"start", "register"} =>
            thr'[u].at \in {"start", "register"} /\ thr'[u].srv = thr[u].srv
    BY <1>7, <1>0 DEF SaveOpen, At, ThrTo, Thread0
  <2> QED BY <2>1, <2>2
<1>8. ASSUME NEW t \in Thread, SaveWrite(t) PROVE Registering'
  <2>1. sv' = sv
    BY <1>8, Zenon DEF SaveWrite
  <2>2. \A u \in Thread : thr[u].at \in {"start", "register"} =>
            thr'[u].at \in {"start", "register"} /\ thr'[u].srv = thr[u].srv
    BY <1>8, <1>0 DEF SaveWrite, At, ThrTo, Thread0
  <2> QED BY <2>1, <2>2
<1>9. ASSUME NEW i \in Server, NEW c \in Conn, Dial(c, i) PROVE Registering'
  <2>1. UNCHANGED <<sv, thr>>
    BY <1>9, Zenon DEF Dial, OnServer, Stays
  <2> QED BY <2>1, Zenon
<1>10. ASSUME NEW i \in Server, NEW c \in Conn, Accept(i, c) PROVE Registering'
  <2>1. thr' = thr /\ \A j \in Server : sv'[j].cmds = sv[j].cmds /\ sv'[j].listen = sv[j].listen
    BY <1>10, AcceptEffect
  <2> QED BY <2>1
<1>11. ASSUME NEW i \in Server, Spawn(i) PROVE Registering'
  <2>1. sv[i].loop \in Conn
    BY <1>11 DEF Spawn
  <2>2. thr' = thr /\ \A j \in Server : sv'[j].cmds = sv[j].cmds /\ sv'[j].listen = sv[j].listen
    BY <1>11, <2>1, SpawnEffect
  <2> QED BY <2>2
<1>12. ASSUME NEW i \in Server, AcceptFails(i) PROVE Registering'
  <2>1. thr' = thr /\ \A j \in Server : sv'[j].cmds = sv[j].cmds /\ sv'[j].listen = sv[j].listen
    BY <1>12, AcceptFailsEffect
  <2> QED BY <2>1
<1>13. ASSUME NEW c \in Conn, NEW r \in Requests, NEW more \in BOOLEAN, ReadRequest(c, r, more)
       PROVE  Registering'
  <2>1. UNCHANGED <<sv, thr>>
    BY <1>13, Zenon DEF ReadRequest, OnServer, Stays
  <2> QED BY <2>1, Zenon
<1>14. ASSUME NEW c \in Conn, NEW r \in Requests, ReadBuffered(c, r) PROVE Registering'
  <2>1. UNCHANGED <<sv, thr>>
    BY <1>14, Zenon DEF ReadBuffered, OnServer, Stays
  <2> QED BY <2>1, Zenon
<1>15. ASSUME NEW c \in Conn, conn[c].at = "read" \/ Known(c), Ends(c) PROVE Registering'
  <2>1. conn[c].srv \in Server
    BY <1>15 DEF Known, ConnInv
  <2>2. thr' = thr /\ \A j \in Server : sv'[j].cmds = sv[j].cmds /\ sv'[j].listen = sv[j].listen
    BY <1>15, <2>1, EndsEffect
  <2> QED BY <2>2
<1>16. ASSUME NEW c \in Conn, NEW from, NEW to, Moves(from, to), Goes(c, from, to)
       PROVE  Registering'
  <2>1. UNCHANGED <<sv, thr>>
    BY <1>16, Zenon DEF Goes, OnServer, Stays
  <2> QED BY <2>1, Zenon
<1>17. ASSUME Dies PROVE Registering'
  BY <1>17, <1>0 DEF Dies, NewServer
<1>18. ASSUME Boot PROVE Registering'
  <2>1. UNCHANGED <<sv, thr>>
    BY <1>18, Zenon DEF Boot, OnServer, Stays
  <2> QED BY <2>1, Zenon
<1>19. ASSUME UNCHANGED vars PROVE Registering'
  <2>1. UNCHANGED <<sv, thr>>
    BY <1>19, Zenon DEF vars, OnServer, Stays
  <2> QED BY <2>1, Zenon
<1>20. ASSUME NEW t \in Thread, Aside(t) PROVE Registering'
  BY <1>20, AsideEffect
<1> HIDE DEF Registering
<1> QED BY StepCases, <1>1, <1>2, <1>3, <1>4, <1>5, <1>6, <1>7, <1>8, <1>9, <1>10,
           <1>11, <1>12, <1>13, <1>14, <1>15, <1>16, <1>17, <1>18, <1>19, <1>20,
           Zenon

\* The goroutines of a closed server, one by one.
ClosedQuiet ==
    \A i \in Server : sv[i].listen = "closed" /\ srv # i =>
        /\ sv[i].loop = "done"
        /\ \A c \in Conn : conn[c].srv = i => conn[c].at \in {"none", "dialed", "held"}

\* No goroutine is left exactly when the loop has ended and no connection has one.
LEMMA QuietEquiv == ClosedQuiet <=> NothingServesAfterClose
<1>1. ASSUME NEW i \in Server
      PROVE  Goroutines(i) = {} <=>
                /\ sv[i].loop = "done"
                /\ \A c \in Conn : conn[c].srv = i => conn[c].at \in {"none", "dialed", "held"}
  BY DEF Goroutines
<1> QED BY <1>1, Zenon DEF ClosedQuiet, NothingServesAfterClose

\* The same of the next state.
LEMMA QuietEquivPrime == ClosedQuiet' <=> NothingServesAfterClose'
BY QuietEquiv, PTL

\* When Close gives the mutex back, every goroutine of its server has ended.
LEMMA QuietStep ==
    ASSUME Typed, OwnerInv, ThreadInv, ServerInv, ConnInv, Counted, ClosedQuiet, [Next]_vars
    PROVE  ClosedQuiet'
<1>0. /\ thr \in [Thread -> Thread0] /\ sv \in [Server -> Server0] /\ conn \in [Conn -> Conn0]
      /\ srv \in Server \cup {None} /\ None \notin Thread /\ None \notin Port /\ None \notin Server
      /\ "serve" \notin Conn /\ "accept" \notin Conn /\ "done" \notin Conn
  BY NoneApart, LifecycleAssumption DEF Typed
<1> USE DEF ClosedQuiet
<1>1. ASSUME NEW t \in Thread, NEW i \in Server, NEW p \in Port, Begins(t, i, p)
      PROVE  ClosedQuiet'
  <2>1. UNCHANGED <<conn, srv>>
    BY <1>1, Zenon DEF Begins, Listen
  <2>2. sv'[i].listen = "open" /\ \A j \in Server \ {i} : sv'[j] = sv[j]
    BY <1>1, <1>0 DEF Begins, Listen, Server0
  <2> QED BY <2>1, <2>2
<1>2. ASSUME NEW t \in Thread, StartLock(t) PROVE ClosedQuiet'
  <2>1. UNCHANGED <<sv, conn>>
    BY <1>2, Zenon DEF StartLock
  <2>2. srv \in Server => sv[srv].listen = "open"
    BY <1>2, <1>0 DEF StartLock, Takes, OwnerInv, Locked, ServerInv
  <2> QED BY <1>0, <2>1, <2>2
<1>3. ASSUME NEW t \in Thread, Register(t) PROVE ClosedQuiet'
  <2>1. UNCHANGED <<conn, srv>>
    BY <1>3, Zenon DEF Register
  <2>2. \A j \in Server : sv'[j].loop = sv[j].loop /\ sv'[j].listen = sv[j].listen
    BY <1>3, <1>0 DEF Register, Server0
  <2> QED BY <2>1, <2>2
<1>4. ASSUME NEW t \in Thread, CloseLock(t) PROVE ClosedQuiet'
  <2>1. UNCHANGED <<sv, conn, srv>>
    BY <1>4, Zenon DEF CloseLock, OnServer, Stays
  <2> QED BY <2>1, Zenon
<1>5. ASSUME NEW t \in Thread, Sweep(t) PROVE ClosedQuiet'
  <2>0. srv \in Server
    BY <1>5 DEF Sweep, At, ThreadInv
  <2> QED BY <1>5, <2>0, SweepEffect
<1>6. ASSUME NEW t \in Thread, CloseReturn(t) PROVE ClosedQuiet'
  <2>1. UNCHANGED <<sv, conn>> /\ sv[srv].wg = {} /\ srv \in Server
    BY <1>6 DEF CloseReturn, At, ThreadInv
  <2>2. /\ sv[srv].loop = "done"
        /\ \A c \in Conn : conn[c].srv = srv => conn[c].at \in {"none", "dialed", "held"}
    BY <2>1 DEF Counted
  <2> QED BY <2>1, <2>2
<1>7. ASSUME NEW t \in Thread, SaveOpen(t) PROVE ClosedQuiet'
  <2>1. UNCHANGED <<sv, conn, srv>>
    BY <1>7, Zenon DEF SaveOpen, OnServer, Stays
  <2> QED BY <2>1, Zenon
<1>8. ASSUME NEW t \in Thread, SaveWrite(t) PROVE ClosedQuiet'
  <2>1. UNCHANGED <<sv, conn, srv>>
    BY <1>8, Zenon DEF SaveWrite, OnServer, Stays
  <2> QED BY <2>1, Zenon
<1>9. ASSUME NEW i \in Server, NEW c \in Conn, Dial(c, i) PROVE ClosedQuiet'
  <2>1. UNCHANGED <<sv, srv>> /\ sv[i].listen = "open"
    BY <1>9 DEF Dial, OnServer
  <2> QED BY <1>9, <2>1, DialEffect
<1>10. ASSUME NEW i \in Server, NEW c \in Conn, Accept(i, c) PROVE ClosedQuiet'
  <2>1. sv[i].listen = "open"
    BY <1>10 DEF Accept
  <2> QED BY <1>10, <2>1, AcceptEffect
<1>11. ASSUME NEW i \in Server, Spawn(i) PROVE ClosedQuiet'
  <2>1. sv[i].loop \in Conn /\ sv[i].loop # "done" /\ conn[sv[i].loop].srv = i
    BY <1>11, <1>0 DEF Spawn, ConnInv
  <2> QED BY <1>11, <2>1, SpawnEffect
<1>12. ASSUME NEW i \in Server, AcceptFails(i) PROVE ClosedQuiet'
  BY <1>12, AcceptFailsEffect
<1>13. ASSUME NEW c \in Conn, NEW r \in Requests, NEW more \in BOOLEAN, ReadRequest(c, r, more)
       PROVE  ClosedQuiet'
  <2>1. conn[c].at = "read"
    BY <1>13 DEF ReadRequest
  <2> QED BY <1>13, <2>1, ReadEffect
<1>14. ASSUME NEW c \in Conn, NEW r \in Requests, ReadBuffered(c, r) PROVE ClosedQuiet'
  <2>1. conn[c].at = "read"
    BY <1>14 DEF ReadBuffered
  <2> QED BY <1>14, <2>1, ReadEffect
<1>15. ASSUME NEW c \in Conn, conn[c].at = "read" \/ Known(c), Ends(c) PROVE ClosedQuiet'
  <2>1. conn[c].srv \in Server
    BY <1>15 DEF Known, ConnInv
  <2> QED BY <1>15, <2>1, EndsEffect
<1>16. ASSUME NEW c \in Conn, NEW from, NEW to, Moves(from, to), Goes(c, from, to)
       PROVE  ClosedQuiet'
  <2>1. conn[c].at \notin {"none", "dialed", "held"}
    BY <1>16 DEF Goes, Moves
  <2> QED BY <1>16, <2>1, GoesEffect
<1>17. ASSUME Dies PROVE ClosedQuiet'
  BY <1>17, <1>0 DEF Dies, NewServer
<1>18. ASSUME Boot PROVE ClosedQuiet'
  <2>1. UNCHANGED <<sv, conn, srv>>
    BY <1>18, Zenon DEF Boot, OnServer, Stays
  <2> QED BY <2>1, Zenon
<1>19. ASSUME UNCHANGED vars PROVE ClosedQuiet'
  <2>1. UNCHANGED <<sv, conn, srv>>
    BY <1>19, Zenon DEF vars, OnServer, Stays
  <2> QED BY <2>1, Zenon
<1>20. ASSUME NEW t \in Thread, Aside(t) PROVE ClosedQuiet'
  BY <1>20, AsideEffect
<1> HIDE DEF ClosedQuiet
<1> QED BY StepCases, <1>1, <1>2, <1>3, <1>4, <1>5, <1>6, <1>7, <1>8, <1>9, <1>10,
           <1>11, <1>12, <1>13, <1>14, <1>15, <1>16, <1>17, <1>18, <1>19, <1>20,
           Zenon

-----------------------------------------------------------------------------
(* The theorems. *)

\* A new process satisfies the invariant.
LEMMA LifeInit ==
    ASSUME Init
    PROVE  LifeInv
<1>1. Typed
  BY ThreadType, ServerType, ConnType, Zenon DEF Init, Typed
<1>2. OwnerInv
  BY NoneApart DEF Init, OwnerInv, Locked, Idle
<1>3. ThreadInv
  BY DEF Init, ThreadInv, Idle
<1>4. ServerInv
  BY NoneApart DEF Init, ServerInv, NewServer
<1>5. ConnInv
  BY LifecycleAssumption DEF Init, ConnInv, NewServer, NoConn
<1>6. Counted /\ Registering
  BY DEF Init, Counted, Registering, NewServer, NoConn
<1>7. ClosedQuiet
  BY DEF Init, ClosedQuiet, NewServer
<1>8. TypeOK
  BY <1>1, <1>2, TypeSplit DEF Init, AgainType
<1>9. NothingServesAfterClose
  BY <1>7, QuietEquiv
<1> QED BY <1>3, <1>4, <1>5, <1>6, <1>8, <1>9, Zenon DEF LifeInv

\* Every step keeps the history a Boolean.
LEMMA AgainStep ==
    ASSUME AgainType, [Next]_vars
    PROVE  AgainType'
<1>1. ASSUME NEW t \in Thread, NEW i \in Server, NEW p \in Port,
             StartListen(t, i, p) \/ StartAddr(t, i, p)
      PROVE  AgainType'
  BY <1>1 DEF StartListen, StartAddr, AgainType
<1>2. ASSUME NEW t \in Thread, StartRead(t) \/ StartFails(t) PROVE AgainType'
  BY <1>2 DEF StartRead, StartFails, Stays, AgainType
<1>3. ASSUME NEW t \in Thread,
             \/ StartLock(t) \/ Register(t) \/ CloseLock(t) \/ Sweep(t) \/ CloseReturn(t)
             \/ SaveOpen(t) \/ SaveWrite(t)
      PROVE  AgainType'
  BY <1>3, Zenon
  DEF StartLock, Register, CloseLock, Sweep, CloseReturn, SaveOpen, SaveWrite, Stays, AgainType
<1>4. ASSUME NEW i \in Server,
             Spawn(i) \/ AcceptFails(i) \/ \E c \in Conn : Dial(c, i) \/ Accept(i, c)
      PROVE  AgainType'
  BY <1>4, Zenon DEF Spawn, AcceptFails, Dial, Accept, OnServer, AgainType
<1>5. ASSUME NEW c \in Conn, \/ \E r \in Requests, more \in BOOLEAN : ReadRequest(c, r, more)
                             \/ \E r \in Requests : ReadBuffered(c, r)
                             \/ Ends(c) \/ \E from, to : Goes(c, from, to)
      PROVE  AgainType'
  BY <1>5, Zenon DEF ReadRequest, ReadBuffered, Ends, Goes, OnServer, AgainType
<1>6. ASSUME Dies \/ Boot \/ UNCHANGED vars PROVE AgainType'
  BY <1>6 DEF Dies, Boot, vars, AgainType
<1> QED BY StepCases, <1>1, <1>2, <1>3, <1>4, <1>5, <1>6, Zenon DEF Begins, Aside

\* Every step keeps it.
LEMMA LifeStep ==
    ASSUME LifeInv, [Next]_vars
    PROVE  LifeInv'
<1>1. /\ Typed /\ OwnerInv /\ ThreadInv /\ ServerInv /\ ConnInv /\ Counted /\ Registering
      /\ ClosedQuiet
  BY TypeSplit, QuietEquiv, Zenon DEF LifeInv
<1>2. StartServer
  BY <1>1, Zenon DEF StartServer, ThreadInv
<1>3. Typed' /\ OwnerInv'
  BY <1>1, <1>2, TypeStep, OwnerStep
<1>4. ThreadInv' /\ ServerInv' /\ ConnInv'
  BY <1>1, ThreadStep, ServerStep, ConnStep
<1>5. Counted' /\ Registering' /\ ClosedQuiet'
  BY <1>1, CountStep, RegisterStep, QuietStep
<1>6. AgainType'
  BY TypeSplit, AgainStep DEF LifeInv
<1>7. TypeOK' /\ NothingServesAfterClose'
  BY <1>3, <1>5, <1>6, TypeSplitPrime, QuietEquivPrime
<1> QED BY <1>4, <1>5, <1>7, Zenon DEF LifeInv

\* The invariant holds in every reachable state.
LEMMA LifeCorrect == Spec => []LifeInv
<1>1. Init => LifeInv
  BY LifeInit
<1>2. LifeInv /\ [Next]_vars => LifeInv'
  BY LifeStep
<1> QED BY <1>1, <1>2, PTL DEF Spec

\* Type correctness, and the mutex of the RediQueue: whatever Start, Restart, Close,
\* Save and the end of the process do, at most one thread is between Lock and Unlock,
\* and it is the one the mutex is held by.
THEOREM TypeCorrect == Spec => []TypeOK
<1>1. LifeInv => TypeOK
  BY DEF LifeInv
<1> QED BY <1>1, LifeCorrect, PTL

\* When Close returns, no goroutine of its server is left: the wait group counts the
\* accept loop and every connection from the go statement on, so a Close that found a
\* count of zero has waited for all of them, even for a connection that was accepted
\* while Close swept the others.
THEOREM CloseWaits == Spec => []NothingServesAfterClose
<1>1. LifeInv => NothingServesAfterClose
  BY DEF LifeInv
<1> QED BY <1>1, LifeCorrect, PTL
-----------------------------------------------------------------------------
\* The answer "unknown command" is given by dispatch only, and only by a server whose
\* commands are not all registered.
LEMMA UnknownStep ==
    ASSUME LifeInv, [Next]_vars, NEW c \in Conn,
           up /\ conn[c].at = "dispatch" /\ conn'[c].at = "read"
    PROVE  \E t \in Thread : thr[t].at \in {"start", "register"} /\ thr[t].srv = conn[c].srv
<1> DEFINE Goal == ~Known(c)
<1>1. Typed /\ ThreadInv /\ ConnInv /\ Registering
  BY TypeSplit, Zenon DEF LifeInv
<1>2. ASSUME NEW d \in Conn, Dispatch(d) PROVE Goal
  <2>1. CASE ~Known(d) /\ Goes(d, "dispatch", "read")
    <3>1. \A e \in Conn \ {d} : conn'[e] = conn[e]
      BY <1>1, <2>1, GoesEffect DEF Moves
    <3>2. c = d
      BY <3>1
    <3> QED BY <2>1, <3>2
  <2>2. CASE Goes(d, "dispatch", "handle")
    <3>1. Moves("dispatch", "handle")
      BY DEF Moves
    <3>2. conn'[d].at = "handle" /\ \A e \in Conn \ {d} : conn'[e] = conn[e]
      BY <1>1, <2>2, <3>1, GoesEffect
    <3> QED BY <3>2
  <2>3. CASE Ends(d) /\ Known(d)
    <3>1. conn[d].srv \in Server
      BY <1>1, <2>3 DEF Known, ConnInv
    <3>2. conn'[d].at = "none" /\ \A e \in Conn \ {d} : conn'[e] = conn[e]
      BY <1>1, <2>3, <3>1, EndsEffect
    <3> QED BY <3>2
  <2> QED BY <1>2, <2>1, <2>2, <2>3 DEF Dispatch
<1>3. ASSUME NEW d \in Conn, Enter(d) \/ Handle(d) \/ Wake(d) PROVE FALSE
  <2>1. PICK from \in {"accepted", "handle", "blocked"}, to \in {"read", "handle", "blocked"} :
            Moves(from, to) /\ Goes(d, from, to)
    BY <1>3 DEF Enter, Handle, Wake, Moves
  <2>2. \A e \in Conn \ {d} : conn'[e] = conn[e]
    BY <1>1, <2>1, GoesEffect
  <2>3. conn[d].at # "dispatch"
    BY <2>1 DEF Goes
  <2> QED BY <2>2, <2>3
<1>4. ASSUME NEW d \in Conn, ReadClosed(d) \/ Hangup(d) PROVE FALSE
  <2>1. conn[d].at = "read" /\ Ends(d)
    BY <1>4 DEF ReadClosed, Hangup
  <2>2. conn[d].srv \in Server
    BY <1>1, <2>1 DEF ConnInv
  <2>3. \A e \in Conn \ {d} : conn'[e] = conn[e]
    BY <1>1, <2>1, <2>2, EndsEffect
  <2> QED BY <2>1, <2>3
<1>5. ASSUME NEW d \in Conn, NEW r \in Requests, NEW more,
             ReadRequest(d, r, more) \/ ReadBuffered(d, r)
      PROVE  FALSE
  <2>1. conn'[d].at = "dispatch" /\ \A e \in Conn \ {d} : conn'[e] = conn[e]
    BY <1>1, <1>5, ReadEffect
  <2> QED BY <2>1
<1>6. ASSUME NEW i \in Server, NEW d \in Conn, Dial(d, i) \/ Accept(i, d) PROVE FALSE
  <2>1. conn'[d].at \in {"dialed", "held"} /\ \A e \in Conn \ {d} : conn'[e] = conn[e]
    BY <1>1, <1>6, DialEffect, AcceptEffect
  <2> QED BY <2>1
<1>7. ASSUME NEW i \in Server, Spawn(i) PROVE FALSE
  <2>1. sv[i].loop \in Conn
    BY <1>7 DEF Spawn
  <2>2. conn'[sv[i].loop].at = "accepted" /\ \A e \in Conn \ {sv[i].loop} : conn'[e] = conn[e]
    BY <1>1, <1>7, <2>1, SpawnEffect
  <2> QED BY <2>2
<1>8. ASSUME NEW t \in Thread, Sweep(t) PROVE FALSE
  <2>1. srv \in Server
    BY <1>1, <1>8 DEF Sweep, At, ThreadInv
  <2> QED BY <1>1, <1>8, <2>1, SweepEffect
<1>9. ASSUME Dies PROVE FALSE
  BY <1>9 DEF Dies, NoConn
<1>10. ASSUME conn' = conn PROVE FALSE
  BY <1>10
<1>11. ASSUME NEW t \in Thread, \/ \E i \in Server, p \in Port : Begins(t, i, p)
                                \/ StartRead(t) \/ StartFails(t)
                                \/ StartLock(t) \/ Register(t) \/ CloseLock(t) \/ CloseReturn(t)
                                \/ SaveOpen(t) \/ SaveWrite(t)
       PROVE  conn' = conn
  BY <1>11, Zenon
  DEF Begins, Listen, StartRead, StartFails, StartLock, Register, CloseLock, CloseReturn,
      SaveOpen, SaveWrite
<1>12. ASSUME NEW i \in Server, AcceptFails(i) PROVE conn' = conn
  BY <1>12, Zenon DEF AcceptFails
<1>13. Boot \/ UNCHANGED vars => conn' = conn
  BY Zenon DEF Boot, vars
<1> HIDE DEF Goal
<1>14. Goal
  BY <1>2, <1>3, <1>4, <1>5, <1>6, <1>7, <1>8, <1>9, <1>10, <1>11, <1>12, <1>13, Zenon
  DEF Next, Query, Crash, Begins, StartListen, StartAddr
<1>15. conn[c].srv \in Server /\ sv[conn[c].srv].listen # "new"
  BY <1>1 DEF ConnInv
<1>16. sv[conn[c].srv].cmds < Tables
  <2>1. conn[c].req \in Requests \cup {NoReq} /\ sv[conn[c].srv].cmds \in 0..Tables
    BY <1>1, <1>15 DEF Typed, Conn0, Server0
  <2>2. conn[c].req[1] \in 0..Tables
    BY <2>1, LifecycleAssumption DEF Requests, NoReq
  <2>3. ~(conn[c].req[1] <= sv[conn[c].srv].cmds)
    BY <1>14 DEF Goal, Known
  <2> QED BY <2>1, <2>2, <2>3, LifecycleAssumption
<1> QED BY <1>1, <1>15, <1>16 DEF Registering

\* A command of the server is answered as unknown only while start registers the
\* commands of the server that answers: once Start has returned, never again, whatever
\* Close and Restart do beside the connection.
THEOREM CommandsKnown == Spec => KnownOnceStarted
<1>1. ASSUME LifeInv, [Next]_vars
      PROVE  [\A c \in Conn : up /\ conn[c].at = "dispatch" /\ conn'[c].at = "read" =>
                \E t \in Thread :
                    thr[t].at \in {"start", "register"} /\ thr[t].srv = conn[c].srv]_vars
  BY <1>1, UnknownStep
<1> QED BY <1>1, LifeCorrect, PTL DEF Spec, KnownOnceStarted
-----------------------------------------------------------------------------
(***************************************************************************)
(* One server.  Two first Starts, or a StartAddr, of one RediQueue may each *)
(* listen on a port of their own before either sets m.srv.  With neither,   *)
(* m.port never changes once it is set, so what a Start reads without the   *)
(* mutex is what it would read with it.                                     *)
(***************************************************************************)

\* A step that leaves the listeners, m.srv, m.port and the threads between m.port and
\* m.srv as they are keeps the ports together.
LEMMA PortKept ==
    ASSUME PortInv, UNCHANGED <<srv, port, again>>,
           \A j \in Server : sv'[j].port = sv[j].port /\ sv'[j].listen = sv[j].listen,
           \A u \in Thread : \/ thr'[u] = thr[u]
                             \/ /\ thr[u].at \notin {"listen", "start"}
                                /\ thr'[u].at \notin {"listen", "start"}
    PROVE  PortInv'
<1>1. \A u \in Thread : /\ thr'[u].at = "listen" <=> thr[u].at = "listen"
                        /\ thr'[u].at = "start" <=> thr[u].at = "start"
                        /\ thr[u].at \in {"listen", "start"} => thr'[u] = thr[u]
  OBVIOUS
<1> QED BY <1>1 DEF PortInv

\* Every step keeps the ports together.
LEMMA PortStep ==
    ASSUME Typed, OwnerInv, ThreadInv, ServerInv, ConnInv, PortInv, [Next]_vars
    PROVE  PortInv'
<1>0. /\ thr \in [Thread -> Thread0] /\ sv \in [Server -> Server0] /\ conn \in [Conn -> Conn0]
      /\ srv \in Server \cup {None} /\ None \notin Thread /\ None \notin Port /\ None \notin Server
  BY NoneApart DEF Typed
<1>1. ASSUME NEW t \in Thread, NEW i \in Server, NEW p \in Port,
             StartListen(t, i, p) \/ StartAddr(t, i, p)
      PROVE  PortInv'
  <2>0. Listen(t, i, p)
    BY <1>1 DEF StartListen, StartAddr
  <2>1. UNCHANGED <<srv, port>> /\ thr[t].at \in {"idle", "listen"} /\ sv[i].listen = "new"
    BY <1>1 DEF StartListen, StartAddr, Listen, At
  <2>2. /\ thr'[t].at = "start" /\ thr'[t].srv = i /\ \A u \in Thread \ {t} : thr'[u] = thr[u]
        /\ \A j \in Server \ {i} : sv'[j] = sv[j]
        /\ sv'[i].listen = "open" /\ sv'[i].port = p
    BY <2>0, <1>0 DEF Listen, Server0
  <2>3. \A j \in Server : sv[j].listen = "open" => sv[j].port # p
    BY <1>1 DEF StartListen, StartAddr, Listen
  <2>4. ASSUME ~again' PROVE
           /\ ~again
           /\ port = None => \A u \in Thread \ {t} : thr[u].at \notin {"listen", "start"}
           /\ port # None => p = port
    <3>1. CASE StartListen(t, i, p)
      BY <2>4, <3>1 DEF StartListen, At, PortInv
    <3>2. CASE StartAddr(t, i, p)
      BY <2>4, <3>2 DEF StartAddr, Starting
    <3> QED BY <1>1, <3>1, <3>2
  <2>5. ASSUME ~again', port = None PROVE \A j \in Server \ {i} : sv[j].listen = "new"
    BY <2>1, <2>4, <2>5 DEF PortInv
  <2>6. \A j, k \in Server :
           sv'[j].listen = "open" /\ sv'[k].listen = "open" /\ sv'[j].port = sv'[k].port => j = k
    BY <2>2, <2>3 DEF PortInv
  <2>7. ASSUME ~again' PROVE
           /\ port' = None =>
                /\ \A u, v \in Thread : thr'[u].at \in {"listen", "start"}
                                        /\ thr'[v].at \in {"listen", "start"} => u = v
                /\ \A j \in Server : sv'[j].listen # "new" =>
                      \E u \in Thread : thr'[u].at = "start" /\ thr'[u].srv = j
           /\ port' # None =>
                /\ \A j \in Server : sv'[j].listen # "new" => sv'[j].port = port'
                /\ \A u \in Thread : thr'[u].at = "listen" => thr'[u].port = port'
    <3>1. CASE port = None
      BY <2>1, <2>2, <2>4, <2>5, <2>7, <3>1
    <3>2. CASE port # None
      BY <2>1, <2>2, <2>4, <2>7, <3>2 DEF PortInv
    <3> QED BY <3>1, <3>2
  <2>8. ASSUME ~again', NEW j \in Server, sv'[j].listen = "open"
        PROVE  j = srv' \/ \E u \in Thread : thr'[u].at = "start" /\ thr'[u].srv = j
    BY <2>1, <2>2, <2>4, <2>8 DEF PortInv
  <2> QED BY <2>1, <2>6, <2>7, <2>8 DEF PortInv
<1>2. ASSUME NEW t \in Thread, Aside(t) PROVE PortInv'
  <2>1. /\ UNCHANGED <<srv, port, sv>> /\ thr[t].at \in {"idle", "listen"}
        /\ \A u \in Thread \ {t} : thr'[u] = thr[u]
        /\ thr'[t].at \in {"idle", "listen"} /\ (thr'[t].at = "listen" => thr'[t].port = port)
    BY <1>2, AsideEffect
  <2>2. ASSUME ~again', port = None, thr'[t].at = "listen"
        PROVE  \A u \in Thread : thr[u].at \notin {"listen", "start"}
    <3>1. StartRead(t)
      BY <1>2, <1>0, <2>2 DEF Aside, StartFails, Idle
    <3> QED BY <2>2, <3>1 DEF StartRead, Starting
  <2>3. ~again' => ~again
    BY <1>2 DEF Aside, StartRead, StartFails, Stays
  <2>4. \A u \in Thread : thr'[u].at = "start" <=> thr[u].at = "start"
    BY <2>1
  <2>5. \A u \in Thread : thr[u].at = "start" => thr'[u] = thr[u]
    BY <2>1
  <2>6. ASSUME ~again', port = None
        PROVE  \A u, v \in Thread : thr'[u].at \in {"listen", "start"}
                                    /\ thr'[v].at \in {"listen", "start"} => u = v
    <3>1. CASE thr'[t].at = "listen"
      BY <2>1, <2>2, <2>6, <3>1
    <3>2. CASE thr'[t].at = "idle"
      BY <2>1, <2>3, <2>6, <3>2 DEF PortInv
    <3> QED BY <2>1, <3>1, <3>2
  <2>7. ASSUME ~again', port # None
        PROVE  \A u \in Thread : thr'[u].at = "listen" => thr'[u].port = port
    BY <2>1, <2>3, <2>7 DEF PortInv
  <2>8. ASSUME ~again'
        PROVE  /\ port = None => \A i \in Server : sv[i].listen # "new" =>
                     \E u \in Thread : thr'[u].at = "start" /\ thr'[u].srv = i
               /\ port # None => \A i \in Server : sv[i].listen # "new" => sv[i].port = port
               /\ \A i \in Server : sv[i].listen = "open" =>
                     i = srv \/ \E u \in Thread : thr'[u].at = "start" /\ thr'[u].srv = i
    BY <2>3, <2>5, <2>8 DEF PortInv
  <2> QED BY <2>1, <2>6, <2>7, <2>8 DEF PortInv
<1>3. ASSUME NEW t \in Thread, StartLock(t) PROVE PortInv'
  <2> DEFINE i == thr[t].srv
  <2>1. UNCHANGED <<sv, again>> /\ srv' = i /\ port' = sv[i].port /\ thr[t].at = "start"
    BY <1>3 DEF StartLock, At, Stays
  <2>2. i \in Server /\ sv[i].listen = "open" /\ sv[i].port # None
    BY <2>1 DEF ThreadInv, ServerInv
  <2>3. thr'[t].at = "register" /\ \A u \in Thread \ {t} : thr'[u] = thr[u]
    BY <1>3, <1>0 DEF StartLock, ThrTo, Thread0
  <2>4. ASSUME ~again PROVE
           /\ \A j \in Server : sv[j].listen # "new" => sv[j].port = sv[i].port
           /\ \A u \in Thread : thr[u].at = "listen" => thr[u].port = sv[i].port
    <3>1. CASE port = None
      <4>1. \A j \in Server : sv[j].listen # "new" => j = i
        BY <2>1, <2>4, <3>1 DEF PortInv
      <4>2. \A u \in Thread : thr[u].at # "listen"
        BY <2>1, <2>4, <3>1 DEF PortInv
      <4> QED BY <4>1, <4>2
    <3>2. CASE port # None
      BY <2>2, <2>4, <3>2 DEF PortInv
    <3> QED BY <3>1, <3>2
  <2>5. ASSUME ~again, NEW j \in Server, sv[j].listen = "open" PROVE j = i
    BY <2>2, <2>4, <2>5 DEF PortInv
  <2>6. \A u \in Thread : thr'[u].at = "listen" => thr[u].at = "listen" /\ thr'[u] = thr[u]
    BY <2>3
  <2> HIDE DEF i
  <2> QED BY <2>1, <2>2, <2>4, <2>5, <2>6 DEF PortInv
<1>4. ASSUME NEW t \in Thread, Register(t) PROVE PortInv'
  <2>1. /\ UNCHANGED <<srv, port, again>>
        /\ \A j \in Server : sv'[j].port = sv[j].port /\ sv'[j].listen = sv[j].listen
    BY <1>4, <1>0 DEF Register, Server0, Stays
  <2>2. \A u \in Thread : \/ thr'[u] = thr[u]
                          \/ /\ thr[u].at \notin {"listen", "start"}
                             /\ thr'[u].at \notin {"listen", "start"}
    BY <1>4, <1>0 DEF Register, At, Idle
  <2> QED BY <2>1, <2>2, PortKept
<1>5. ASSUME NEW t \in Thread, CloseLock(t) \/ SaveOpen(t) \/ SaveWrite(t) PROVE PortInv'
  <2>1. UNCHANGED <<sv, srv, port, again>>
    BY <1>5, Zenon DEF CloseLock, SaveOpen, SaveWrite, Stays
  <2>2. \A u \in Thread : \/ thr'[u] = thr[u]
                          \/ /\ thr[u].at \notin {"listen", "start"}
                             /\ thr'[u].at \notin {"listen", "start"}
    <3>1. thr[t].at \in {"idle", "save"} /\ \E a \in Locked \cup {"idle"} : ThrTo(t, a)
      BY <1>5, Zenon DEF CloseLock, SaveOpen, SaveWrite, At, Locked
    <3> QED BY <1>0, <3>1 DEF ThrTo, Thread0, Locked
  <2> QED BY <2>1, <2>2, PortKept
<1>6. ASSUME NEW t \in Thread, Sweep(t) PROVE PortInv'
  <2>1. srv \in Server /\ sv[srv].listen # "new"
    BY <1>6 DEF Sweep, At, ThreadInv, ServerInv
  <2>2. UNCHANGED <<srv, port, again>>
    BY <1>6, Zenon DEF Sweep, Stays
  <2>3. \A j \in Server : /\ sv'[j].port = sv[j].port
                          /\ sv'[j].listen = "open" => sv[j].listen = "open"
                          /\ sv'[j].listen # "new" => sv[j].listen # "new"
    BY <1>6, <2>1, SweepEffect
  <2>4. \A u \in Thread : /\ thr'[u].at = "listen" <=> thr[u].at = "listen"
                          /\ thr'[u].at = "start" <=> thr[u].at = "start"
                          /\ thr[u].at \in {"listen", "start"} => thr'[u] = thr[u]
    BY <1>6, <1>0 DEF Sweep, At, ThrTo, Thread0
  <2> QED BY <2>2, <2>3, <2>4 DEF PortInv
<1>7. ASSUME NEW t \in Thread, CloseReturn(t) PROVE PortInv'
  <2>1. UNCHANGED <<sv, port, again>> /\ srv' = None /\ sv[srv].listen = "closed"
    BY <1>7 DEF CloseReturn, At, ThreadInv, Stays
  <2>2. \A u \in Thread : /\ thr'[u].at = "listen" <=> thr[u].at = "listen"
                          /\ thr'[u].at = "start" <=> thr[u].at = "start"
                          /\ thr[u].at \in {"listen", "start"} => thr'[u] = thr[u]
    BY <1>7, <1>0 DEF CloseReturn, At, ThrTo, Thread0
  <2> QED BY <2>1, <2>2 DEF PortInv
<1>8. ASSUME NEW i \in Server, NEW c \in Conn, Dial(c, i) \/ Accept(i, c) PROVE PortInv'
  <2>1. UNCHANGED <<thr, srv, port, again>>
    BY <1>8, Zenon DEF Dial, Accept, OnServer
  <2>2. \A j \in Server : sv'[j].port = sv[j].port /\ sv'[j].listen = sv[j].listen
    BY <1>8, AcceptEffect, DialEffect
  <2> QED BY <2>1, <2>2, PortKept
<1>9. ASSUME NEW i \in Server, Spawn(i) \/ AcceptFails(i) PROVE PortInv'
  <2>1. UNCHANGED <<thr, srv, port, again>>
    BY <1>9, Zenon DEF Spawn, AcceptFails, OnServer
  <2>2. Spawn(i) => sv[i].loop \in Conn
    BY DEF Spawn
  <2>3. \A j \in Server : sv'[j].port = sv[j].port /\ sv'[j].listen = sv[j].listen
    BY <1>9, <2>2, SpawnEffect, AcceptFailsEffect
  <2> QED BY <2>1, <2>3, PortKept
<1>10. ASSUME NEW c \in Conn, \/ \E r \in Requests, more \in BOOLEAN : ReadRequest(c, r, more)
                              \/ \E r \in Requests : ReadBuffered(c, r)
                              \/ \E from, to : Moves(from, to) /\ Goes(c, from, to)
       PROVE  PortInv'
  <2>1. UNCHANGED <<thr, sv, srv, port, again>>
    BY <1>10, Zenon DEF ReadRequest, ReadBuffered, Goes, OnServer
  <2> QED BY <2>1, PortKept
<1>11. ASSUME NEW c \in Conn, conn[c].at = "read" \/ Known(c), Ends(c) PROVE PortInv'
  <2>1. UNCHANGED <<thr, srv, port, again>>
    BY <1>11, Zenon DEF Ends, OnServer
  <2>2. conn[c].srv \in Server
    BY <1>11 DEF Known, ConnInv
  <2>3. \A j \in Server : sv'[j].port = sv[j].port /\ sv'[j].listen = sv[j].listen
    BY <1>11, <2>2, EndsEffect
  <2> QED BY <2>1, <2>3, PortKept
<1>12. ASSUME Dies PROVE PortInv'
  BY <1>12, <1>0 DEF Dies, NewServer, Idle, PortInv
<1>13. ASSUME Boot \/ UNCHANGED vars PROVE PortInv'
  <2>1. UNCHANGED <<thr, sv, srv, port, again>>
    BY <1>13, Zenon DEF Boot, vars
  <2> QED BY <2>1, PortKept
<1> QED BY StepCases, <1>1, <1>2, <1>3, <1>4, <1>5, <1>6, <1>7, <1>8, <1>9, <1>10,
           <1>11, <1>12, <1>13, Zenon DEF Begins

\* Unless a first start had company, or StartAddr was called on a RediQueue that had been
\* started: whatever Starts, Restarts and Closes of any threads interleave, a Restart takes
\* the port of the server before, two servers never have different ports, and every open
\* listener is one that Close can reach or that its Start is about to publish.
THEOREM OnePort == Spec => []OneServer
<1>1. Init => PortInv
  BY NoneApart DEF Init, PortInv, NewServer, Idle
<1>2. LifeInv /\ PortInv /\ [Next]_vars => PortInv'
  BY PortStep, TypeSplit, Zenon DEF LifeInv
<1>3. ASSUME LifeInv, PortInv PROVE OneServer
  <2>1. \A i \in Server : sv[i].port # None => sv[i].listen # "new"
    BY <1>3 DEF LifeInv, ServerInv, NewServer
  <2>2. ASSUME ~again, NEW i \in Server, NEW j \in Server, sv[i].port # None, sv[j].port # None
        PROVE  sv[i].port = sv[j].port
    <3>1. CASE port = None
      <4>1. PICK t \in Thread : thr[t].at = "start" /\ thr[t].srv = i
        BY <1>3, <2>1, <2>2, <3>1 DEF PortInv
      <4>2. PICK u \in Thread : thr[u].at = "start" /\ thr[u].srv = j
        BY <1>3, <2>1, <2>2, <3>1 DEF PortInv
      <4>3. t = u
        BY <1>3, <2>2, <3>1, <4>1, <4>2 DEF PortInv
      <4> QED BY <4>1, <4>2, <4>3
    <3>2. CASE port # None
      BY <1>3, <2>1, <2>2, <3>2 DEF PortInv
    <3> QED BY <3>1, <3>2
  <2> QED BY <1>3, <2>2 DEF PortInv, OneServer
<1> QED BY <1>1, <1>2, <1>3, LifeCorrect, PTL DEF Spec
=============================================================================
