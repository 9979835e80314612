------------------------------ MODULE Lifecycle ------------------------------
(***************************************************************************)
(* The life of a server: Start, StartAddr, Restart, Close and Save of       *)
(* src/rediqueue.go called by the threads of the program that embeds it,    *)
(* the accept loop and the connection goroutines of src/server/server.go,   *)
(* and the process that dies and is started again (src/rediqueue/main.go).  *)
(*                                                                          *)
(* One RediQueue has one server.Server after the other.  Each of them has a *)
(* wait group that counts the accept loop and the connection goroutines.    *)
(* The mutex of the server.Server is held for a few assignments only, which *)
(* are one step here.  The mutex of the RediQueue is the one that the       *)
(* handlers of the commands need: a handler is one step, taken when it is   *)
(* free (see Blocking for what happens inside).                             *)
(***************************************************************************)
EXTENDS Naturals, FiniteSets

CONSTANTS Thread,      \* threads of the embedding program
          Conn,        \* connections of clients
          MaxServers,  \* bound on the server.Servers of one process
          Port,        \* ports of the machine
          Tables,      \* the number of command tables start registers
          None

ASSUME LifecycleAssumption ==
    /\ Tables \in Nat \ {0} /\ MaxServers \in Nat \ {0}
    /\ None \notin Thread \cup Conn \cup Port \cup Nat
    /\ {"serve", "accept", "done"} \cap Conn = {}

Server == 1..MaxServers

VARIABLES up,      \* the process runs
          owner,   \* who holds the mutex of the RediQueue
          srv,     \* m.srv
          port,    \* m.port, None for 0
          thr,     \* where a thread is, the server it starts, the m.port it read
          sv,      \* the server.Servers
          conn,    \* the connections and their goroutines
          again    \* history: the RediQueue was started beside or over another start

vars == <<up, owner, srv, port, thr, sv, conn, again>>

Server0 == [listen : {"new", "open", "closed"},   \* the listener
            port   : Port \cup {None},
            cmds   : 0..Tables,                   \* the tables registered so far
            loop   : {"accept", "done"} \cup Conn, \* Accept has returned a connection
            wg     : SUBSET (Conn \cup {"serve"})]  \* who is counted

Thread0 == [at   : {"idle", "listen", "start", "register", "sweep", "wait", "save"},
            srv  : Server \cup {None},
            port : Port \cup {None}]

\* A request: the table its command is in, and whether it may block or is a QUIT.
\* QUIT is in the first table, the blocking commands are in a later one.
Requests == ((1..Tables) \X {"plain"}) \cup {<<1, "quit">>, <<Tables, "block">>}
NoReq    == <<0, "none">>

Conn0 == [at   : {"none",      \* no connection
                  "dialed",    \* in the backlog of the listener
                  "held",      \* returned by Accept, no goroutine yet
                  "accepted",  \* has its goroutine, not yet in peers
                  "read", "dispatch", "handle", "blocked"},
          srv  : Server \cup {None},
          open : BOOLEAN,                \* not closed by the server
          more : BOOLEAN,                \* the bufio.Reader holds another request
          req  : Requests \cup {NoReq}]

NewServer == [listen |-> "new", port |-> None, cmds |-> 0, loop |-> "done", wg |-> {}]
Idle      == [at |-> "idle", srv |-> None, port |-> None]
NoConn    == [at |-> "none", srv |-> None, open |-> FALSE, more |-> FALSE, req |-> NoReq]

Init ==
    /\ up = TRUE
    /\ owner = None /\ srv = None /\ port = None /\ again = FALSE
    /\ thr = [t \in Thread |-> Idle]
    /\ sv = [i \in Server |-> NewServer]
    /\ conn = [c \in Conn |-> NoConn]
-----------------------------------------------------------------------------
(***************************************************************************)
(* The program.                                                             *)
(***************************************************************************)
At(t, a)       == up /\ thr[t].at = a
ThrTo(t, a)    == thr' = [thr EXCEPT ![t].at = a]
Takes(x)       == owner = None /\ owner' = x
Stays          == UNCHANGED <<up, again>>

\* The process ends.
Dies ==
    /\ up' = FALSE
    /\ owner' = None /\ srv' = None /\ port' = None /\ again' = FALSE
    /\ thr' = [t \in Thread |-> Idle]
    /\ sv' = [i \in Server |-> NewServer]
    /\ conn' = [c \in Conn |-> NoConn]

\* The threads that have begun to start a server and have not set m.srv and m.port.
Starting == {t \in Thread : thr[t].at \in {"listen", "start"}}

\* net.Listen on port p, which must not be in use, and the goroutine of the accept loop.
Listen(t, i, p) ==
    /\ sv[i].listen = "new" /\ \A j \in 1..(i - 1) : sv[j].listen # "new"
    /\ \A j \in Server : sv[j].listen = "open" => sv[j].port # p
    /\ sv' = [sv EXCEPT ![i] = [@ EXCEPT !.listen = "open", !.port = p,
                                         !.loop = "accept", !.wg = {"serve"}]]
    /\ thr' = [thr EXCEPT ![t] = [at |-> "start", srv |-> i, port |-> None]]
    /\ UNCHANGED <<up, owner, srv, port, conn>>

\* Start, Restart: m.port is read without the mutex, ...
StartRead(t) ==
    /\ At(t, "idle")
    /\ thr' = [thr EXCEPT ![t] = [at |-> "listen", srv |-> None, port |-> port]]
    /\ again' = (again \/ (port = None /\ Starting # {}))
    /\ UNCHANGED <<up, owner, srv, port, sv, conn>>

\* ... and is the port to listen on, or any free one when it was 0.
StartListen(t, i, p) ==
    /\ At(t, "listen")
    /\ thr[t].port \in {None, p}
    /\ Listen(t, i, p)
    /\ UNCHANGED again

\* net.Listen fails: Start returns its error.
StartFails(t) ==
    /\ At(t, "listen")
    /\ thr' = [thr EXCEPT ![t] = Idle]
    /\ UNCHANGED <<owner, srv, port, sv, conn>> /\ Stays

\* StartAddr listens where it is told to, whatever m.port is.
StartAddr(t, i, p) ==
    /\ At(t, "idle")
    /\ Listen(t, i, p)
    /\ again' = (again \/ port # None \/ Starting # {})

\* Seeded fault: m.port is not set.
StartLockNoPort(t) ==
    /\ At(t, "start") /\ Takes(t)
    /\ srv' = thr[t].srv
    /\ ThrTo(t, "register")
    /\ UNCHANGED <<port, sv, conn>> /\ Stays

\* start: m.srv and m.port, under the mutex.
StartLock(t) ==
    /\ At(t, "start") /\ Takes(t)
    /\ srv' = thr[t].srv
    /\ port' = sv[thr[t].srv].port
    /\ ThrTo(t, "register")
    /\ UNCHANGED <<sv, conn>> /\ Stays

\* Seeded fault: start returns before the last table.
RegisterAllButOne(t) ==
    /\ At(t, "register")
    /\ IF sv[srv].cmds < Tables - 1
       THEN sv' = [sv EXCEPT ![srv].cmds = @ + 1] /\ UNCHANGED <<owner, thr>>
       ELSE owner' = None /\ thr' = [thr EXCEPT ![t] = Idle] /\ UNCHANGED sv
    /\ UNCHANGED <<srv, port, conn>> /\ Stays

\* start: one table of commands after the other; then it returns.
Register(t) ==
    /\ At(t, "register")
    /\ IF sv[srv].cmds < Tables
       THEN sv' = [sv EXCEPT ![srv].cmds = @ + 1] /\ UNCHANGED <<owner, thr>>
       ELSE owner' = None /\ thr' = [thr EXCEPT ![t] = Idle] /\ UNCHANGED sv
    /\ UNCHANGED <<srv, port, conn>> /\ Stays

\* Close: returns at once without a server.
CloseLock(t) ==
    /\ At(t, "idle") /\ srv # None /\ Takes(t)
    /\ ThrTo(t, "sweep")
    /\ UNCHANGED <<srv, port, sv, conn>> /\ Stays

InPeers(c, i) == conn[c].srv = i /\ conn[c].at \notin {"none", "dialed", "held", "accepted"}

\* Server.Close: the listener, and with it the connections nobody accepted, then
\* the connections in peers.
Sweep(t) ==
    /\ At(t, "sweep")
    /\ sv' = [sv EXCEPT ![srv].listen = "closed"]
    /\ conn' = [c \in Conn |->
                   IF conn[c].srv = srv /\ conn[c].at = "dialed" THEN NoConn
                   ELSE IF InPeers(c, srv) THEN [conn[c] EXCEPT !.open = FALSE]
                   ELSE conn[c]]
    /\ ThrTo(t, "wait")
    /\ UNCHANGED <<owner, srv, port>> /\ Stays

\* wg.Wait(), m.srv = nil, m.Unlock().
CloseReturn(t) ==
    /\ At(t, "wait") /\ sv[srv].wg = {}
    /\ srv' = None /\ owner' = None
    /\ ThrTo(t, "idle")
    /\ UNCHANGED <<port, sv, conn>> /\ Stays

\* Addr, Host, Port and the counters: without a server they dereference nil.
Query(t) ==
    /\ At(t, "idle") /\ owner = None /\ srv = None
    /\ Dies

\* Save opens and writes the file under the mutex.  What gob writes to it is external.
SaveOpen(t) ==
    /\ At(t, "idle") /\ Takes(t)
    /\ ThrTo(t, "save")
    /\ UNCHANGED <<srv, port, sv, conn>> /\ Stays

SaveWrite(t) ==
    /\ At(t, "save")
    /\ owner' = None
    /\ ThrTo(t, "idle")
    /\ UNCHANGED <<srv, port, sv, conn>> /\ Stays

\* The process ends: main returns after its last Save, it is killed, or it panics.
Crash ==
    /\ up /\ Dies

\* The next process: NewRediQueue.
Boot ==
    /\ ~up /\ up' = TRUE
    /\ UNCHANGED <<owner, srv, port, thr, sv, conn, again>>
-----------------------------------------------------------------------------
(***************************************************************************)
(* The server: the accept loop and a goroutine for every connection.        *)
(***************************************************************************)
ConnTo(c, a) == conn' = [conn EXCEPT ![c].at = a]
OnServer     == UNCHANGED <<up, owner, srv, port, thr, again>>

\* The goroutine of c goes on, with no effect beyond its own state.
Goes(c, from, to) ==
    /\ up /\ conn[c].at = from
    /\ conn' = [conn EXCEPT ![c].at = to, ![c].req = IF to = "read" THEN NoReq ELSE @]
    /\ UNCHANGED sv /\ OnServer

\* A client connects: the kernel puts it in the backlog.
Dial(c, i) ==
    /\ up /\ conn[c].at = "none" /\ sv[i].listen = "open"
    /\ conn' = [conn EXCEPT ![c] = [NoConn EXCEPT !.at = "dialed", !.srv = i, !.open = TRUE]]
    /\ UNCHANGED sv /\ OnServer

Accept(i, c) ==
    /\ up /\ sv[i].loop = "accept" /\ sv[i].listen = "open"
    /\ conn[c].at = "dialed" /\ conn[c].srv = i
    /\ sv' = [sv EXCEPT ![i].loop = c]
    /\ ConnTo(c, "held")
    /\ OnServer

\* Seeded fault: the goroutine counts itself.
SpawnUncounted(i) ==
    /\ up /\ sv[i].loop \in Conn
    /\ sv' = [sv EXCEPT ![i].loop = "accept"]
    /\ ConnTo(sv[i].loop, "accepted")
    /\ OnServer

\* s.wg.Add(1) and the go statement.
Spawn(i) ==
    /\ up /\ sv[i].loop \in Conn
    /\ sv' = [sv EXCEPT ![i].loop = "accept", ![i].wg = @ \cup {sv[i].loop}]
    /\ ConnTo(sv[i].loop, "accepted")
    /\ OnServer

\* Seeded fault: the loop goes on after an error.
AcceptRetries(i) ==
    /\ up /\ sv[i].loop = "accept" /\ sv[i].listen = "closed"
    /\ UNCHANGED <<sv, conn>> /\ OnServer

AcceptFails(i) ==
    /\ up /\ sv[i].loop = "accept" /\ sv[i].listen = "closed"
    /\ sv' = [sv EXCEPT ![i].loop = "done", ![i].wg = @ \ {"serve"}]
    /\ UNCHANGED conn /\ OnServer

\* s.peers[conn] = ...
Enter(c) == Goes(c, "accepted", "read")

\* readArray: a request the client sends, perhaps with the next one behind it, or
\* the one that is in the buffer already, even if the connection is closed by now.
ReadRequest(c, r, more) ==
    /\ up /\ conn[c].at = "read" /\ conn[c].open /\ ~conn[c].more
    /\ conn' = [conn EXCEPT ![c] = [@ EXCEPT !.at = "dispatch", !.req = r, !.more = more]]
    /\ UNCHANGED sv /\ OnServer

ReadBuffered(c, r) ==
    /\ up /\ conn[c].at = "read" /\ conn[c].more
    /\ conn' = [conn EXCEPT ![c] = [@ EXCEPT !.at = "dispatch", !.req = r, !.more = FALSE]]
    /\ UNCHANGED sv /\ OnServer

\* delete(s.peers, conn), conn.Close(), s.wg.Done().
Ends(c) ==
    /\ sv' = [sv EXCEPT ![conn[c].srv].wg = @ \ {c}]
    /\ conn' = [conn EXCEPT ![c] = NoConn]
    /\ OnServer

\* readArray fails: the connection was closed, by Close or by the client.
ReadClosed(c) == up /\ conn[c].at = "read" /\ ~conn[c].open /\ ~conn[c].more /\ Ends(c)
Hangup(c)     == up /\ conn[c].at = "read" /\ conn[c].open /\ ~conn[c].more /\ Ends(c)

Known(c) == conn[c].at = "dispatch" /\ conn[c].req[1] <= sv[conn[c].srv].cmds

\* dispatch: an unknown command is answered at once; QUIT needs no mutex.
Dispatch(c) ==
    \/ ~Known(c) /\ Goes(c, "dispatch", "read")
    \/ Known(c) /\ conn[c].req[2] # "quit" /\ Goes(c, "dispatch", "handle")
    \/ up /\ Known(c) /\ conn[c].req[2] = "quit" /\ Ends(c)

\* Seeded fault: a return without the Unlock.
HandleKeepsLock(c) ==
    /\ up /\ conn[c].at = "handle" /\ Takes(c)
    /\ ConnTo(c, "read")
    /\ UNCHANGED <<up, srv, port, thr, sv, again>>

\* The handler, under the mutex; a blocking one may have to wait, and lets go of it.
Handle(c) ==
    /\ owner = None
    /\ \/ Goes(c, "handle", "read")
       \/ conn[c].req[2] = "block" /\ Goes(c, "handle", "blocked")

\* A Broadcast or the timer: back to the mutex (see Blocking).
Wake(c) == Goes(c, "blocked", "handle")
-----------------------------------------------------------------------------
Next ==
    \/ \E t \in Thread :
          \/ \E i \in Server, p \in Port : StartListen(t, i, p) \/ StartAddr(t, i, p)
          \/ StartRead(t) \/ StartFails(t) \/ StartLock(t) \/ Register(t)
          \/ CloseLock(t) \/ Sweep(t) \/ CloseReturn(t)
          \/ Query(t) \/ SaveOpen(t) \/ SaveWrite(t)
    \/ \E i \in Server :
          \/ Spawn(i) \/ AcceptFails(i)
          \/ \E c \in Conn : Dial(c, i) \/ Accept(i, c)
    \/ \E c \in Conn :
          \/ \E r \in Requests : ReadBuffered(c, r) \/ \E more \in BOOLEAN : ReadRequest(c, r, more)
          \/ Enter(c) \/ ReadClosed(c) \/ Hangup(c) \/ Dispatch(c)
          \/ Handle(c) \/ Wake(c)
    \/ Crash \/ Boot

Spec == Init /\ [][Next]_vars

(***************************************************************************)
(* Fairness: every goroutine that can go on goes on, and the mutex is not   *)
(* denied for ever (see Blocking).  Nothing obliges the clients to send a   *)
(* request or to hang up, the program to call a method, or a blocked        *)
(* command to be woken.                                                     *)
(***************************************************************************)
Fairness ==
    /\ \A t \in Thread :
          /\ SF_vars(StartLock(t))
          /\ WF_vars(Register(t) \/ Sweep(t) \/ CloseReturn(t) \/ SaveWrite(t))
    /\ \A i \in Server : WF_vars(Spawn(i) \/ AcceptFails(i) \/ \E c \in Conn : Accept(i, c))
    /\ \A c \in Conn :
          /\ SF_vars(Handle(c))
          /\ WF_vars(\/ Enter(c) \/ ReadClosed(c) \/ \E r \in Requests : ReadBuffered(c, r)
                     \/ Dispatch(c))

FairSpec == Spec /\ Fairness
-----------------------------------------------------------------------------
\* The type of every variable; the mutex is held by the one thread that is between
\* Lock and Unlock, if there is one, and a handler has left it.
TypeOK ==
    /\ up \in BOOLEAN /\ again \in BOOLEAN
    /\ srv \in Server \cup {None} /\ port \in Port \cup {None}
    /\ thr \in [Thread -> Thread0]
    /\ sv \in [Server -> Server0]
    /\ conn \in [Conn -> Conn0]
    /\ {owner} \ {None} = {t \in Thread : thr[t].at \in {"register", "sweep", "wait", "save"}}

\* The goroutines of server i that have not ended.
Goroutines(i) ==
    (IF sv[i].loop # "done" THEN {"serve"} ELSE {})
        \cup {c \in Conn : conn[c].srv = i /\ conn[c].at \notin {"none", "dialed", "held"}}

\* When Close returns, no goroutine of that server is left: none serves a client with
\* the closed server's commands, or touches the databases of a restarted one.
NothingServesAfterClose ==
    \A i \in Server : sv[i].listen = "closed" /\ srv # i => Goroutines(i) = {}

\* "Restart restarts a Close()d server on the same port", and Close reaches every open
\* listener, for any interleaving of the Starts, Restarts and Closes of any threads: the
\* m.port that a Start reads without the mutex may be old, but then it is the same.  This
\* takes a first start that was alone (as in Run and RunAddr) and no StartAddr after it:
\* start sets m.srv without a look at the server that is there.
OneServer ==
    ~again =>
        /\ \A i, j \in Server : sv[i].port # None /\ sv[j].port # None => sv[i].port = sv[j].port
        /\ \A i \in Server : sv[i].listen = "open" =>
              i = srv \/ \E t \in Thread : thr[t].at = "start" /\ thr[t].srv = i

\* A command of the server is answered as unknown only while start has not returned
\* for the server that answers; a Restart beside old connections changes nothing.
KnownOnceStarted ==
    [][\A c \in Conn : up /\ conn[c].at = "dispatch" /\ conn'[c].at = "read" =>
          \E t \in Thread : thr[t].at \in {"start", "register"} /\ thr[t].srv = conn[c].srv]_vars

\* The server t closes is quiet: its connections were all in peers for the sweep, and
\* no request is under way.
Quiet(t) ==
    /\ At(t, "wait")
    /\ sv[srv].loop \notin Conn
    /\ \A c \in Conn : conn[c].srv = srv =>
          conn[c].at = "read" /\ ~conn[c].open /\ ~conn[c].more

\* A Close that finds only idle connections returns, though their clients never hang up
\* and another thread may be starting the next server on the same port.
QuietCloseReturns == \A t \in Thread : Quiet(t) ~> ~At(t, "wait")

\* What the comments on Close promise ("Close shuts down a RediQueue", "It will wait until
\* all clients are closed", which it closes itself): Close returns, or the process ends.
CloseReturns == \A t \in Thread : At(t, "sweep") ~> ~(At(t, "sweep") \/ At(t, "wait"))
=============================================================================
