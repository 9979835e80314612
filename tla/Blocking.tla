------------------------------- MODULE Blocking -------------------------------
(***************************************************************************)
(* The lock and wake-up protocol of RediQueue (src/redis.go).               *)
(*                                                                          *)
(* Every connection is served by one goroutine.  A command runs under the   *)
(* one mutex of the server: withTx locks it, runs the command's callback,   *)
(* broadcasts on the condition variable m.signal and unlocks it.  A         *)
(* blocking command (BLPOP, BRPOP, BRPOPLPUSH) retries its callback until   *)
(* it succeeds or its timer fires.  sync.Cond has no wait with a timeout,   *)
(* so blocking() starts a helper goroutine that waits on the condition on   *)
(* the command's behalf: the helper RELEASES a mutex the command's own      *)
(* goroutine locked, and locks it again before the command goes on.         *)
(***************************************************************************)
EXTENDS ListCallbacks, FiniteSets

CONSTANT Conn     \* connections, one goroutine each

\* What the request of an idle connection is does not matter.
Whatever == CHOOSE r \in Request : TRUE

VARIABLES
    db,       \* db[k]: the list at k, or SetKey
    fresh,    \* the elements the clients can push: not in the server, not in a request
    locked,   \* the server's mutex (a sync.Mutex has no owner)
    pc,       \* where the goroutine of a connection is
    req,      \* the request it serves
    reply,    \* the replies written to the connection's buffer for that request
    helper,   \* the helper goroutine of a blocking command
    timer,    \* its timer
    silent    \* history: has a list grown since the last Broadcast?

vars == <<db, fresh, locked, pc, req, reply, helper, timer, silent>>

Locations == {"idle",     \* reading the next request
              "lock",     \* at m.Lock()
              "run",      \* holds the mutex, at the callback
              "select",   \* waits for the helper or the timer
              "kill",     \* timed out, at m.signal.Broadcast()
              "join",     \* timed out, at wg.Wait()
              "release"}  \* done, at m.Unlock()

HelperStates == {"none",
                 "spawned",   \* started, not yet on the condition's wait list
                 "parked",    \* on the wait list, mutex released
                 "notified",  \* woken, at the Lock() inside Wait
                 "done"}      \* has the mutex back, wakeup sent, wg.Done()
-----------------------------------------------------------------------------
\* The elements of the list at k.
ListElems(d, k) == IF d[k] = SetKey THEN {} ELSE {d[k][i] : i \in DOMAIN d[k]}

\* Elements that a request hands back to the clients without a reply carrying
\* them: a push that was refused, or a list that was deleted.
HandedBack(r, out) ==
    IF r.op \in PushOps /\ out.reply = "wrongtype" THEN {r.elem}
    ELSE IF r.op = "del" THEN ListElems(db, r.keys[1])
    ELSE {}

\* Seeded fault: Signal instead of Broadcast.
WokenOne ==
    LET parked == {c \in Conn : helper[c] = "parked"} IN
    IF parked = {} THEN helper
    ELSE [helper EXCEPT ![CHOOSE c \in parked : TRUE] = "notified"]

\* m.signal.Broadcast(): every goroutine on the wait list is woken.
Woken == [c \in Conn |-> IF helper[c] = "parked" THEN "notified" ELSE helper[c]]
-----------------------------------------------------------------------------
Init ==
    /\ db = [k \in Key |-> <<>>]
    /\ fresh = Elem
    /\ locked = FALSE
    /\ pc = [c \in Conn |-> "idle"]
    /\ req = [c \in Conn |-> Whatever]
    /\ reply = [c \in Conn |-> <<>>]
    /\ helper = [c \in Conn |-> "none"]
    /\ timer = [c \in Conn |-> "off"]
    /\ silent = FALSE

Goto(c, from, to) ==
    /\ pc[c] = from
    /\ pc' = [pc EXCEPT ![c] = to]

\* Seeded fault: a timeout of 0 arms the timer too.
IssueArmed(c, r) ==
    /\ Goto(c, "idle", "lock")
    /\ r.op \in PushOps => r.elem \in fresh
    /\ fresh' = IF r.op \in PushOps THEN fresh \ {r.elem} ELSE fresh
    /\ req' = [req EXCEPT ![c] = r]
    /\ timer' = [timer EXCEPT ![c] = IF r.op \in BlockingOps THEN "armed" ELSE "off"]
    /\ UNCHANGED <<db, locked, reply, helper, silent>>

\* A client sends a request; blocking() arms the timer before it locks.
Issue(c, r) ==
    /\ Goto(c, "idle", "lock")
    /\ r.op \in PushOps => r.elem \in fresh
    /\ fresh' = IF r.op \in PushOps THEN fresh \ {r.elem} ELSE fresh
    /\ req' = [req EXCEPT ![c] = r]
    /\ timer' = [timer EXCEPT ![c] =
                    IF r.op \in BlockingOps /\ r.timed THEN "armed" ELSE "off"]
    /\ UNCHANGED <<db, locked, reply, helper, silent>>

Acquire(c) ==
    /\ Goto(c, "lock", "run")
    /\ ~locked
    /\ locked' = TRUE
    /\ UNCHANGED <<db, fresh, req, reply, helper, timer, silent>>

\* Seeded fault: withTx without its Broadcast.
RunTxSilent(c) ==
    LET out == Cb(req[c], db) IN
    /\ req[c].op \in TxOps
    /\ Goto(c, "run", "release")
    /\ db' = out.db
    /\ fresh' = fresh \cup HandedBack(req[c], out)
    /\ reply' = [reply EXCEPT ![c] = Append(@, out.reply)]
    /\ UNCHANGED <<locked, req, helper, timer, silent>>

\* withTx: the callback, then the Broadcast, both under the mutex.
RunTx(c) ==
    LET out == Cb(req[c], db) IN
    /\ req[c].op \in TxOps
    /\ Goto(c, "run", "release")
    /\ db' = out.db
    /\ fresh' = fresh \cup HandedBack(req[c], out)
    /\ reply' = [reply EXCEPT ![c] = Append(@, out.reply)]
    /\ helper' = Woken
    /\ silent' = FALSE
    /\ UNCHANGED <<locked, req, timer>>

\* The direct API (Lpush, Push): the same change with no Broadcast.
RunDirect(c) ==
    LET out == Cb(req[c], db) IN
    /\ req[c].op \in DirectOps
    /\ Goto(c, "run", "release")
    /\ db' = out.db
    /\ fresh' = fresh \cup HandedBack(req[c], out)
    /\ reply' = [reply EXCEPT ![c] = Append(@, out.reply)]
    /\ silent' = (silent \/ db' # db)
    /\ UNCHANGED <<locked, req, helper, timer>>

\* blocking: one turn of the loop.  On success it returns, without a Broadcast;
\* otherwise it starts the helper.
TryDone(c) ==
    LET out == Cb(req[c], db) IN
    /\ req[c].op \in BlockingOps
    /\ out.done
    /\ Goto(c, "run", "release")
    /\ db' = out.db
    /\ reply' = [reply EXCEPT ![c] = Append(@, out.reply)]
    /\ silent' = (silent \/ (req[c].op \in MoveOps /\ db' # db))
    /\ UNCHANGED <<fresh, locked, req, helper, timer>>

TryWait(c) ==
    /\ req[c].op \in BlockingOps
    /\ ~Cb(req[c], db).done
    /\ Goto(c, "run", "select")
    /\ helper' = [helper EXCEPT ![c] = "spawned"]
    /\ UNCHANGED <<db, fresh, locked, req, reply, timer, silent>>

\* select: the wakeup channel is ready; wg.Wait() then returns at once.
Retry(c) ==
    /\ helper[c] = "done"
    /\ Goto(c, "select", "run")
    /\ helper' = [helper EXCEPT ![c] = "none"]
    /\ UNCHANGED <<db, fresh, locked, req, reply, timer, silent>>

\* select: the timer is ready; onTimeout writes a null.
TimeOut(c) ==
    /\ timer[c] = "fired"
    /\ Goto(c, "select", "kill")
    /\ timer' = [timer EXCEPT ![c] = "off"]
    /\ reply' = [reply EXCEPT ![c] = Append(@, "null")]
    /\ UNCHANGED <<db, fresh, locked, req, helper, silent>>

\* Seeded fault: the timeout does not broadcast.
KillNoBroadcast(c) ==
    /\ Goto(c, "kill", "join")
    /\ UNCHANGED <<db, fresh, locked, req, reply, helper, timer, silent>>

\* "to kill the wakeup go routine"
Kill(c) ==
    /\ Goto(c, "kill", "join")
    /\ helper' = Woken
    /\ silent' = FALSE
    /\ UNCHANGED <<db, fresh, locked, req, reply, timer>>

\* Seeded fault: the timeout does not wait for the helper.
JoinNoWait(c) ==
    /\ Goto(c, "join", "release")
    /\ helper' = [helper EXCEPT ![c] = "none"]
    /\ UNCHANGED <<db, fresh, locked, req, reply, timer, silent>>

\* Seeded fault: no return after the timeout.
JoinLoops(c) ==
    /\ helper[c] = "done"
    /\ Goto(c, "join", "run")
    /\ helper' = [helper EXCEPT ![c] = "none"]
    /\ UNCHANGED <<db, fresh, locked, req, reply, timer, silent>>

\* The wg.Wait() of the timeout, then return.
Join(c) ==
    /\ helper[c] = "done"
    /\ Goto(c, "join", "release")
    /\ helper' = [helper EXCEPT ![c] = "none"]
    /\ UNCHANGED <<db, fresh, locked, req, reply, timer, silent>>

\* m.Unlock(), dl.Stop(), and the server's Flush of the reply.
Release(c) ==
    /\ Goto(c, "release", "idle")
    /\ locked' = FALSE
    /\ timer' = [timer EXCEPT ![c] = "off"]
    /\ reply' = [reply EXCEPT ![c] = <<>>]
    /\ fresh' = IF req[c].op \in PopOps
                THEN fresh \cup {e \in Elem : reply[c][1] = e}
                ELSE fresh
    /\ req' = [req EXCEPT ![c] = Whatever]
    /\ UNCHANGED <<db, helper, silent>>

\* Seeded fault: the helper sleeps with the mutex locked.
HelperWaitLocked(c) ==
    /\ helper[c] = "spawned"
    /\ helper' = [helper EXCEPT ![c] = "parked"]
    /\ UNCHANGED <<db, fresh, locked, pc, req, reply, timer, silent>>

\* The helper goroutine.  Cond.Wait (sync): join the wait list and unlock ...
HelperWait(c) ==
    /\ helper[c] = "spawned"
    /\ helper' = [helper EXCEPT ![c] = "parked"]
    /\ locked' = FALSE
    /\ UNCHANGED <<db, fresh, pc, req, reply, timer, silent>>

\* ... once notified, lock again; then send on wakeup and wg.Done().
HelperRelock(c) ==
    /\ helper[c] = "notified"
    /\ ~locked
    /\ locked' = TRUE
    /\ helper' = [helper EXCEPT ![c] = "done"]
    /\ UNCHANGED <<db, fresh, pc, req, reply, timer, silent>>

\* The runtime's timer fires: a value is ready on dl.C.
Fire(c) ==
    /\ timer[c] = "armed"
    /\ timer' = [timer EXCEPT ![c] = "fired"]
    /\ UNCHANGED <<db, fresh, locked, pc, req, reply, helper, silent>>

Step(c) ==
    \/ Acquire(c) \/ RunTx(c) \/ RunDirect(c) \/ TryDone(c) \/ TryWait(c)
    \/ Retry(c) \/ TimeOut(c) \/ Kill(c) \/ Join(c) \/ Release(c)
    \/ HelperWait(c) \/ HelperRelock(c) \/ Fire(c)

Next == \E c \in Conn : (\E r \in Request : Issue(c, r)) \/ Step(c)

Spec == Init /\ [][Next]_vars

(***************************************************************************)
(* Fairness.  The Go scheduler runs every runnable goroutine, and timers    *)
(* fire.  Locking is strongly fair: a goroutine that waits for more than a  *)
(* millisecond puts the sync.Mutex in starvation mode and gets it next.     *)
(* Nothing obliges a client to send a request.                              *)
(***************************************************************************)
Fairness ==
    \A c \in Conn :
        /\ SF_vars(Acquire(c))
        /\ WF_vars(RunTx(c) \/ RunDirect(c) \/ TryDone(c) \/ TryWait(c))
        /\ WF_vars(Retry(c) \/ TimeOut(c))
        /\ WF_vars(Kill(c) \/ Join(c) \/ Release(c))
        /\ WF_vars(HelperWait(c))
        /\ SF_vars(HelperRelock(c))
        /\ WF_vars(Fire(c))

FairSpec == Spec /\ Fairness
-----------------------------------------------------------------------------
\* The type of every variable.
TypeOK ==
    /\ db \in [Key -> Seq(Elem) \cup {SetKey}]
    /\ fresh \subseteq Elem
    /\ locked \in BOOLEAN
    /\ pc \in [Conn -> Locations]
    /\ req \in [Conn -> Request]
    /\ reply \in [Conn -> Seq(Replies)]
    /\ helper \in [Conn -> HelperStates]
    /\ timer \in [Conn -> {"off", "armed", "fired"}]
    /\ silent \in BOOLEAN

\* The request of c is served by blocking() and has left the callback without success.
Waiting(c) == pc[c] \in {"select", "kill", "join"}

\* The mutex is held on behalf of c: by its goroutine, or by its helper before
\* the Unlock and after the Lock inside Cond.Wait.
Holds(c) ==
    \/ pc[c] \in {"run", "release"}
    \/ Waiting(c) /\ helper[c] \in {"spawned", "done"}

\* The mutex that blocking() hands to its helper and takes back is held for at
\* most one connection at any time, and it is locked exactly when it is held for
\* one: no Unlock of an unlocked mutex (a fatal error in Go), no callback outside
\* the mutex, no helper left behind by a command that has returned.
LockHandOff ==
    /\ \A c, d \in Conn : Holds(c) /\ Holds(d) => c = d
    /\ locked <=> \E c \in Conn : Holds(c)
    /\ \A c \in Conn : helper[c] = "none" <=> ~Waiting(c)

\* A command writes exactly one reply, however the timer, the wake-ups and the
\* retries of blocking() interleave: none before it is decided, one afterwards.
OneReply ==
    \A c \in Conn :
        Len(reply[c]) = IF pc[c] \in {"kill", "join", "release"} THEN 1 ELSE 0

\* The places where element e is.
Places(e) ==
         {<<x>> : x \in {e} \cap fresh}
    \cup {<<c, "pushing">> : c \in {x \in Conn : /\ pc[x] \in {"lock", "run"}
                                                /\ req[x].op \in PushOps
                                                /\ req[x].elem = e}}
    \cup {<<c, "popped">> : c \in {x \in Conn : /\ pc[x] = "release"
                                               /\ req[x].op \in PopOps
                                               /\ reply[x] = <<e>>}}
    \cup UNION {{<<k, i, "list">> : i \in {j \in DOMAIN db[k] : db[k][j] = e}} :
                k \in {x \in Key : db[x] # SetKey}}

\* An element is never lost and never delivered twice: it is in one place, with
\* the clients, in a push on its way, at one position of one list, or in the
\* reply of one pop; a timeout, a retry or a rotation duplicates nothing.
EachElementOnce == \A e \in Elem : Cardinality(Places(e)) = 1

\* The request of c waits although its callback would succeed now.
CouldBeServed(c) == pc[c] = "select" /\ Cb(req[c], db).done

\* No wake-up is lost: a blocking command whose helper sleeps on the condition
\* while its callback would succeed exists only after a list was changed by a
\* step that does not broadcast (a BRPOPLPUSH, a direct Push).
ServedUnlessSilent ==
    \A c \in Conn : helper[c] = "parked" /\ CouldBeServed(c) => silent

\* What blocking() promises ("keeps trying a command until the callback returns
\* true"): no command sleeps while there is something for it to take.
NoLostWakeup == \A c \in Conn : ~(helper[c] = "parked" /\ CouldBeServed(c))

\* blocking() and withTx implement the service without a mutex: every request
\* takes effect in one step, a timed-out one has none, and a command without a
\* timeout is never given up.
Stage ==
    [c \in Conn |-> CASE pc[c] = "idle"                       -> "idle"
                     [] pc[c] \in {"lock", "run", "select"}   -> "pending"
                     [] OTHER                                 -> "answered"]

Service == INSTANCE ListService WITH stage <- Stage

ImplementsService == Service!SSpec

\* Every non-blocking command is answered, whatever the blocked ones do: no
\* goroutine keeps the mutex while it waits for its timer or for its helper.
CommandCompletes ==
    \A c \in Conn :
        (pc[c] = "lock" /\ req[c].op \notin BlockingOps) ~> (pc[c] = "idle")

\* A blocked command whose callback can succeed stops waiting, unless another
\* connection takes the element first.
ServedOrOvertaken ==
    \A c \in Conn : CouldBeServed(c) ~> ~CouldBeServed(c)

\* A timeout whose Broadcast finds the helper on the wait list ends the command.
TimedOutReturns ==
    \A c \in Conn :
        (pc[c] = "kill" /\ helper[c] # "spawned") ~> (pc[c] = "idle")

\* What the comment on blocking() says of a timeout ("Calls onTimeout after the
\* timeout") and of its Broadcast ("to kill the wakeup go routine"): a command
\* with a timeout is always answered.
TimeoutAnswered ==
    \A c \in Conn :
        (pc[c] = "lock" /\ req[c].op \in BlockingOps /\ req[c].timed) ~> (pc[c] = "idle")
=============================================================================
