----------------------------- MODULE Transactions -----------------------------
(***************************************************************************)
(* Connections, authentication and optimistic transactions: MULTI, EXEC,    *)
(* DISCARD, WATCH, UNWATCH (src/cmd_transactions.go), SELECT, AUTH and QUIT *)
(* (src/cmd_connection.go), and the connection context of src/rediqueue.go. *)
(*                                                                          *)
(* A handler is one step: what it does outside the mutex of the server is   *)
(* local to its connection.  EXEC keeps the mutex over all the callbacks of *)
(* its transaction, which are steps of their own here, and no other handler *)
(* runs meanwhile.  handleAuth locks and unlocks the mutex before the rest  *)
(* of the handler locks it again.  Only RequireAuth can tell, so it is the  *)
(* step that chooses which requests were already past the check.            *)
(***************************************************************************)
EXTENDS Commands

CONSTANTS Conn,         \* connections
          Command,      \* the commands the clients send
          WatchArgs,    \* the argument lists of WATCH
          Password,     \* passwords the embedding program may require
          MaxQueue,     \* bound on the length of a transaction
          MaxVersion    \* bound on the version of a key

NoPassword == ""

ASSUME TransactionsAssumption ==
    /\ Command \subseteq Commands
    /\ WatchArgs \subseteq Seq(Key)
    /\ Nil \notin Seq(Commands) /\ Nil \notin [conn : Conn, todo : Seq(Commands)]
    /\ NoPassword \in Password
    /\ MaxQueue \in Nat /\ MaxVersion \in Nat

VARIABLES dbs,        \* m.dbs
          password,   \* m.password, NoPassword when none is required
          ctx,        \* the connCtx of each connection
          past,       \* connections with a request past handleAuth when the password changed
          exec,       \* the EXEC that holds the mutex: connection and callbacks left, or Nil
          up,         \* the process runs: FALSE after a panic
          snap,       \* history: the values the connection's WATCHes saw
          spoiled     \* history: connections with a request in their transaction that its
                      \* handler refused for its arguments

vars == <<dbs, password, ctx, past, exec, up, snap, spoiled>>

dbKey        == DB \X Key
Values       == Types \X Seq(Val) \X SUBSET Val
NoWatch      == [p \in dbKey |-> Nil]

\* The callback that UNWATCH queues.
UnwatchCmd == [op |-> "UNWATCH", keys |-> <<>>, vals |-> <<>>, n |-> 0, m |-> 0]
Queued     == Command \cup {UnwatchCmd}

connCtx ==
    [selectedDB    : DB,
     authenticated : BOOLEAN,
     transaction   : {Nil} \cup Seq(Queued),
     dirty         : BOOLEAN,
     watch         : [dbKey -> {Nil} \cup Nat]]

newCtx ==
    [selectedDB |-> 0, authenticated |-> FALSE, transaction |-> Nil,
     dirty |-> FALSE, watch |-> NoWatch]

Init ==
    /\ dbs = [d \in DB |-> newRedisDB]
    /\ password = NoPassword
    /\ ctx = [c \in Conn |-> newCtx]
    /\ past = {}
    /\ exec = Nil
    /\ up = TRUE
    /\ snap = [c \in Conn |-> NoWatch]
    /\ spoiled = {}
-----------------------------------------------------------------------------
inTx(c)       == ctx[c].transaction # Nil
handleAuth(c) == password = NoPassword \/ ctx[c].authenticated \/ c \in past
Watched(c)    == {p \in dbKey : ctx[c].watch[p] # Nil}

\* Seeded fault: the watched keys survive the transaction.
stopTxKeepsWatch(x) == [x EXCEPT !.transaction = Nil]

startTx(x)  == [x EXCEPT !.transaction = <<>>, !.dirty = FALSE]
unwatch(x)  == [x EXCEPT !.watch = NoWatch]
stopTx(x)   == unwatch([x EXCEPT !.transaction = Nil])

addTxCmd(x, cmd) == [x EXCEPT !.transaction = Append(@, cmd)]

\* The process runs and the mutex is free: a handler can go ahead.
Free == up /\ exec = Nil

Becomes(c, x) == ctx' = [ctx EXCEPT ![c] = x]
Keeps         == UNCHANGED <<dbs, password, exec, up>>

\* What the histories note of the end of a transaction.
Forgets(c) ==
    /\ snap' = [snap EXCEPT ![c] = NoWatch]
    /\ spoiled' = spoiled \ {c}

\* A request with wrong arguments, which its handler refuses with setDirty, whether or
\* not in a transaction; not MULTI, and not SPOP for its count.
Malformed(c) ==
    /\ Free
    /\ Becomes(c, [ctx[c] EXCEPT !.dirty = TRUE])
    /\ spoiled' = IF inTx(c) THEN spoiled \cup {c} ELSE spoiled
    /\ Keeps /\ UNCHANGED snap

\* A command that dispatch does not know, or one that lacks authentication: only
\* the error is answered (as for EXEC and DISCARD outside a transaction).
Unknown(c) ==
    /\ Free
    /\ Keeps /\ UNCHANGED <<ctx, snap, spoiled>>

NoAuth(c) ==
    /\ Free /\ ~handleAuth(c)
    /\ Keeps /\ UNCHANGED <<ctx, snap, spoiled>>

\* PING and ECHO.
cmdPing(c) ==
    /\ Free /\ handleAuth(c)
    /\ Keeps /\ UNCHANGED <<ctx, snap, spoiled>>

\* withTx in a transaction.
Queue(c, cmd) ==
    /\ Free /\ handleAuth(c) /\ inTx(c)
    /\ Len(ctx[c].transaction) < MaxQueue
    /\ Becomes(c, addTxCmd(ctx[c], cmd))
    /\ Keeps /\ UNCHANGED <<snap, spoiled>>

\* SPOP's count is parsed by the callback: a queued SPOP marks a transaction that EXEC
\* is already running, and one outside a transaction its connection.
Marked(x, cmd) == IF cmd.op = "SPOP" /\ cmd.m = 2 THEN [x EXCEPT !.dirty = TRUE] ELSE x

Effect(c, cmd) ==
    /\ Becomes(c, Marked(ctx[c], cmd))
    /\ \E o \in Outcomes(cmd, ctx[c].selectedDB, dbs) :
          /\ \A p \in dbKey : o.dbs[p[1]].keyVersion[p[2]] <= MaxVersion
          /\ dbs' = o.dbs
          /\ up' = (o.reply # Panicked)

\* withTx outside a transaction.
Run(c, cmd) ==
    /\ Free /\ handleAuth(c) /\ ~inTx(c)
    /\ Effect(c, cmd)
    /\ UNCHANGED <<password, exec, snap, spoiled>>

\* MULTI with arguments is refused without setDirty.
MultiRefused(c) ==
    /\ Free
    /\ Keeps /\ UNCHANGED <<ctx, snap, spoiled>>

cmdMulti(c) ==
    /\ Free /\ handleAuth(c)
    /\ IF inTx(c)
       THEN UNCHANGED ctx
       ELSE Becomes(c, startTx(ctx[c]))
    /\ Keeps /\ UNCHANGED <<snap, spoiled>>

cmdWatch(c, ks) ==
    LET at == {ctx[c].selectedDB} \X ToSet(ks) IN
    /\ Free /\ handleAuth(c)
    /\ IF inTx(c)
       THEN UNCHANGED <<ctx, snap>>
       ELSE /\ Becomes(c, [ctx[c] EXCEPT !.watch = [p \in dbKey |->
                             IF p \in at THEN dbs[p[1]].keyVersion[p[2]] ELSE @[p]]])
            /\ snap' = [snap EXCEPT ![c] = [p \in dbKey |->
                             IF p \in at THEN value(dbs[p[1]], p[2]) ELSE @[p]]]
    /\ Keeps /\ UNCHANGED spoiled

\* UNWATCH takes effect at once, and is queued as a command with no effect.
cmdUnwatch(c) ==
    /\ Free /\ handleAuth(c)
    /\ inTx(c) => Len(ctx[c].transaction) < MaxQueue
    /\ Becomes(c, IF inTx(c) THEN addTxCmd(unwatch(ctx[c]), UnwatchCmd) ELSE unwatch(ctx[c]))
    /\ snap' = [snap EXCEPT ![c] = NoWatch]
    /\ Keeps /\ UNCHANGED spoiled

cmdDiscard(c) ==
    /\ Free /\ handleAuth(c) /\ inTx(c)
    /\ Becomes(c, stopTx(ctx[c]))
    /\ Forgets(c)
    /\ Keeps

\* SELECT is not queued: it changes the database of the commands queued so far.
cmdSelect(c, d) ==
    /\ Free /\ handleAuth(c)
    /\ Becomes(c, [ctx[c] EXCEPT !.selectedDB = d])
    /\ Keeps /\ UNCHANGED <<snap, spoiled>>

cmdAuth(c, pw) ==
    /\ Free /\ c \notin past
    /\ IF password = NoPassword \/ password # pw
       THEN UNCHANGED ctx
       ELSE Becomes(c, [ctx[c] EXCEPT !.authenticated = TRUE])
    /\ Keeps /\ UNCHANGED <<snap, spoiled>>

\* The embedding program sets or clears the password; contexts stay as they are.
RequireAuth(pw) ==
    /\ Free /\ pw # password
    /\ password' = pw
    /\ \E cs \in SUBSET {c \in Conn : handleAuth(c)} : past' = past \cup cs
    /\ UNCHANGED <<dbs, ctx, exec, up, snap, spoiled>>

\* QUIT, or the client closes the connection; the next one has a fresh context.
Reconnect(c) ==
    /\ Free /\ c \notin past
    /\ Becomes(c, newCtx)
    /\ Forgets(c)
    /\ Keeps
-----------------------------------------------------------------------------
(***************************************************************************)
(* EXEC.                                                                    *)
(***************************************************************************)
\* Seeded fault: only the watches in the selected database are compared.
conflictInSelected(c) ==
    \E p \in Watched(c) : /\ p[1] = ctx[c].selectedDB
                          /\ dbs[p[1]].keyVersion[p[2]] > ctx[c].watch[p]

conflict(c) == \E p \in Watched(c) : dbs[p[1]].keyVersion[p[2]] > ctx[c].watch[p]

\* Seeded fault: EXECABORT clears the flag and leaves the transaction open.
ExecDirtyOnce(c) ==
    /\ Free /\ handleAuth(c) /\ inTx(c) /\ ctx[c].dirty
    /\ Becomes(c, [ctx[c] EXCEPT !.dirty = FALSE])
    /\ Keeps /\ UNCHANGED <<snap, spoiled>>

\* A transaction with an error in it is refused, and stays open: "discarded" is
\* what the answer says, but there is no stopTx.
ExecDirty(c) ==
    /\ Free /\ handleAuth(c) /\ inTx(c) /\ ctx[c].dirty
    /\ Keeps /\ UNCHANGED <<ctx, snap, spoiled>>

ExecConflict(c) ==
    /\ Free /\ handleAuth(c) /\ inTx(c) /\ ~ctx[c].dirty /\ conflict(c)
    /\ Becomes(c, stopTx(ctx[c]))
    /\ Forgets(c)
    /\ Keeps

\* Seeded fault: EXEC does not ask for authentication.
ExecStartOpen(c) ==
    /\ Free /\ inTx(c) /\ ~ctx[c].dirty /\ ~conflict(c)
    /\ exec' = [conn |-> c, todo |-> ctx[c].transaction]
    /\ UNCHANGED <<dbs, password, ctx, up, snap, spoiled>>

ExecStart(c) ==
    /\ Free /\ handleAuth(c) /\ inTx(c) /\ ~ctx[c].dirty /\ ~conflict(c)
    /\ exec' = [conn |-> c, todo |-> ctx[c].transaction]
    /\ UNCHANGED <<dbs, password, ctx, up, snap, spoiled>>

ExecStep(c) ==
    /\ up /\ exec # Nil /\ exec.conn = c /\ exec.todo # <<>>
    /\ Effect(c, Head(exec.todo))
    /\ exec' = [exec EXCEPT !.todo = Tail(@)]
    /\ UNCHANGED <<password, snap, spoiled>>

ExecEnd(c) ==
    /\ up /\ exec # Nil /\ exec.conn = c /\ exec.todo = <<>>
    /\ Becomes(c, stopTx(ctx[c]))
    /\ exec' = Nil
    /\ Forgets(c)
    /\ UNCHANGED <<dbs, password, up>>
-----------------------------------------------------------------------------
\* The request of c, whether it was past handleAuth or comes in now.
Handler(c) ==
    /\ \/ Malformed(c) \/ Unknown(c) \/ NoAuth(c) \/ cmdPing(c)
       \/ \E cmd \in Command : Queue(c, cmd) \/ Run(c, cmd)
       \/ MultiRefused(c) \/ cmdMulti(c) \/ cmdDiscard(c) \/ cmdUnwatch(c) \/ Reconnect(c)
       \/ \E ks \in WatchArgs : cmdWatch(c, ks)
       \/ \E d \in DB : cmdSelect(c, d)
       \/ \E pw \in Password : cmdAuth(c, pw)
       \/ ExecDirty(c) \/ ExecConflict(c) \/ ExecStart(c) \/ ExecStep(c) \/ ExecEnd(c)
    /\ past' = past \ {c}

Next == \/ \E c \in Conn : Handler(c)
        \/ \E pw \in Password : RequireAuth(pw)

Spec == Init /\ [][Next]_vars
-----------------------------------------------------------------------------
\* The type of every variable.
TypeOK ==
    /\ dbs \in [DB -> RedisDB]
    /\ password \in Password
    /\ ctx \in [Conn -> connCtx]
    /\ past \subseteq Conn
    /\ exec # Nil => exec \in [conn : Conn, todo : Seq(Queued)]
    /\ up \in BOOLEAN
    /\ snap \in [Conn -> [dbKey -> {Nil} \cup Values]]
    /\ spoiled \subseteq Conn

\* What makes WATCH work: as long as the version of a watched key is the one
\* WATCH noted, the key has the value it had then, or it does not exist; and a
\* noted version is never ahead of the key's.  The exception is there for a flush;
\* that no other change leaves the version alone is VersionTellsChange of Keyspace.
VersionWitness ==
    \A c \in Conn : \A p \in Watched(c) :
        LET db == dbs[p[1]] IN
        /\ ctx[c].watch[p] <= db.keyVersion[p[2]]
        /\ ctx[c].watch[p] = db.keyVersion[p[2]] =>
              value(db, p[2]) = snap[c][p] \/ ~exists(db, p[2])

Starts(c) == exec = Nil /\ exec' # Nil /\ exec'.conn = c

\* EXEC runs a transaction only on the values its WATCHes saw, whichever clients,
\* databases and renames came in between, save for keys that do not exist now: a
\* flush removes a key and keeps its version.
ExecOnWatchedValues ==
    [][\A c \in Conn : Starts(c) =>
          \A p \in Watched(c) :
              value(dbs[p[1]], p[2]) = snap[c][p] \/ ~exists(dbs[p[1]], p[2])]_vars

\* The same without the exception ("used to watch values").
ExecOnlyIfUnchanged ==
    [][\A c \in Conn : Starts(c) =>
          \A p \in Watched(c) : value(dbs[p[1]], p[2]) = snap[c][p]]_vars

\* A transaction that ended, by whichever path, leaves no watch behind that could
\* refuse the next transaction of the connection.
NoWatchLeftBehind ==
    [][\A c \in Conn : inTx(c) /\ ctx'[c].transaction = Nil => ctx'[c].watch = NoWatch]_vars

\* Once a password is required, nobody has given one and the requests that were
\* past handleAuth are through, no data changes, not even by a transaction that was
\* queued before; and a request that slipped past the check slips past it once.
NoAccessWithoutAuth ==
    [][password # NoPassword /\ exec = Nil /\ (\A c \in Conn : ~ctx[c].authenticated)
         /\ (dbs' # dbs \/ exec' # Nil)
       => \E c \in past : past' = past \ {c}]_vars

Executing(c) == exec # Nil /\ exec.conn = c

\* EXEC refuses a transaction exactly when a handler, that of MULTI excepted, refused one
\* of its requests for its arguments when it came in.  Such a request spoils its
\* transaction for good: whatever comes after it (EXEC itself, a nested MULTI, SELECT,
\* AUTH), only DISCARD or the end of the connection help.  What was refused before the
\* MULTI or in an earlier transaction does not count, nor does what an SPOP in an earlier
\* EXEC marked; and no request that gets another error spoils anything: a MULTI with
\* arguments, a nested MULTI, WATCH in a transaction, an unknown command, NOAUTH.
RefusedIffSpoiled ==
    \A c \in Conn : inTx(c) /\ ~Executing(c) => (ctx[c].dirty <=> c \in spoiled)
=============================================================================
