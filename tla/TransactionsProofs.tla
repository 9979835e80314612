-------------------------- MODULE TransactionsProofs --------------------------
(***************************************************************************)
(* Proofs about Transactions, for every set of connections, keys, values,   *)
(* databases and commands: WATCH and EXEC, the refusal of spoiled           *)
(* transactions, and authentication.                                        *)
(***************************************************************************)
EXTENDS Transactions, CommandsProofs

\* The maps of every database agree.
MapsOK == \A d \in DB : Agree(dbs[d])

\* A connection outside a transaction has no refused request on record.
SpoiledInTx == \A c \in spoiled : inTx(c)

TInv == TypeOK /\ MapsOK /\ VersionWitness /\ SpoiledInTx /\ RefusedIffSpoiled

\* A noted version v and value s of the key p still tell its value.
Witnesses(v, s, p) ==
    LET db == dbs[p[1]] IN
    /\ v <= db.keyVersion[p[2]]
    /\ v = db.keyVersion[p[2]] => value(db, p[2]) = s \/ ~exists(db, p[2])
-----------------------------------------------------------------------------
(* Types. *)

\* What is queued are commands.
LEMMA QueuedCommands == Queued \subseteq Commands /\ UnwatchCmd \in Queued
<1>1. UnwatchCmd \in Arguments
  <2>1. 0 \in Int64
    BY MaxIntAssumption DEF Int64, MinInt
  <2>2. <<>> \in Seq(Key) /\ <<>> \in Seq(Val)
    BY EmptySeq
  <2>3. "UNWATCH" \in Keyless
    BY DEF Keyless
  <2> QED BY <2>1, <2>2, <2>3 DEF UnwatchCmd, Arguments
<1>2. UnwatchCmd \in Commands
  <2>1. UnwatchCmd.op = "UNWATCH"
    BY DEF UnwatchCmd
  <2>2. "UNWATCH" \in Keyless /\ "UNWATCH" \notin TwoKeys /\ "UNWATCH" \notin OneValue
    BY DEF Keyless, TwoKeys, OneValue
  <2> QED BY <1>1, <2>1, <2>2 DEF Commands
<1> QED BY <1>2, TransactionsAssumption DEF Queued

\* The fields of a context.
LEMMA CtxFields ==
    ASSUME NEW x \in connCtx
    PROVE  /\ x.selectedDB \in DB /\ x.authenticated \in BOOLEAN
           /\ x.transaction \in {Nil} \cup Seq(Queued)
           /\ x.dirty \in BOOLEAN /\ x.watch \in [dbKey -> {Nil} \cup Nat]
BY DEF connCtx

\* Nobody watches.
LEMMA NoWatchType ==
    /\ NoWatch \in [dbKey -> {Nil} \cup Nat] /\ NoWatch \in [dbKey -> {Nil} \cup Values]
    /\ \A p \in dbKey : NoWatch[p] = Nil
BY DEF NoWatch

\* A new context.
LEMMA NewCtxType ==
    /\ newCtx \in connCtx /\ newCtx.transaction = Nil /\ newCtx.watch = NoWatch
<1>1. newCtx \in connCtx
  BY DBAssumption, NoWatchType DEF newCtx, connCtx
<1> QED BY <1>1 DEF newCtx

\* The changes of a context.
LEMMA CtxChanges ==
    ASSUME NEW x \in connCtx
    PROVE  /\ [x EXCEPT !.dirty = TRUE] \in connCtx
           /\ [x EXCEPT !.authenticated = TRUE] \in connCtx
           /\ \A d \in DB : [x EXCEPT !.selectedDB = d] \in connCtx
           /\ \A w \in [dbKey -> {Nil} \cup Nat] : [x EXCEPT !.watch = w] \in connCtx
           /\ startTx(x) \in connCtx /\ unwatch(x) \in connCtx /\ stopTx(x) \in connCtx
           /\ \A cmd \in Queued : x.transaction # Nil => addTxCmd(x, cmd) \in connCtx
<1>1. [x EXCEPT !.dirty = TRUE] \in connCtx /\ [x EXCEPT !.authenticated = TRUE] \in connCtx
  BY DEF connCtx
<1>2. \A d \in DB : [x EXCEPT !.selectedDB = d] \in connCtx
  BY DEF connCtx
<1>3. \A y \in connCtx : \A w \in [dbKey -> {Nil} \cup Nat] : [y EXCEPT !.watch = w] \in connCtx
  BY DEF connCtx
<1>4. startTx(x) \in connCtx
  BY EmptySeq DEF connCtx, startTx
<1>5. \A y \in connCtx : unwatch(y) \in connCtx
  BY <1>3, NoWatchType DEF unwatch
<1>6. stopTx(x) \in connCtx
  <2>1. [x EXCEPT !.transaction = Nil] \in connCtx
    BY DEF connCtx
  <2> QED BY <1>5, <2>1 DEF stopTx
<1>7. ASSUME NEW cmd \in Queued, x.transaction # Nil PROVE addTxCmd(x, cmd) \in connCtx
  <2>1. x.transaction \in Seq(Queued)
    BY <1>7 DEF connCtx
  <2>2. Append(x.transaction, cmd) \in Seq(Queued)
    BY <2>1, AppendProperties
  <2> QED BY <2>2 DEF connCtx, addTxCmd
<1> QED BY <1>1, <1>2, <1>3, <1>4, <1>5, <1>6, <1>7

\* The fields that the changes set and leave alone.
LEMMA CtxChanged ==
    ASSUME NEW x \in connCtx
    PROVE  /\ startTx(x).watch = x.watch /\ startTx(x).dirty = FALSE
           /\ unwatch(x).watch = NoWatch /\ unwatch(x).dirty = x.dirty
           /\ unwatch(x).transaction = x.transaction
           /\ stopTx(x).watch = NoWatch /\ stopTx(x).transaction = Nil
           /\ \A cmd : /\ addTxCmd(x, cmd).watch = x.watch /\ addTxCmd(x, cmd).dirty = x.dirty
                       /\ addTxCmd(x, cmd).transaction = Append(x.transaction, cmd)
BY DEF connCtx, startTx, unwatch, stopTx, addTxCmd

\* The context after a command that ran.
LEMMA MarkedType ==
    ASSUME NEW x \in connCtx, NEW cmd
    PROVE  /\ Marked(x, cmd) \in connCtx /\ Marked(x, cmd).watch = x.watch
           /\ Marked(x, cmd).transaction = x.transaction
<1>1. /\ [x EXCEPT !.dirty = TRUE] \in connCtx /\ [x EXCEPT !.dirty = TRUE].watch = x.watch
      /\ [x EXCEPT !.dirty = TRUE].transaction = x.transaction
  BY DEF connCtx
<1> QED BY <1>1 DEF Marked

\* A transaction with a command in it is not Nil.
LEMMA QueuedNotNil ==
    ASSUME NEW x \in connCtx, x.transaction # Nil, NEW cmd \in Queued
    PROVE  addTxCmd(x, cmd).transaction # Nil
<1>1. Append(x.transaction, cmd) \in Seq(Queued)
  BY CtxFields, AppendProperties
<1>2. Append(x.transaction, cmd) \in Seq(Commands)
  <2>1. \A s \in Seq(Queued) : s \in Seq(Commands)
    BY QueuedCommands, SeqDef
  <2> QED BY <1>1, <2>1
<1> QED BY <1>2, CtxChanged, TransactionsAssumption

\* The value of a key.
LEMMA ValueType ==
    ASSUME NEW db \in RedisDB, NEW k \in Key
    PROVE  value(db, k) \in Values
BY ListAtType, DbEntries DEF value, Values, t
-----------------------------------------------------------------------------
(* Steps of the invariant. *)

\* The invariant holds at the beginning.
LEMMA InitTInv == Init => TInv
<1> SUFFICES ASSUME Init PROVE TInv
  OBVIOUS
<1>1. dbs \in [DB -> RedisDB] /\ MapsOK
  BY NewDb DEF Init, MapsOK
<1>2. ctx \in [Conn -> connCtx] /\ snap \in [Conn -> [dbKey -> {Nil} \cup Values]]
  BY NewCtxType, NoWatchType DEF Init
<1>3. password \in Password /\ past \subseteq Conn /\ spoiled \subseteq Conn
  BY TransactionsAssumption DEF Init
<1>4. up \in BOOLEAN /\ exec = Nil
  BY DEF Init
<1>5. TypeOK
  BY <1>1, <1>2, <1>3, <1>4 DEF TypeOK
<1>6. \A c \in Conn : ctx[c].transaction = Nil /\ \A p \in dbKey : ctx[c].watch[p] = Nil
  BY NewCtxType, NoWatchType DEF Init
<1>7. VersionWitness
  BY <1>6 DEF VersionWitness, Watched
<1>8. SpoiledInTx /\ RefusedIffSpoiled
  BY <1>6 DEF SpoiledInTx, RefusedIffSpoiled, Init, inTx
<1> QED BY <1>1, <1>5, <1>7, <1>8 DEF TInv

\* A step that gives one connection a new context, and leaves the databases alone.
LEMMA ContextStep ==
    ASSUME TInv, NEW c \in Conn, NEW x \in connCtx, ctx' = [ctx EXCEPT ![c] = x],
           UNCHANGED <<dbs, password, up>>, past' = past \ {c},
           exec' # Nil => exec' \in [conn : Conn, todo : Seq(Queued)],
           exec' = exec \/ exec = Nil \/ Executing(c),
           NEW y \in [dbKey -> {Nil} \cup Values], snap' = [snap EXCEPT ![c] = y],
           \A p \in dbKey : x.watch[p] # Nil => Witnesses(x.watch[p], y[p], p),
           spoiled' \subseteq Conn, \A b \in Conn \ {c} : b \in spoiled' <=> b \in spoiled,
           c \in spoiled' => x.transaction # Nil,
           x.transaction # Nil /\ ~Executing(c)' => (x.dirty <=> c \in spoiled')
    PROVE  TInv'
<1>1. ctx'[c] = x /\ \A b \in Conn \ {c} : ctx'[b] = ctx[b]
  BY DEF TInv, TypeOK
<1>2. snap'[c] = y /\ \A b \in Conn \ {c} : snap'[b] = snap[b]
  BY DEF TInv, TypeOK
<1>3. TypeOK'
  <2>1. ctx' \in [Conn -> connCtx]
    BY DEF TInv, TypeOK
  <2>2. snap' \in [Conn -> [dbKey -> {Nil} \cup Values]]
    BY DEF TInv, TypeOK
  <2>3. past' \subseteq Conn /\ dbs' \in [DB -> RedisDB] /\ password' \in Password
    BY DEF TInv, TypeOK
  <2>4. up' \in BOOLEAN
    BY Zenon DEF TInv, TypeOK
  <2> QED BY <2>1, <2>2, <2>3, <2>4 DEF TypeOK
<1>4. MapsOK'
  BY DEF TInv, MapsOK
<1>5. VersionWitness'
  <2> SUFFICES ASSUME NEW b \in Conn, NEW p \in dbKey, ctx'[b].watch[p] # Nil
               PROVE  Witnesses(ctx'[b].watch[p], snap'[b][p], p)
    BY DEF VersionWitness, Watched, Witnesses
  <2>1. CASE b = c
    BY <1>1, <1>2, <2>1
  <2>2. CASE b # c
    <3>1. Witnesses(ctx[b].watch[p], snap[b][p], p)
      BY <1>1, <2>2 DEF TInv, VersionWitness, Watched, Witnesses
    <3> QED BY <1>1, <1>2, <2>2, <3>1
  <2> QED BY <2>1, <2>2
<1>6. SpoiledInTx'
  BY <1>1 DEF TInv, SpoiledInTx, inTx
<1>7. RefusedIffSpoiled'
  BY <1>1 DEF TInv, RefusedIffSpoiled, Executing, inTx
<1> QED BY <1>3, <1>4, <1>5, <1>6, <1>7 DEF TInv

\* What the invariant says of one connection.
LEMMA OneConnection ==
    ASSUME TInv, NEW c \in Conn
    PROVE  /\ ctx[c] \in connCtx /\ snap[c] \in [dbKey -> {Nil} \cup Values]
           /\ \A p \in dbKey : ctx[c].watch[p] # Nil => Witnesses(ctx[c].watch[p], snap[c][p], p)
           /\ spoiled \subseteq Conn /\ (c \in spoiled => ctx[c].transaction # Nil)
           /\ ctx[c].transaction # Nil /\ ~Executing(c) => (ctx[c].dirty <=> c \in spoiled)
           /\ ctx[c].transaction # Nil /\ exec = Nil => (ctx[c].dirty <=> c \in spoiled)
           /\ exec # Nil => exec \in [conn : Conn, todo : Seq(Queued)]
<1>1. /\ ctx[c] \in connCtx /\ snap[c] \in [dbKey -> {Nil} \cup Values] /\ spoiled \subseteq Conn
      /\ exec # Nil => exec \in [conn : Conn, todo : Seq(Queued)]
  BY DEF TInv, TypeOK
<1>2. \A p \in dbKey : ctx[c].watch[p] # Nil => Witnesses(ctx[c].watch[p], snap[c][p], p)
  BY DEF TInv, VersionWitness, Watched, Witnesses
<1>3. c \in spoiled => ctx[c].transaction # Nil
  BY DEF TInv, SpoiledInTx, inTx
<1>4. /\ ctx[c].transaction # Nil /\ ~Executing(c) => (ctx[c].dirty <=> c \in spoiled)
      /\ exec = Nil => ~Executing(c)
  BY DEF TInv, RefusedIffSpoiled, inTx, Executing
<1> QED BY <1>1, <1>2, <1>3, <1>4

\* A step that changes nothing but requests under way and the EXEC at work.
LEMMA QuietStep ==
    ASSUME TInv, NEW c \in Conn, past' = past \ {c},
           UNCHANGED <<dbs, password, ctx, up, snap, spoiled>>,
           exec' # Nil => exec' \in [conn : Conn, todo : Seq(Queued)],
           exec' = exec \/ exec = Nil
    PROVE  TInv'
<1>1. ctx' = [ctx EXCEPT ![c] = ctx[c]] /\ snap' = [snap EXCEPT ![c] = snap[c]]
  BY DEF TInv, TypeOK
<1>2. spoiled' \subseteq Conn /\ \A b \in Conn : b \in spoiled' <=> b \in spoiled
  BY OneConnection
<1>3. ctx[c].transaction # Nil /\ ~Executing(c)' => (ctx[c].dirty <=> c \in spoiled')
  BY <1>2, OneConnection DEF Executing
<1> QED BY <1>1, <1>2, <1>3, OneConnection, ContextStep

\* A command that ran marks at most a connection that runs an EXEC or is in no
\* transaction; the versions that the WATCHes noted still tell the values.
LEMMA EffectStep ==
    ASSUME TInv, NEW c \in Conn, past' = past \ {c}, NEW cmd \in Queued, Effect(c, cmd),
           UNCHANGED <<password, snap, spoiled>>,
           exec' # Nil => exec' \in [conn : Conn, todo : Seq(Queued)],
           exec' = exec \/ Executing(c), ctx[c].transaction = Nil \/ Executing(c)'
    PROVE  TInv'
<1>1. cmd \in Commands /\ ctx[c].selectedDB \in DB
  BY QueuedCommands, OneConnection, CtxFields
<1>2. Sound(dbs)
  BY DEF TInv, TypeOK, MapsOK, Sound
<1>9. /\ ctx' \in [Conn -> connCtx]
      /\ \A b \in Conn \ {c} : ctx'[b] = ctx[b]
      /\ \A b \in Conn : /\ ctx'[b].watch = ctx[b].watch
                         /\ ctx'[b].transaction = ctx[b].transaction
  <2> DEFINE x == Marked(ctx[c], cmd)
  <2>1. x \in connCtx /\ x.watch = ctx[c].watch /\ x.transaction = ctx[c].transaction
    BY OneConnection, MarkedType
  <2>2. ctx' = [ctx EXCEPT ![c] = x] /\ ctx \in [Conn -> connCtx]
    BY DEF Effect, Becomes, TInv, TypeOK
  <2> HIDE DEF x
  <2> QED BY <2>1, <2>2
<1>3. PICK o \in Outcomes(cmd, ctx[c].selectedDB, dbs) :
         dbs' = o.dbs /\ up' = (o.reply # Panicked)
  BY DEF Effect
<1>4. Kept(cmd, ctx[c].selectedDB, dbs, o)
  BY <1>1, <1>2, KeptByCommands
<1>5. dbs' \in [DB -> RedisDB] /\ MapsOK'
  BY <1>3, <1>4 DEF Kept, Sound, MapsOK
<1>6. TypeOK'
  <2>1. up' \in BOOLEAN
    BY <1>3, Zenon
  <2>2. /\ past' \subseteq Conn /\ password' \in Password
        /\ snap' \in [Conn -> [dbKey -> {Nil} \cup Values]] /\ spoiled' \subseteq Conn
    BY DEF TInv, TypeOK
  <2> QED BY <1>5, <1>9, <2>1, <2>2 DEF TypeOK
<1>7. VersionWitness'
  <2> SUFFICES ASSUME NEW b \in Conn, NEW p \in dbKey, ctx[b].watch[p] # Nil
               PROVE  LET db == dbs'[p[1]]
                          v  == ctx[b].watch[p]
                      IN  /\ v <= db.keyVersion[p[2]]
                          /\ v = db.keyVersion[p[2]] =>
                                value(db, p[2]) = snap[b][p] \/ ~exists(db, p[2])
    BY <1>9 DEF VersionWitness, Watched
  <2> DEFINE d == p[1]
             k == p[2]
             v == ctx[b].watch[p]
  <2>1. d \in DB /\ k \in Key
    BY DEF dbKey
  <2>2. /\ v <= dbs[d].keyVersion[k]
        /\ v = dbs[d].keyVersion[k] => value(dbs[d], k) = snap[b][p] \/ ~exists(dbs[d], k)
    BY OneConnection DEF Witnesses
  <2>3. v \in Nat
    BY OneConnection, CtxFields
  <2>4. dbs[d] \in RedisDB /\ dbs'[d] \in RedisDB
    BY <1>2, <1>5, <2>1 DEF Sound
  <2>5. dbs[d].keyVersion[k] \in Nat /\ dbs'[d].keyVersion[k] \in Nat
    BY <2>1, <2>4, DbEntries
  <2>6. \/ Same(dbs[d], dbs'[d], k)
        \/ dbs'[d].keyVersion[k] > dbs[d].keyVersion[k]
        \/ ~exists(dbs'[d], k) /\ dbs'[d].keyVersion[k] = dbs[d].keyVersion[k]
    <3>1. CASE cmd.op \in Flushing
      <4>1. dbs'[d] = dbs[d] \/ Wiped(dbs[d], dbs'[d])
        BY <1>3, <1>4, <2>1, <3>1 DEF Kept
      <4> QED BY <2>1, <4>1 DEF Wiped, Same
    <3>2. CASE cmd.op \notin Flushing
      <4>1. \E S : Touches(dbs[d], dbs'[d], S)
        BY <1>3, <1>4, <2>1, <3>2 DEF Kept
      <4> QED BY <2>1, <4>1 DEF Touches
    <3> QED BY <3>1, <3>2
  <2>8. CASE Same(dbs[d], dbs'[d], k)
    <3>1. /\ value(dbs'[d], k) = value(dbs[d], k) /\ (exists(dbs'[d], k) <=> exists(dbs[d], k))
          /\ dbs'[d].keyVersion[k] = dbs[d].keyVersion[k]
      BY <2>8 DEF Same, value, t, listAt, setAt, exists
    <3> QED BY <2>2, <3>1
  <2>9. CASE dbs'[d].keyVersion[k] > dbs[d].keyVersion[k]
    <3> DEFINE w == dbs[d].keyVersion[k]
               z == dbs'[d].keyVersion[k]
    <3>1. v \in Nat /\ w \in Nat /\ z \in Nat /\ v <= w /\ z > w
      BY <2>2, <2>3, <2>5, <2>9
    <3> HIDE DEF v, w, z
    <3>2. v <= z /\ v # z
      BY <3>1
    <3> QED BY <3>2 DEF v, z
  <2>10. CASE ~exists(dbs'[d], k) /\ dbs'[d].keyVersion[k] = dbs[d].keyVersion[k]
    BY <2>2, <2>10
  <2> QED BY <2>6, <2>8, <2>9, <2>10
<1>8. SpoiledInTx' /\ RefusedIffSpoiled'
  <2>1. SpoiledInTx'
    BY <1>9, OneConnection DEF TInv, SpoiledInTx, inTx
  <2>2. ASSUME NEW b \in Conn, inTx(b)', ~Executing(b)'
        PROVE  ctx'[b].dirty <=> b \in spoiled
    <3>1. b # c /\ ~Executing(b)
      BY <1>9, <2>2 DEF inTx, Executing
    <3> QED BY <1>9, <2>2, <3>1, OneConnection DEF inTx
  <2> QED BY <2>1, <2>2 DEF RefusedIffSpoiled
<1> QED BY <1>5, <1>6, <1>7, <1>8 DEF TInv

\* The end of a transaction or of a connection: no watch, no transaction, no record.
LEMMA EndStep ==
    ASSUME TInv, NEW c \in Conn, NEW x \in connCtx, x.transaction = Nil, x.watch = NoWatch,
           Becomes(c, x), Forgets(c), past' = past \ {c}, UNCHANGED <<dbs, password, up>>,
           exec' # Nil => exec' \in [conn : Conn, todo : Seq(Queued)],
           exec' = exec \/ Executing(c)
    PROVE  TInv'
<1>1. \A p \in dbKey : x.watch[p] = Nil
  BY NoWatchType
<1>2. snap' = [snap EXCEPT ![c] = NoWatch] /\ spoiled' = spoiled \ {c}
  BY DEF Forgets
<1>3. /\ spoiled' \subseteq Conn /\ c \notin spoiled'
      /\ \A b \in Conn \ {c} : b \in spoiled' <=> b \in spoiled
  BY <1>2, OneConnection
<1> QED BY <1>1, <1>2, <1>3, NoWatchType, ContextStep DEF Becomes

\* A step that changes a context, but not its watches and not whether it is in a
\* transaction that is refused.
LEMMA SameWatchStep ==
    ASSUME TInv, NEW c \in Conn, NEW x \in connCtx, x.watch = ctx[c].watch,
           Becomes(c, x), Keeps, UNCHANGED <<snap, spoiled>>, past' = past \ {c},
           c \in spoiled => x.transaction # Nil,
           x.transaction # Nil => (x.dirty <=> c \in spoiled)
    PROVE  TInv'
<1>1. snap' = [snap EXCEPT ![c] = snap[c]]
  BY DEF TInv, TypeOK
<1>2. /\ UNCHANGED <<dbs, password, up>> /\ exec' = exec
      /\ ctx' = [ctx EXCEPT ![c] = x]
  BY DEF Keeps, Becomes
<1>3. spoiled' \subseteq Conn /\ \A b \in Conn : b \in spoiled' <=> b \in spoiled
  BY OneConnection
<1>4. \A p \in dbKey : x.watch[p] # Nil => Witnesses(x.watch[p], snap[c][p], p)
  BY OneConnection
<1>5. /\ c \in spoiled' => x.transaction # Nil
      /\ x.transaction # Nil => (x.dirty <=> c \in spoiled')
  BY <1>3
<1>6. /\ snap[c] \in [dbKey -> {Nil} \cup Values]
      /\ exec' # Nil => exec' \in [conn : Conn, todo : Seq(Queued)]
  BY <1>2, OneConnection
<1> QED BY <1>1, <1>2, <1>3, <1>4, <1>5, <1>6, ContextStep
-----------------------------------------------------------------------------
(* The actions. *)

\* A request that is refused with setDirty marks the context, and is on record when in a transaction.
LEMMA MalformedStep ==
    ASSUME TInv, NEW c \in Conn, Malformed(c), past' = past \ {c}
    PROVE  TInv'
<1> DEFINE x == [ctx[c] EXCEPT !.dirty = TRUE]
<1>1. x \in connCtx
  BY OneConnection, CtxChanges
<1>2. /\ x.watch = ctx[c].watch /\ x.transaction = ctx[c].transaction /\ x.dirty = TRUE
  BY OneConnection DEF connCtx
<1>3. /\ ctx' = [ctx EXCEPT ![c] = x] /\ UNCHANGED <<dbs, password, up>> /\ exec' = exec
      /\ snap' = snap /\ exec = Nil
      /\ spoiled' = IF ctx[c].transaction # Nil THEN spoiled \cup {c} ELSE spoiled
  BY DEF Malformed, Becomes, Keeps, inTx, Free
<1> HIDE DEF x
<1>4. snap' = [snap EXCEPT ![c] = snap[c]] /\ snap[c] \in [dbKey -> {Nil} \cup Values]
  BY <1>3 DEF TInv, TypeOK
<1>5. spoiled' \subseteq Conn /\ \A b \in Conn \ {c} : b \in spoiled' <=> b \in spoiled
  BY <1>3, OneConnection
<1>6. c \in spoiled' => x.transaction # Nil
  BY <1>2, <1>3, OneConnection
<1>7. x.transaction # Nil => (x.dirty <=> c \in spoiled')
  BY <1>2, <1>3
<1>8. \A p \in dbKey : x.watch[p] # Nil => Witnesses(x.watch[p], snap[c][p], p)
  BY <1>2, OneConnection
<1>9. exec' # Nil => exec' \in [conn : Conn, todo : Seq(Queued)]
  BY <1>3, OneConnection
<1> QED BY <1>1, <1>3, <1>4, <1>5, <1>6, <1>7, <1>8, <1>9, ContextStep

\* Unknown commands, missing authentication, PING, and a MULTI or EXEC that is refused.
LEMMA AnswerStep ==
    ASSUME TInv, NEW c \in Conn, past' = past \ {c},
           Unknown(c) \/ NoAuth(c) \/ cmdPing(c) \/ MultiRefused(c) \/ ExecDirty(c)
    PROVE  TInv'
<1>1. UNCHANGED <<dbs, password, ctx, up, snap, spoiled>> /\ exec' = exec
  BY DEF Unknown, NoAuth, cmdPing, MultiRefused, ExecDirty, Keeps
<1> QED BY <1>1, OneConnection, QuietStep

\* A command is queued.
LEMMA QueueStep ==
    ASSUME TInv, NEW c \in Conn, past' = past \ {c}, NEW cmd \in Command, Queue(c, cmd)
    PROVE  TInv'
<1> DEFINE x == addTxCmd(ctx[c], cmd)
<1>1. cmd \in Queued /\ ctx[c].transaction # Nil /\ ctx[c] \in connCtx /\ exec = Nil
  BY OneConnection DEF Queued, Queue, inTx, Free
<1>2. x \in connCtx
  BY <1>1, CtxChanges
<1>3. x.watch = ctx[c].watch /\ x.dirty = ctx[c].dirty
  BY <1>1, CtxChanged
<1>4. x.transaction # Nil
  BY <1>1, QueuedNotNil
<1>5. Becomes(c, x) /\ Keeps /\ UNCHANGED <<snap, spoiled>>
  BY DEF Queue
<1> HIDE DEF x
<1>6. x.transaction # Nil => (x.dirty <=> c \in spoiled)
  BY <1>1, <1>3, OneConnection
<1> QED BY <1>2, <1>3, <1>4, <1>5, <1>6, SameWatchStep

\* A command runs, outside a transaction.
LEMMA RunStep ==
    ASSUME TInv, NEW c \in Conn, past' = past \ {c}, NEW cmd \in Command, Run(c, cmd)
    PROVE  TInv'
<1>1. cmd \in Queued
  BY DEF Queued
<1>2. /\ UNCHANGED <<password, snap, spoiled>> /\ exec' = exec /\ Effect(c, cmd)
      /\ ctx[c].transaction = Nil
  BY DEF Run, inTx
<1> QED BY <1>1, <1>2, OneConnection, EffectStep

\* MULTI clears the mark of what was refused before.
LEMMA MultiStep ==
    ASSUME TInv, NEW c \in Conn, past' = past \ {c}, cmdMulti(c)
    PROVE  TInv'
<1>1. CASE inTx(c)
  <2>1. UNCHANGED <<dbs, password, ctx, up, snap, spoiled>> /\ exec' = exec
    BY <1>1 DEF cmdMulti, Keeps
  <2> QED BY <2>1, OneConnection, QuietStep
<1>2. CASE ~inTx(c)
  <2> DEFINE x == startTx(ctx[c])
  <2>1. x \in connCtx /\ x.watch = ctx[c].watch /\ x.dirty = FALSE
    BY OneConnection, CtxChanges, CtxChanged
  <2>2. Becomes(c, x) /\ Keeps /\ UNCHANGED <<snap, spoiled>>
    BY <1>2 DEF cmdMulti
  <2>3. c \notin spoiled
    BY <1>2, OneConnection DEF inTx
  <2> HIDE DEF x
  <2> QED BY <2>1, <2>2, <2>3, SameWatchStep
<1> QED BY <1>1, <1>2

\* SELECT changes neither watches nor transaction.
LEMMA SelectStep ==
    ASSUME TInv, NEW c \in Conn, past' = past \ {c}, NEW d \in DB, cmdSelect(c, d)
    PROVE  TInv'
<1> DEFINE x == [ctx[c] EXCEPT !.selectedDB = d]
<1>1. x \in connCtx
  BY OneConnection, CtxChanges
<1>2. x.watch = ctx[c].watch /\ x.dirty = ctx[c].dirty /\ x.transaction = ctx[c].transaction
  BY OneConnection DEF connCtx
<1>3. Becomes(c, x) /\ Keeps /\ UNCHANGED <<snap, spoiled>> /\ exec = Nil
  BY DEF cmdSelect, Free
<1> HIDE DEF x
<1>4. /\ c \in spoiled => x.transaction # Nil
      /\ x.transaction # Nil => (x.dirty <=> c \in spoiled)
  BY <1>2, <1>3, OneConnection
<1> QED BY <1>1, <1>2, <1>3, <1>4, SameWatchStep

\* AUTH changes neither, whether or not the password is right.
LEMMA AuthStep ==
    ASSUME TInv, NEW c \in Conn, past' = past \ {c}, NEW pw, cmdAuth(c, pw)
    PROVE  TInv'
<1>1. CASE UNCHANGED ctx
  <2>1. UNCHANGED <<dbs, password, ctx, up, snap, spoiled>> /\ exec' = exec
    BY <1>1 DEF cmdAuth, Keeps
  <2> QED BY <2>1, OneConnection, QuietStep
<1>2. CASE Becomes(c, [ctx[c] EXCEPT !.authenticated = TRUE])
  <2> DEFINE x == [ctx[c] EXCEPT !.authenticated = TRUE]
  <2>1. x \in connCtx
    BY OneConnection, CtxChanges
  <2>2. x.watch = ctx[c].watch /\ x.dirty = ctx[c].dirty /\ x.transaction = ctx[c].transaction
    BY OneConnection DEF connCtx
  <2>3. Becomes(c, x) /\ Keeps /\ UNCHANGED <<snap, spoiled>> /\ exec = Nil
    BY <1>2 DEF cmdAuth, Free
  <2> HIDE DEF x
  <2>4. /\ c \in spoiled => x.transaction # Nil
        /\ x.transaction # Nil => (x.dirty <=> c \in spoiled)
    BY <2>2, <2>3, OneConnection
  <2> QED BY <2>1, <2>2, <2>3, <2>4, SameWatchStep
<1> QED BY <1>1, <1>2 DEF cmdAuth

\* WATCH notes the versions of the keys, of which the values are those they have now.
LEMMA WatchStep ==
    ASSUME TInv, NEW c \in Conn, past' = past \ {c}, NEW ks \in WatchArgs, cmdWatch(c, ks)
    PROVE  TInv'
<1>1. CASE inTx(c)
  <2>1. UNCHANGED <<dbs, password, ctx, up, snap, spoiled>> /\ exec' = exec
    BY <1>1 DEF cmdWatch, Keeps
  <2> QED BY <2>1, OneConnection, QuietStep
<1>2. CASE ~inTx(c)
  <2> DEFINE at == {ctx[c].selectedDB} \X ToSet(ks)
             w == [p \in dbKey |-> IF p \in at THEN dbs[p[1]].keyVersion[p[2]] ELSE ctx[c].watch[p]]
             y == [p \in dbKey |-> IF p \in at THEN value(dbs[p[1]], p[2]) ELSE snap[c][p]]
             x == [ctx[c] EXCEPT !.watch = w]
  <2>1. ctx[c] \in connCtx /\ snap[c] \in [dbKey -> {Nil} \cup Values]
    BY OneConnection
  <2>2. /\ ctx' = [ctx EXCEPT ![c] = x] /\ snap' = [snap EXCEPT ![c] = y]
        /\ UNCHANGED <<dbs, password, up>> /\ exec' = exec /\ spoiled' = spoiled /\ exec = Nil
    <3>1. /\ Becomes(c, [ctx[c] EXCEPT !.watch = [p \in dbKey |->
                            IF p \in at THEN dbs[p[1]].keyVersion[p[2]] ELSE @[p]]])
          /\ snap' = [snap EXCEPT ![c] = [p \in dbKey |->
                            IF p \in at THEN value(dbs[p[1]], p[2]) ELSE @[p]]]
          /\ Keeps /\ spoiled' = spoiled /\ exec = Nil
      BY <1>2 DEF cmdWatch, Free
    <3>2. UNCHANGED <<dbs, password, up>> /\ exec' = exec /\ spoiled' = spoiled
      BY <3>1 DEF Keeps
    <3> HIDE DEF at
    <3>3. ctx' = [ctx EXCEPT ![c] = x]
      BY <3>1 DEF Becomes
    <3>4. snap' = [snap EXCEPT ![c] = y]
      BY <3>1
    <3> QED BY <3>1, <3>2, <3>3, <3>4
  <2>3. ASSUME NEW p \in dbKey
        PROVE  /\ dbs[p[1]].keyVersion[p[2]] \in Nat /\ value(dbs[p[1]], p[2]) \in Values
               /\ Witnesses(dbs[p[1]].keyVersion[p[2]], value(dbs[p[1]], p[2]), p)
    <3>1. p[1] \in DB /\ p[2] \in Key
      BY DEF dbKey
    <3>2. dbs[p[1]] \in RedisDB
      BY <3>1 DEF TInv, TypeOK
    <3>3. dbs[p[1]].keyVersion[p[2]] \in Nat /\ value(dbs[p[1]], p[2]) \in Values
      BY <3>1, <3>2, DbEntries, ValueType
    <3> QED BY <3>3 DEF Witnesses
  <2> HIDE DEF at
  <2>4. w \in [dbKey -> {Nil} \cup Nat] /\ y \in [dbKey -> {Nil} \cup Values]
    <3>1. ctx[c].watch \in [dbKey -> {Nil} \cup Nat]
      BY <2>1, CtxFields
    <3> QED BY <2>1, <2>3, <3>1
  <2>5. \A p \in dbKey : w[p] # Nil => Witnesses(w[p], y[p], p)
    BY <2>3, OneConnection
  <2> HIDE DEF w, y
  <2>6. x \in connCtx
    BY <2>1, <2>4, CtxChanges
  <2>7. x.watch = w /\ x.dirty = ctx[c].dirty /\ x.transaction = ctx[c].transaction
    BY <2>1 DEF connCtx
  <2> HIDE DEF x
  <2>8. /\ c \in spoiled' => x.transaction # Nil
        /\ x.transaction # Nil => (x.dirty <=> c \in spoiled')
        /\ spoiled' \subseteq Conn
        /\ \A b \in Conn \ {c} : b \in spoiled' <=> b \in spoiled
    BY <2>2, <2>7, OneConnection
  <2>9. exec' # Nil => exec' \in [conn : Conn, todo : Seq(Queued)]
    BY <2>2, OneConnection
  <2>10. \A p \in dbKey : x.watch[p] # Nil => Witnesses(x.watch[p], y[p], p)
    BY <2>5, <2>7
  <2> QED BY <2>2, <2>4, <2>6, <2>8, <2>9, <2>10, ContextStep
<1> QED BY <1>1, <1>2

\* UNWATCH.
LEMMA UnwatchStep ==
    ASSUME TInv, NEW c \in Conn, past' = past \ {c}, cmdUnwatch(c)
    PROVE  TInv'
<1> DEFINE u == unwatch(ctx[c])
           x == IF inTx(c) THEN addTxCmd(u, UnwatchCmd) ELSE u
<1>1. /\ u \in connCtx /\ u.watch = NoWatch /\ u.dirty = ctx[c].dirty
      /\ u.transaction = ctx[c].transaction
  BY OneConnection, CtxChanges, CtxChanged
<1>2. /\ ctx' = [ctx EXCEPT ![c] = x] /\ snap' = [snap EXCEPT ![c] = NoWatch]
      /\ UNCHANGED <<dbs, password, up>> /\ exec' = exec /\ spoiled' = spoiled /\ exec = Nil
  BY DEF cmdUnwatch, Becomes, Keeps, Free
<1> HIDE DEF u
<1>3. /\ x \in connCtx /\ x.watch = NoWatch /\ x.dirty = ctx[c].dirty
      /\ x.transaction # Nil <=> ctx[c].transaction # Nil
  <2>1. CASE ~inTx(c)
    BY <1>1, <2>1
  <2>2. CASE inTx(c)
    <3>1. u.transaction # Nil
      BY <1>1, <2>2 DEF inTx
    <3>2. x = addTxCmd(u, UnwatchCmd) /\ x \in connCtx
      BY <1>1, <2>2, <3>1, QueuedCommands, CtxChanges
    <3>3. x.watch = u.watch /\ x.dirty = u.dirty
      BY <1>1, <3>2, CtxChanged
    <3>4. x.transaction # Nil
      BY <1>1, <3>1, <3>2, QueuedCommands, QueuedNotNil
    <3> QED BY <1>1, <3>1, <3>2, <3>3, <3>4
  <2> QED BY <2>1, <2>2
<1> HIDE DEF x
<1>4. /\ c \in spoiled' => x.transaction # Nil
      /\ x.transaction # Nil => (x.dirty <=> c \in spoiled')
      /\ spoiled' \subseteq Conn
      /\ \A b \in Conn \ {c} : b \in spoiled' <=> b \in spoiled
  BY <1>2, <1>3, OneConnection
<1>5. exec' # Nil => exec' \in [conn : Conn, todo : Seq(Queued)]
  BY <1>2, OneConnection
<1>6. \A p \in dbKey : x.watch[p] = Nil
  BY <1>3, NoWatchType
<1> QED BY <1>2, <1>3, <1>4, <1>5, <1>6, NoWatchType, ContextStep

\* DISCARD, an EXEC that meets a conflict, the end of an EXEC, and a new connection.
LEMMA LeaveStep ==
    ASSUME TInv, NEW c \in Conn, past' = past \ {c},
           cmdDiscard(c) \/ ExecConflict(c) \/ ExecEnd(c) \/ Reconnect(c)
    PROVE  TInv'
<1>1. /\ Forgets(c) /\ UNCHANGED <<dbs, password, up>>
      /\ exec' = exec \/ (exec' = Nil /\ Executing(c))
      /\ \/ Becomes(c, stopTx(ctx[c]))
         \/ Becomes(c, newCtx)
  BY DEF cmdDiscard, ExecConflict, ExecEnd, Reconnect, Keeps, Executing
<1>2. exec' # Nil => exec' \in [conn : Conn, todo : Seq(Queued)]
  BY <1>1, OneConnection
<1>3. /\ stopTx(ctx[c]) \in connCtx /\ stopTx(ctx[c]).transaction = Nil
      /\ stopTx(ctx[c]).watch = NoWatch
  BY OneConnection, CtxChanges, CtxChanged
<1> QED BY <1>1, <1>2, <1>3, NewCtxType, EndStep

\* EXEC takes the queued commands, and runs them one by one.
LEMMA ExecSteps ==
    ASSUME TInv, NEW c \in Conn, past' = past \ {c}, ExecStart(c) \/ ExecStep(c)
    PROVE  TInv'
<1>1. CASE ExecStart(c)
  <2>1. /\ UNCHANGED <<dbs, password, ctx, up, snap, spoiled>>
        /\ exec' = [conn |-> c, todo |-> ctx[c].transaction] /\ ctx[c].transaction # Nil
        /\ exec = Nil
    BY <1>1 DEF ExecStart, inTx, Free
  <2>2. ctx[c].transaction \in Seq(Queued)
    BY <2>1, OneConnection, CtxFields
  <2> QED BY <2>1, <2>2, QuietStep
<1>2. CASE ExecStep(c)
  <2>1. /\ exec # Nil /\ exec.todo # <<>> /\ Effect(c, Head(exec.todo))
        /\ exec' = [exec EXCEPT !.todo = Tail(@)]
        /\ UNCHANGED <<password, snap, spoiled>> /\ exec.conn = c
    BY <1>2 DEF ExecStep
  <2>2. exec \in [conn : Conn, todo : Seq(Queued)]
    BY <2>1, OneConnection
  <2>3. Head(exec.todo) \in Queued /\ Tail(exec.todo) \in Seq(Queued)
    BY <2>1, <2>2, HeadTailProperties
  <2>4. exec' \in [conn : Conn, todo : Seq(Queued)] /\ exec'.conn = c
    BY <2>1, <2>2, <2>3
  <2>5. exec' # Nil
    <3>1. \A s \in Seq(Queued) : s \in Seq(Commands)
      BY QueuedCommands, SeqDef
    <3> QED BY <2>4, <3>1, TransactionsAssumption
  <2>6. Executing(c) /\ Executing(c)'
    BY <2>1, <2>4, <2>5 DEF Executing
  <2> QED BY <2>1, <2>3, <2>4, <2>6, EffectStep
<1> QED BY <1>1, <1>2

\* RequireAuth changes the password and the requests that are past the check.
LEMMA RequireAuthStep ==
    ASSUME TInv, NEW pw \in Password, RequireAuth(pw)
    PROVE  TInv'
<1>1. /\ password' \in Password /\ dbs' = dbs /\ ctx' = ctx /\ exec' = exec /\ up' = up
      /\ snap' = snap /\ spoiled' = spoiled /\ past' \subseteq Conn
  BY DEF RequireAuth, TInv, TypeOK
<1>2. TypeOK'
  <2>1. up' \in BOOLEAN
    BY <1>1, Zenon DEF TInv, TypeOK
  <2>2. /\ dbs' \in [DB -> RedisDB] /\ ctx' \in [Conn -> connCtx] /\ spoiled' \subseteq Conn
        /\ snap' \in [Conn -> [dbKey -> {Nil} \cup Values]]
        /\ exec' # Nil => exec' \in [conn : Conn, todo : Seq(Queued)]
    BY <1>1 DEF TInv, TypeOK
  <2> QED BY <1>1, <2>1, <2>2 DEF TypeOK
<1>3. MapsOK' /\ SpoiledInTx' /\ RefusedIffSpoiled'
  BY <1>1 DEF TInv, MapsOK, SpoiledInTx, RefusedIffSpoiled, inTx, Executing
<1>4. VersionWitness'
  BY <1>1 DEF TInv, VersionWitness, Watched
<1> QED BY <1>2, <1>3, <1>4 DEF TInv

\* Every step keeps the invariant.
LEMMA NextTInv == TInv /\ [Next]_vars => TInv'
<1> SUFFICES ASSUME TInv, [Next]_vars PROVE TInv'
  OBVIOUS
<1>1. ASSUME NEW c \in Conn, Handler(c) PROVE TInv'
  <2>1. past' = past \ {c}
    BY <1>1 DEF Handler
  <2>2. CASE Malformed(c)
    BY <2>1, <2>2, MalformedStep
  <2>3. CASE Unknown(c) \/ NoAuth(c) \/ cmdPing(c) \/ MultiRefused(c) \/ ExecDirty(c)
    BY <2>1, <2>3, AnswerStep
  <2>4. ASSUME NEW cmd \in Command, Queue(c, cmd) PROVE TInv'
    BY <2>1, <2>4, QueueStep
  <2>5. ASSUME NEW cmd \in Command, Run(c, cmd) PROVE TInv'
    BY <2>1, <2>5, RunStep
  <2>6. CASE cmdMulti(c)
    BY <2>1, <2>6, MultiStep
  <2>7. ASSUME NEW ks \in WatchArgs, cmdWatch(c, ks) PROVE TInv'
    BY <2>1, <2>7, WatchStep
  <2>8. CASE cmdUnwatch(c)
    BY <2>1, <2>8, UnwatchStep
  <2>9. ASSUME NEW d \in DB, cmdSelect(c, d) PROVE TInv'
    BY <2>1, <2>9, SelectStep
  <2>10. ASSUME NEW pw \in Password, cmdAuth(c, pw) PROVE TInv'
    BY <2>1, <2>10, AuthStep
  <2>11. CASE cmdDiscard(c) \/ ExecConflict(c) \/ ExecEnd(c) \/ Reconnect(c)
    BY <2>1, <2>11, LeaveStep
  <2>12. CASE ExecStart(c) \/ ExecStep(c)
    BY <2>1, <2>12, ExecSteps
  <2> QED BY <1>1, <2>2, <2>3, <2>4, <2>5, <2>6, <2>7, <2>8, <2>9, <2>10, <2>11, <2>12
          DEF Handler
<1>2. ASSUME NEW pw \in Password, RequireAuth(pw) PROVE TInv'
  BY <1>2, RequireAuthStep
<1>3. CASE UNCHANGED vars
  <2>1. /\ dbs' = dbs /\ password' = password /\ ctx' = ctx /\ past' = past /\ exec' = exec
        /\ up' = up /\ snap' = snap /\ spoiled' = spoiled
    BY <1>3 DEF vars
  <2>2. TypeOK'
    <3>1. up' \in BOOLEAN
      BY <2>1, Zenon DEF TInv, TypeOK
    <3>2. /\ dbs' \in [DB -> RedisDB] /\ ctx' \in [Conn -> connCtx] /\ spoiled' \subseteq Conn
          /\ snap' \in [Conn -> [dbKey -> {Nil} \cup Values]]
          /\ exec' # Nil => exec' \in [conn : Conn, todo : Seq(Queued)]
          /\ password' \in Password /\ past' \subseteq Conn
      BY <2>1 DEF TInv, TypeOK
    <3> QED BY <3>1, <3>2 DEF TypeOK
  <2>3. MapsOK' /\ SpoiledInTx' /\ RefusedIffSpoiled'
    BY <2>1 DEF TInv, MapsOK, SpoiledInTx, RefusedIffSpoiled, inTx, Executing
  <2>4. VersionWitness'
    BY <2>1 DEF TInv, VersionWitness, Watched
  <2> QED BY <2>2, <2>3, <2>4 DEF TInv
<1> QED BY <1>1, <1>2, <1>3 DEF Next
-----------------------------------------------------------------------------
(* The theorems. *)

\* The invariant holds in every state.
THEOREM TransactionsInvariant == Spec => []TInv
BY InitTInv, NextTInv, PTL DEF Spec

\* Every variable has its type.
THEOREM TransactionsTyped == Spec => []TypeOK
<1>1. TInv => TypeOK
  BY DEF TInv
<1> QED BY <1>1, TransactionsInvariant, PTL

\* A noted version that is still current tells that the key has the value it had when
\* WATCH noted it, or was flushed.
THEOREM VersionsWitness == Spec => []VersionWitness
<1>1. TInv => VersionWitness
  BY DEF TInv
<1> QED BY <1>1, TransactionsInvariant, PTL

\* EXEC refuses exactly the transactions in which a handler other than MULTI's refused a
\* request for its arguments when it came in.
THEOREM RefusalsExact == Spec => []RefusedIffSpoiled
<1>1. TInv => RefusedIffSpoiled
  BY DEF TInv
<1> QED BY <1>1, TransactionsInvariant, PTL

\* Only the start of an EXEC takes the mutex for a transaction.
LEMMA StartsByExec ==
    ASSUME NEW c \in Conn, Starts(c), [Next]_vars
    PROVE  ExecStart(c)
<1>1. exec = Nil /\ exec' # Nil /\ exec'.conn = c
  BY DEF Starts
<1>2. ASSUME NEW b \in Conn, Handler(b) PROVE ExecStart(b)
  BY <1>1, <1>2 DEF Handler, Malformed, Unknown, NoAuth, cmdPing, Queue, Run, MultiRefused,
     cmdMulti, cmdWatch,
     cmdUnwatch, cmdDiscard, cmdSelect, cmdAuth, Reconnect, ExecDirty, ExecConflict, ExecStep,
     ExecEnd, Keeps
<1>3. ASSUME NEW pw \in Password PROVE ~RequireAuth(pw)
  BY <1>1 DEF RequireAuth
<1>4. PICK b \in Conn : ExecStart(b)
  BY <1>1, <1>2, <1>3 DEF Next, vars
<1>5. exec'.conn = b
  BY <1>4 DEF ExecStart
<1> QED BY <1>1, <1>4, <1>5

\* EXEC starts only on the values that the WATCHes saw, save for flushed keys: there is
\* no conflict, so each noted version is the current one.
THEOREM ExecSeesWatchedValues == Spec => ExecOnWatchedValues
<1>1. TInv /\ [Next]_vars
        => [\A c \in Conn : Starts(c) =>
              \A p \in Watched(c) :
                  value(dbs[p[1]], p[2]) = snap[c][p] \/ ~exists(dbs[p[1]], p[2])]_vars
  <2> SUFFICES ASSUME TInv, [Next]_vars, NEW c \in Conn, Starts(c), NEW p \in Watched(c)
               PROVE  value(dbs[p[1]], p[2]) = snap[c][p] \/ ~exists(dbs[p[1]], p[2])
    OBVIOUS
  <2>1. ~conflict(c)
    BY StartsByExec DEF ExecStart
  <2>2. p \in dbKey /\ ctx[c].watch[p] # Nil
    BY DEF Watched
  <2>3. /\ ctx[c].watch[p] \in Nat /\ dbs[p[1]].keyVersion[p[2]] \in Nat
    <3>1. p[1] \in DB /\ p[2] \in Key
      BY <2>2 DEF dbKey
    <3>2. dbs[p[1]] \in RedisDB
      BY <3>1 DEF TInv, TypeOK
    <3> QED BY <2>2, <3>1, <3>2, OneConnection, CtxFields, DbEntries
  <2>4. Witnesses(ctx[c].watch[p], snap[c][p], p)
    BY <2>2, OneConnection
  <2>5. ctx[c].watch[p] = dbs[p[1]].keyVersion[p[2]]
    BY <2>1, <2>3, <2>4 DEF conflict, Witnesses
  <2> QED BY <2>4, <2>5 DEF Witnesses
<1> QED BY <1>1, TransactionsInvariant, PTL DEF Spec, ExecOnWatchedValues

\* A transaction that ended leaves no watch behind.
THEOREM WatchesEnd == Spec => NoWatchLeftBehind
<1>1. TInv /\ [Next]_vars
        => [\A c \in Conn : inTx(c) /\ ctx'[c].transaction = Nil => ctx'[c].watch = NoWatch]_vars
  <2> SUFFICES ASSUME TInv, [Next]_vars, NEW c \in Conn, inTx(c), ctx'[c].transaction = Nil
               PROVE  ctx'[c].watch = NoWatch
    OBVIOUS
  <2>1. ctx'[c] # ctx[c]
    BY DEF inTx
  <2>2. ctx \in [Conn -> connCtx] /\ ctx[c] \in connCtx
    BY DEF TInv, TypeOK
  <2>3. PICK b \in Conn : Handler(b)
    BY <2>1 DEF Next, vars, RequireAuth
  <2>4. ASSUME NEW x, Becomes(b, x) PROVE b = c /\ ctx'[c] = x
    BY <2>1, <2>2, <2>4 DEF Becomes
  <2>5. \/ \E x \in connCtx : Becomes(b, x) /\ x.transaction = ctx[b].transaction
        \/ \E cmd \in Queued, x \in connCtx : /\ Becomes(b, addTxCmd(x, cmd)) /\ inTx(b)
                                              /\ x.transaction = ctx[b].transaction
        \/ Becomes(b, startTx(ctx[b])) /\ ~inTx(b)
        \/ \E x \in connCtx : Becomes(b, x) /\ x.watch = NoWatch
    <3>1. ctx[b] \in connCtx
      BY <2>2
    <3>2. CASE Malformed(b) \/ (\E d \in DB : cmdSelect(b, d))
               \/ (\E pw \in Password : cmdAuth(b, pw))
               \/ ExecStep(b) \/ (\E cmd \in Command : Run(b, cmd))
      <4>1. \/ Becomes(b, [ctx[b] EXCEPT !.dirty = TRUE])
            \/ \E d \in DB : Becomes(b, [ctx[b] EXCEPT !.selectedDB = d])
            \/ Becomes(b, [ctx[b] EXCEPT !.authenticated = TRUE])
            \/ Becomes(b, ctx[b])
        BY <2>1, <3>2 DEF Malformed, cmdSelect, cmdAuth, ExecStep, Run, Effect, Marked
      <4>2. /\ [ctx[b] EXCEPT !.dirty = TRUE].transaction = ctx[b].transaction
            /\ \A d : [ctx[b] EXCEPT !.selectedDB = d].transaction = ctx[b].transaction
            /\ [ctx[b] EXCEPT !.authenticated = TRUE].transaction = ctx[b].transaction
        BY <3>1 DEF connCtx
      <4> QED BY <3>1, <4>1, <4>2, CtxChanges
    <3>3. CASE \E ks \in WatchArgs : cmdWatch(b, ks)
      <4>1. \E w : Becomes(b, [ctx[b] EXCEPT !.watch = w])
        BY <2>1, <3>3 DEF cmdWatch
      <4>2. PICK w : Becomes(b, [ctx[b] EXCEPT !.watch = w])
        BY <4>1
      <4>3. [ctx[b] EXCEPT !.watch = w].transaction = ctx[b].transaction
        BY <3>1 DEF connCtx
      <4>4. ctx'[c].transaction = ctx[c].transaction
        BY <2>4, <4>2, <4>3
      <4> QED BY <4>4 DEF inTx
    <3>4. CASE \E cmd \in Command : Queue(b, cmd)
      <4>1. \E cmd \in Queued : Becomes(b, addTxCmd(ctx[b], cmd)) /\ inTx(b)
        BY <3>4 DEF Queue, Queued
      <4> QED BY <3>1, <4>1
    <3>5. CASE cmdUnwatch(b)
      <4>1. unwatch(ctx[b]) \in connCtx /\ unwatch(ctx[b]).watch = NoWatch
        BY <3>1, CtxChanges, CtxChanged
      <4>2. unwatch(ctx[b]).transaction = ctx[b].transaction
        BY <3>1, CtxChanged
      <4> QED BY <3>5, <4>1, <4>2, QueuedCommands DEF cmdUnwatch
    <3>6. CASE cmdMulti(b)
      BY <2>1, <3>6 DEF cmdMulti
    <3>7. CASE cmdDiscard(b) \/ ExecConflict(b) \/ ExecEnd(b) \/ Reconnect(b)
      <4>1. Becomes(b, stopTx(ctx[b])) \/ Becomes(b, newCtx)
        BY <3>7 DEF cmdDiscard, ExecConflict, ExecEnd, Reconnect
      <4> QED BY <3>1, <4>1, CtxChanges, CtxChanged, NewCtxType
    <3>8. CASE \/ Unknown(b) \/ NoAuth(b) \/ cmdPing(b) \/ MultiRefused(b) \/ ExecDirty(b)
               \/ ExecStart(b)
      BY <2>1, <3>8 DEF Unknown, NoAuth, cmdPing, MultiRefused, ExecDirty, ExecStart
    <3> QED BY <2>3, <3>2, <3>3, <3>4, <3>5, <3>6, <3>7, <3>8 DEF Handler
  <2>6. CASE \E x \in connCtx : Becomes(b, x) /\ x.transaction = ctx[b].transaction
    BY <2>4, <2>6 DEF inTx
  <2>7. CASE \E cmd \in Queued, x \in connCtx : /\ Becomes(b, addTxCmd(x, cmd)) /\ inTx(b)
                                                /\ x.transaction = ctx[b].transaction
    <3>1. PICK cmd \in Queued, x \in connCtx : /\ Becomes(b, addTxCmd(x, cmd)) /\ inTx(b)
                                               /\ x.transaction = ctx[b].transaction
      BY <2>7
    <3>2. addTxCmd(x, cmd).transaction # Nil
      BY <3>1, QueuedNotNil DEF inTx
    <3> QED BY <2>4, <3>1, <3>2
  <2>8. CASE Becomes(b, startTx(ctx[b])) /\ ~inTx(b)
    BY <2>4, <2>8
  <2>9. CASE \E x \in connCtx : Becomes(b, x) /\ x.watch = NoWatch
    BY <2>4, <2>9
  <2> QED BY <2>5, <2>6, <2>7, <2>8, <2>9
<1> QED BY <1>1, TransactionsInvariant, PTL DEF Spec, NoWatchLeftBehind

\* Without authentication, only a request that was past the check before the password
\* was set changes data or starts a transaction, and it is through with that step.
THEOREM AuthGuardsData == Spec => NoAccessWithoutAuth
<1>1. [Next]_vars
        => [password # NoPassword /\ exec = Nil /\ (\A c \in Conn : ~ctx[c].authenticated)
              /\ (dbs' # dbs \/ exec' # Nil)
            => \E c \in past : past' = past \ {c}]_vars
  <2> SUFFICES ASSUME [Next]_vars, password # NoPassword, exec = Nil,
                      \A c \in Conn : ~ctx[c].authenticated, dbs' # dbs \/ exec' # Nil
               PROVE  \E c \in past : past' = past \ {c}
    OBVIOUS
  <2>1. PICK c \in Conn : Handler(c)
    BY DEF Next, vars, RequireAuth
  <2>2. \/ \E cmd \in Command : Run(c, cmd)
        \/ ExecStart(c)
    BY <2>1 DEF Handler, Malformed, Unknown, NoAuth, cmdPing, Queue, MultiRefused, cmdMulti, cmdWatch,
       cmdUnwatch, cmdDiscard, cmdSelect, cmdAuth, Reconnect, ExecDirty, ExecConflict, ExecStep,
       ExecEnd, Keeps
  <2>3. handleAuth(c)
    BY <2>2 DEF Run, ExecStart
  <2>4. c \in past
    BY <2>3 DEF handleAuth
  <2> QED BY <2>1, <2>4 DEF Handler
<1> QED BY <1>1, PTL DEF Spec, NoAccessWithoutAuth
=============================================================================
