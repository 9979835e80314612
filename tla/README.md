# RediQueue: a TLA+ model of the server

RediQueue is an in-process Redis server in Go: lists, sets, blocking pops,
optimistic transactions, several numbered databases, and a Go API for programs
that embed it. This directory models the whole way of a request: the bytes that
arrive, the goroutine that reads and dispatches them, who holds the one mutex, how
a blocked client is woken, what every command does to the keys and to the slices
behind them, when a transaction may run, and what happens to all of it when the
server is closed or the process ends.

## Inventory of the system

| Part | State | Operations | What is hard, and what makes it correct |
|---|---|---|---|
| Blocking and wake-ups (`redis.go`, `cmd_list.go`) | the mutex, the condition `m.signal`, per command a timer, a helper goroutine, a wait group | `withTx`, `blocking` | The helper unlocks a mutex another goroutine locked; timer, wake-up and push race. Mutual exclusion, one reply per request, no element lost or doubled, no lost wake-up, every command answered. |
| Database (`db.go`, `RedisDB`) | `keys`, `listKeys`, `setKeys`, `keyVersion` | `del`, `rename`, `move`, `flush`, list and set methods | Four maps that must agree; versions that must grow with every change. |
| List, set, generic, server commands (`cmd_list.go`, `cmd_set.go`, `cmd_generic.go`, `cmd_server.go`) | none of their own | 43 commands | Two-key commands with one key twice, type errors halfway, emptied lists, index arithmetic at the ends of int. |
| Transactions (`cmd_transactions.go`) | `connCtx`: queue, dirty flag, watched versions | MULTI, EXEC, DISCARD, WATCH, UNWATCH | EXEC trusts versions noted earlier, while other clients change, move or flush the keys. |
| Connections and authentication (`cmd_connection.go`, `rediqueue.go`) | `selectedDB`, `authenticated`, `m.password` | AUTH, SELECT, PING, ECHO, QUIT, `RequireAuth`, `handleAuth` | The check takes and releases the mutex before the command takes it again. |
| Direct API (`direct.go`) | `m.selectedDB` | 15 Go methods that read and change the databases | No Broadcast; `selectedDB` read without the mutex; `List` returns the stored slice; `Push` accepts no values. |
| Lists as Go slices (`db.go`, `cmd_list.go`) | slice headers, shared arrays | append in place, re-slicing, reversal in place | An in-place write to one list must not be seen in another, nor over elements still to be copied. |
| Server (`server/server.go`, `Start`, `StartAddr`, `Close`, `Restart`) | listener, peers, wait group, command table | accept, serve, dispatch, close | `Close` holds the mutex while it waits for connections that need it; accept races the sweep of the peers; the listener is open before the commands are registered; `Start` reads `m.port` without the mutex. |
| Persistence (`Load`, `Save`, `rediqueue/main.go`) | `dump.rdb` | load at start, save on a timer and on exit | Errors ignored, no truncation, the process may end in between. |
| Protocol (`server/proto.go`) | the `bufio.Reader` | `readArray`, `readString` | Pieces of any size, pipelined requests, cut-off streams, lengths that are no lengths. |
| Patterns (`keys.go`, `matchKeys`) | none | `patternRE` | The pattern is embedded in a regular expression with a syntax of its own. |
| Test helpers (`check.go`, `test.go`), `Dump`, `SetTime`, `formatFloat` | none | assertions, formatting | |

Interaction: one goroutine per connection (`servePeer`) reads a request,
`dispatch` finds its handler, the handler checks arguments and authentication and
passes a callback to `withTx` or `blocking`. In a transaction the callback is
queued; otherwise it runs under the one mutex of the server. EXEC runs all
queued callbacks under the mutex. `withTx` and EXEC broadcast on `m.signal`
before they unlock.

## Modules

| Module | Models | Uses |
|---|---|---|
| `ListCallbacks` | the requests that block, wake or disturb a blocked client, and their callbacks | |
| `ListService` | what the list commands promise, without mutex, condition or helpers | `ListCallbacks` |
| `Blocking` | `withTx` and `blocking()` | `ListCallbacks`, `ListService` (refinement) |
| `BlockingProofs` | theorems about `Blocking`, and its refinement of `ListService` | `Blocking` |
| `Db` | one `RedisDB` and every method of `db.go` | |
| `ListOps` | `redisRange` and the loops of LREM and LINSERT, on ints that wrap | |
| `Commands` | the callback of every command | `Db`, `ListOps` |
| `Direct` | every method of `direct.go` | `Commands` |
| `ListOpsProofs`, `CommandsProofs` | lemmas: what the list operations, and every command and method, do to a database | `ListOps`, `Direct` |
| `Keyspace` | one command or method from any well-formed databases, with reference definitions | `Direct` |
| `KeyspaceProofs` | theorems about `Keyspace` | `Keyspace`, `CommandsProofs` |
| `Lists` | the list commands on plain sequences | `ListOps` |
| `Slices` | the same commands on Go slices and their arrays | `ListOps`, `Lists` (refinement) |
| `SlicesProofs` | theorems about `Slices`, and its refinement of `Lists` | `Slices`, `ListOpsProofs` |
| `Transactions` | connections, authentication, WATCH, MULTI, EXEC | `Commands` |
| `TransactionsProofs` | theorems about `Transactions` | `Transactions`, `CommandsProofs` |
| `Lifecycle` | start, close, save, crash and restart; accept loop and connection goroutines | |
| `LifecycleProofs` | theorems about `Lifecycle` | `Lifecycle` |
| `Patterns` | `patternRE`, `matchKeys`, and a glob matcher to compare with | |
| `Wire` | the protocol reader and `servePeer`, with KEYS and QUIT as its commands | `Patterns` |
| `WireProofs` | theorems about `Wire`, and about `Patterns`: a pattern and its expression match the same keys | `Wire` |
| `MCBlocking`, `MCKeyspace`, `MCSlices`, `MCTransactions`, `MCWire` | small instances for TLC | |

Definitions named "seeded fault" in a comment are faulty variants of the
definition that follows them. No specification uses them; replacing the
definition by the variant makes TLC report the property listed with it in
`PROJECT.json`, which shows that the property can tell.

### Blocking

The goroutine of a connection is at one of seven places (`pc`), which are the
places in `withTx` and `blocking()` where it can be overtaken: waiting for a
request, at `m.Lock()`, at the callback, in the `select`, at the Broadcast of the
timeout, at its `wg.Wait()`, at `m.Unlock()`. The mutex is a Boolean: a Go mutex
has no owner, and this code relies on it. The helper goroutine is a second
process of the connection: spawned, parked on the condition's wait list,
notified, done. `HelperWait` joins the wait list and unlocks in one step, as
`sync.Cond` guarantees; `HelperRelock` is the lock inside `Wait` and the send on
`wakeup`. `TimeOut`, `Kill` and `Join` are the three lines of the timeout branch:
they run without the mutex, whatever the helper does in between. `Fire` is the
runtime's timer. EXEC is not a request of its own here: it changes keys and
broadcasts under the mutex, like any `withTx` command.

A key holds a list or is a set key; the history variable `silent` says that
something was changed by a step that does not broadcast since the last
Broadcast. `fresh` holds the elements the clients can still push, so every
element exists once and `EachElementOnce` can follow it.

### Db, Commands, Direct, Keyspace

A database is a record of four functions, one per Go map; a missing entry is the
zero value Go reads. A callback is an operator from the parsed command and the
database to the set of its outcomes (several where the code draws at random). A
direct method is an operator of the same shape. A panic is an outcome:
`servePeer` does not recover, so it ends the process. `Keyspace` runs one command or
method from every well-formed pair of databases with bounded contents. Every
callback runs under the mutex, so what holds of each single step from any
well-formed state holds along every run. `MapsAgree` is at the same time the
well-formedness of the start states. An empty list may be there from the start, since
the direct `Push` without values leaves one; `NoNewEmptyList` says that nothing else
does. `DirectLikeCommand` compares each method with its command (`Twin`): same effect on
the database, and same refusal. Three methods have no command to be compared with when
they get no values (`Push`, `SetAdd`, `SRem`: the handlers refuse that), and the methods
refuse a key that does not exist where most commands answer nil or 0. Replies leave out
wording and the order in which Go ranges over a map; a pattern of KEYS, SCAN or SSCAN is
the set of names it matches (see `Patterns` for which), or one that does not compile
(`badPattern`), and then the callback panics. SPOP parses its count in the callback, so
the commands include one with a count that is no int (`BadInt`).

A method takes the mutex once for the database and once for its work and reads
`m.selectedDB` before either. With a concurrent `Select` it works on either
database, so `Keyspace` lets it work on any.

### Lists, Slices

A slice is an array, an offset and a length; its capacity ends with the array.
`append` writes in place while there is room and otherwise allocates a larger array,
whose capacity Go chooses as it likes. Pops and LTRIM move the header; LSET and the
reversal of a negative LREM write into the array; LINSERT appends to a prefix in
place; RENAME hands the header on. `held` is the slice that `List` has given to the
embedding program. Cells no slice shows are set to `Unused` and arrays nobody refers
to are freed, which loses nothing: they are written before they are read again.

`ImplementsLists` maps every header to the sequence it shows: under that mapping
each step is a step of `Lists`. `Unshared` is the reason: two keys never have one
array. `HeldOnlyOverwritten` says what the caller of `List` can rely on.

### Transactions

A handler is one step. What it does outside the mutex (the dirty flag, the
queue) is local to its connection. EXEC is a sequence of steps, one per callback,
during which nobody else gets the mutex. `handleAuth` takes the mutex and
releases it before the rest of the handler takes it again; only `RequireAuth` can
tell the difference, so `RequireAuth` chooses the set `past` of connections with a
request already past the check, and the next step of such a connection is that
request. `Malformed` stands for every argument error whose handler sets the dirty flag
when the request comes in, `MultiRefused` for MULTI's, whose handler does not, `Unknown` for
every other error that does not, and `Marked` for SPOP with a bad count, which is QUEUED
and sets the flag while EXEC runs, too late for its transaction. `snap` and `spoiled` are
history: the values the WATCHes saw, and the connections whose open transaction contains
a request its handler refused for its arguments (MULTI's excepted, which spoils nothing).

`RefusedIffSpoiled` says that the flag is set exactly on the spoiled transactions, except
while the transaction's own EXEC runs. So these do not refuse a transaction: MULTI with
arguments, a nested MULTI, WATCH in MULTI, an unknown command, NOAUTH, and a bad count
of SPOP.

Worth knowing, and visible in the model: SELECT in a transaction takes effect at
once, also for the commands queued before it; UNWATCH in a transaction takes
effect at once; a second WATCH of a key overwrites the noted version;
`authenticated` is never reset when the password changes.

### Lifecycle

The threads of the embedding program call Start (or Restart), StartAddr, Close, Save and
the queries, each of them any; a thread is between calls, between the read of `m.port` and
`net.Listen`, before `m.Lock()` of `start`, registering commands, before the sweep of
`Server.Close`, at `wg.Wait()`, or saving. `StartRead` reads `m.port` without the mutex and
`StartListen` uses what it read, which may be old by then; `StartAddr` listens where it is
told to. `again` is history: two threads were in their first start at once, or a
StartAddr came after or beside another start. `start` then sets `m.srv` over a server that
is open, and `OneServer` says nothing. Each `server.Server` has a
listener, an accept loop, a number of registered command tables and a wait group, kept
as the set of those it counts. A connection is dialed (in the backlog), held by the
accept loop, accepted (with a goroutine, not in `peers` yet), reading, dispatching, at
its handler or blocked in it. The mutex of the RediQueue is `owner`; a handler is one
step that needs it free. A request may already be in the `bufio.Reader` when the
connection is closed, and is still executed. The process can end at any moment and be
started again. Save is a holder of the mutex. What it writes and Load reads is not in
the model: the gob encoder is external, and refuses `RedisDB`, which has no exported
fields, before the first value, an error that Save ignores. So a restart finds no values
whatever was saved, and no interleaving can change that.

### Patterns, Wire

`Wire` is one connection: what the client sent (`session`), what
has not arrived (`wire`), what the reader holds (`buf`), and the local variables of
`readArray` and `readString`. One byte arrives at a time; a piece of several bytes is
several arrivals without a step of the reader in between. `ReadString` needs a whole
line, `Read` takes what is there. The stream may end after any byte. A session is a
list of well-formed requests, as bulk strings or as simple strings, and then possibly
something that does not begin with a request (`SessionAssumption`; `BeginsWithRequest` says
so of the whole string, without a reader). `DiesOnlyOn` speaks of the session, too: behind
the requests there is an array without fields (`NoFields`) or the length of a bulk string
that is too long (`TooLong`). The server knows two commands. KEYS has the keys of `Names`.
QUIT is answered and the connection closed (`Reply`), whatever the client has sent behind it;
`AllAnswered` ends there.

`patternRE` is a scan over the bytes of the pattern with the position in the loop as
its mode; its result is the sequence of what is written to the regular expression.
The meaning of that expression is external: ranges, negation and escapes in a class, the
dot that does not match a line feed, and the ways in which `MustCompile` panics (a range
in reverse, `[^]`, a refused escape, a literal `\E` that ends the quotation). The code works
on bytes and regexp on runes, which are the same on ASCII only: the keys are ASCII
(`NamesAssumption`), and a pattern that leaves ASCII, or reaches syntax of regexp that is
not here, is `Foreign`. Of KEYS with such a pattern the model says that it panics or
answers, one as possible as the other, and not what it answers (`Untold`). `Glob` reads a pattern directly, by its suffixes.

## Runs

| Run | Shows | States | Time |
|---|---|---|---|
| `blocking_safety` | mutual exclusion with hand-off, one reply, no element lost or doubled, no wake-up lost except after a silent change; `Blocking` implements `ListService` | 372 000 | 100 s |
| `blocking_live` | commands complete, blocked pops are served, timeouts return | 16 000 | 80 s |
| `keyspace` | the invariants of every command and direct method, list algorithms against reference definitions | 398 000 | 60 s |
| `slices` | no two lists share an array; slices implement sequences; what a caller of `List` sees change | 23 000 | 135 s |
| `transactions_watch` | versions witness changes, EXEC on the watched values across databases, refusal exactly after a request that was refused for its arguments, no watch survives its transaction | 381 000 | 75 s |
| `transactions_auth` | no access without authentication | 80 000 | 15 s |
| `lifecycle` | nothing is left of a closed server, the port stays and Close reaches every listener, commands are known once Start has returned, an undisturbed Close returns | 101 000 | 40 s |
| `wire` | what is executed is what was sent, all of it is answered up to a QUIT, KEYS agrees with `Glob`, which inputs end the process | 128 000 | 75 s |

Four runs end in a violation, each a place where the code does not do what a
comment of the repository says:

- `blocking_move_lost`: BRPOPLPUSH fills a list and does not wake the client that is
  blocked on it.
- `blocking_timeout_hang`: the timer fires before the helper waits; the Broadcast is
  lost and the command hangs with its answer in the buffer.
- `transactions_flush`: FLUSHDB between WATCH and EXEC goes unnoticed.
- `lifecycle_close`: Close keeps the mutex while it waits for a connection whose command
  needs it, for a blocked one, or for one the sweep has missed.

More defects are visible in the models and have no run of their own:

- `end++` in `redisRange` wraps for the largest int: LRANGE answers nothing and LTRIM
  deletes the list (`RangeExact` states the range for every other end and this result
  for the largest).
- A direct `Push` or `Lpush` does not wake a blocked client (`RunDirect`;
  `ServedUnlessSilent` allows it), and a `Push` without values leaves an empty list on
  which a pop panics (`NoNewEmptyList`, `PanicsOnlyWhen`).
- RENAME of a key to itself, SRANDMEMBER of an empty set (which SDIFFSTORE or a `SetAdd`
  without values leaves), and KEYS, SCAN or SSCAN with a pattern that does not compile,
  end the process (`PanicsOnlyWhen`).
- MULTI with arguments, a nested MULTI, a WATCH inside MULTI, an unknown command and NOAUTH
  do not set the dirty flag, so the EXEC runs without the refused command, although
  `rediqueue.go:68` says "any error during QUEUEing"; SPOP with a bad count is QUEUED, and
  answers its error in the middle of the EXEC (`RefusedIffSpoiled` counts neither).
  EXECABORT leaves the transaction open (`ExecDirty`).
- A StartAddr of a running server, or two first starts at once, open a second listener,
  which Close then does not reach (`OneServer` excepts them).
- `matchKeys` "will return an empty list on invalid match expression" (`redis.go:183`);
  patterns such as `[b-a]` or `[^]` panic instead. A key with a line feed is not found by
  `*` (`DiesOnlyOn`, `KeysAnswersGlob`).
- A request without fields ends the process (`DiesOnlyOn`).
- `Addr`, `Host`, `Port` and the counters dereference nil after Close (`Query`).

The definitions each run checks:

- `blocking_safety`: `TypeOK`, `LockHandOff`, `OneReply`, `EachElementOnce`, `ServedUnlessSilent`, `ImplementsService`
- `blocking_live`: `CommandCompletes`, `ServedOrOvertaken`, `TimedOutReturns`
- `blocking_move_lost`: `NoLostWakeup`
- `blocking_timeout_hang`: `TimeoutAnswered`
- `keyspace`: `MapsAgree`, `NoNewEmptyList`, `VersionTellsChange`, `ErrorsChangeNothing`, `Conserved`, `TouchesOnlyItsKeys`, `PanicsOnlyWhen`, `DirectLikeCommand`, `RangeExact`, `EditsExact`
- `slices`: `TypeOK`, `Unshared`, `ImplementsLists`, `HeldOnlyOverwritten`
- `transactions_watch`: `TypeOK`, `VersionWitness`, `RefusedIffSpoiled`, `ExecOnWatchedValues`, `NoWatchLeftBehind`
- `transactions_auth`: `NoAccessWithoutAuth`
- `transactions_flush`: `ExecOnlyIfUnchanged`
- `lifecycle`: `TypeOK`, `NothingServesAfterClose`, `OneServer`, `KnownOnceStarted`, `QuietCloseReturns`
- `lifecycle_close`: `CloseReturns`
- `wire`: `TypeOK`, `ExactlyWhatWasSent`, `DiesOnlyOn`, `KeysAnswersGlob`, `AllAnswered`

The passing properties are stated so that they hold with these defects: for
example `ServedUnlessSilent` allows a sleeping client after a silent change,
`VersionWitness` and `ExecOnWatchedValues` a key that does not exist, `TimedOutReturns`
requires that the helper is on the wait list, and `QuietCloseReturns` that no
connection is between its accept and its handler's end. The commands of
`transactions_watch` do not include a flush. Their exception is wider than a flush: a key
that is gone for whatever reason. That no other change, a removal included, leaves the
version alone is `VersionTellsChange`, over all commands.

### Bounds

- `Blocking`: three connections (one that blocks, one that competes with it, one that
  pushes), two keys, two elements. The state space is finite without a further
  bound, since elements are conserved. Connections are symmetric in the safety run
  only (the abstract specification treats them alike, too); the liveness run uses no
  symmetry, one element and three requests.
- `Keyspace`: two keys, two values, lists of up to two elements (four for the list
  algorithms), two databases, of which the second holds one of three things per key.
  Two keys are enough for source, destination and bystander in turn, since no command
  relates more than two keys except the set operations, which are checked with
  destination, operand and both orders. `MaxInt` is 5 instead of 2^63-1: all
  arithmetic is relative to the length of a list, so what matters is that the ints
  reach beyond the list on both sides and that they wrap.
- `Transactions`: two connections, `MaxQueue` 1 (2 in the authentication run),
  `MaxVersion` 2: enough to create, change and remove a key once between WATCH and
  EXEC. The bound is a guard; steps beyond it are not explored. `MaxInt` is 3, as in `Slices`:
  no command there comes near it.
- `Slices`: two keys, two values, four arrays (one per key, one held, one being
  allocated), `MaxCap` 3: a list that is full, one with room behind it, and one with a
  popped cell in front. Indexes reach one element from either end.
- `Lifecycle`: two threads, one connection, two ports, three `server.Server`s per process, two
  command tables: any call of one thread against any of the other, among them a Start
  that has read `m.port` before the other's `start` sets it, a server over a server, and a
  third after a Close; a connection on the old server while the next is started.
- `Wire`: every pattern of up to two bytes from `PatternBytes`, of three from the bytes with
  a meaning, every class of three characters from `\ ^ - a b`; keys of up to two bytes;
  two pipelined requests, one with a field that looks like the protocol, or a QUIT in front;
  four `Foreign` patterns. `MaxInt` 7 and
  `MaxAlloc` 6 stand for the largest int and the largest allocation, so that a length can
  be too large for either.

Deadlock is not checked: all clients may be blocked in BLPOP with timeout 0, a
`Keyspace` behaviour is one command long, and in `Transactions` the process can
crash; a server may be closed for good, and a connection ends.

### Fairness

`FairSpec` gives every goroutine weak fairness for the steps it can take alone, since
Go's scheduler preempts and runs every runnable goroutine, and the timers weak
fairness. `Acquire` and `HelperRelock` get strong fairness: `sync.Mutex` switches to
starvation mode when a waiter has waited for a millisecond and hands the mutex over
in order. No fairness is assumed of the clients, and none for the choice `select`
makes between two ready channels.

In `Lifecycle` the threads and goroutines are fair in the same way, the mutex included,
but nothing obliges a client to send a request or to hang up, the program to call a
method, or a blocked command to be woken. In `Wire` the reader is fair, and the network
delivers unless it loses the connection.

## Proofs

The theorems hold for every value of the constants that satisfies the named assumptions;
the runs check the same definitions on the small instances above.

| Theorem | States | Inductive invariant |
|---|---|---|
| `BlockingProofs.TypeCorrect` | `[]TypeOK` | `TypeOK` |
| `BlockingProofs.MutualExclusion` | `[]LockHandOff` | with `TypeOK` |
| `BlockingProofs.RepliesOnce` | `[]OneReply` | with `TypeOK` |
| `BlockingProofs.WakeUps` | `[]ServedUnlessSilent` | `WakeInv` |
| `BlockingProofs.NothingLostOrDoubled` | `[]EachElementOnce` | `OnceInv`, with `WakeInv` and `OneReply` |
| `BlockingProofs.RefinesService` | `ImplementsService` | `ServiceInv` |
| `KeyspaceProofs.MapsAlwaysAgree`, `VersionsTellChanges`, `OnlyItsKeys`, `ErrorsAreClean`, `KnownPanics` | `[]MapsAgree`, `[]VersionTellsChange`, `[]TouchesOnlyItsKeys`, `[]ErrorsChangeNothing`, `[]PanicsOnlyWhen` | `IInv` |
| `KeyspaceProofs.NoneEmptier`, `ElementsConserved`, `RangesExact`, `EditsAreExact`, `MethodsLikeCommands` | `[]NoNewEmptyList`, `[]Conserved`, `[]RangeExact`, `[]EditsExact`, `[]DirectLikeCommand` | `IInv` |
| `TransactionsProofs.TransactionsTyped`, `VersionsWitness`, `RefusalsExact` | `[]TypeOK`, `[]VersionWitness`, `[]RefusedIffSpoiled` | `TInv` |
| `TransactionsProofs.ExecSeesWatchedValues`, `WatchesEnd`, `AuthGuardsData` | `ExecOnWatchedValues`, `NoWatchLeftBehind`, `NoAccessWithoutAuth` (of steps) | `TInv` |
| `SlicesProofs.HeadersSound`, `NeverShared` | `[]TypeOK`, `[]Unshared` | `SInv` |
| `SlicesProofs.RefinesLists`, `HeldDisturbedOnlyByOwner` | `ImplementsLists`, `HeldOnlyOverwritten` (of steps) | `SInv` |
| `LifecycleProofs.TypeCorrect`, `CloseWaits` | `[]TypeOK`, `[]NothingServesAfterClose` | `LifeInv` |
| `LifecycleProofs.CommandsKnown` | `KnownOnceStarted` (of steps) | `LifeInv` |
| `LifecycleProofs.OnePort` | `[]OneServer`, for any threads | `PortInv`, with `LifeInv` |
| `WireProofs.ReaderTyped`, `RequestsAsSent`, `DiesOfTheseOnly` | `[]TypeOK`, `[]ExactlyWhatWasSent`, `[]DiesOnlyOn` | `WireInv` |
| `WireProofs.KeysAsTheGlob` | `[]KeysAnswersGlob` (the lemma `KeysMatch`: for every pattern and key, of any length) | `AnswersOfKeys`, with `WireInv` |

**Blocking.** The work of the type invariant is in `CbType`: every callback maps lists of
elements to lists of elements, which needs that the first hit of a pop exists
(`FirstHitIsHit`, from the well-foundedness of the naturals). For `LockHandOff`, a step of
a connection changes no other connection's hold on the mutex (`HoldersOfOthers`: a
Broadcast only turns "parked" into "notified") and changes its own exactly with the mutex
(`HolderStep`); the third conjunct, that a helper exists exactly while its command waits,
is what excludes the double unlock. `ServedUnlessSilent` is not inductive alone:
`WakeInv` adds `SpawnedUnserved` (between the failed callback and the wait list the keys
do not change, because the mutex stays locked) and `WaitersBlock`. A pop of another
client cannot turn a waiting request into one that could be served (`PopShrinks`,
`DoneMonotone`).

`EachElementOnce` counts places, and a count says nothing about the next step. `OnceInv`
says instead where an element is *not*: no list holds one twice and no two lists share one
(`Tidy`), and an element is with the clients, in a list or carried by one connection, and
only one of them (`OneSpot`). `TimedOutNull` keeps a command that timed out from carrying an
element past its `wg.Wait()`. The lemmas `PopMoves`, `MoveMoves`, `PushMoves`, `SaddMoves`
and `DelMoves` say which elements a callback moves, `RunKeepsSpots` that the callback's
step moves them to one place, and `OnePlace` that the set of places is then a singleton.

**Refinement of ListService.** `Stage` forgets the mutex and the helper. A step that decides
a reply is a step of the service, and every other one a stutter; that the appended reply is
the first (`OneReply`) and that only a command with a timeout is given up (`TimersTimed`)
makes it the service's step.

**Keyspace.** `CommandsProofs` shows for every one of the 43 commands and 15 methods what it
promises (`Promise`): from a database whose maps agree it goes to one whose maps agree,
touches only keys it names and each of them under a new version, answers an error only
unchanged, and panics only in the listed cases. `Touches` composes, so a command made of
several calls (RENAME, SMOVE, RPOPLPUSH, the *STORE commands) is proved call by call. The theorems
read the properties off `Explained`, the promise of the last command.

The other five properties are about the outcome itself, so `IInv` also keeps `History`: the last
command ran on databases of `Start`, and what it left and answered is one of its outcomes
(`Possible`). They are shown command by command, from what each operator of `Db` makes of
the entry of its key:

- `NoNewEmptyList`: a command leaves every key that held no empty list without one (push
  appends something, the edits and pops delete what they empty), except RENAME, RENAMENX
  and MOVE, which carry a value from one place to another. There the empty lists before
  and after are counted: exchanging two places is a bijection (`CarriedCounts`).
- `Conserved`: `Occurs` is the number of places of a value, a place being a database, a key
  and a position of its list or its set. Taking an element from an end of a list, or out of
  a set, removes one place of it and moves the others (`CountedAtHead`, `CountedAtLast`,
  `CountedAway`), giving one adds one, and RENAMENX and MOVE map the places of the source to
  places of the destination.
- `RangeExact`: `Pick(l, S)` lists the elements of l at the positions of S, the j-th being the
  one with j positions of S up to it. Over an interval that is a `SubSeq` (`PickInterval`), and the
  clipped bounds of `redisRange` are the ends of that interval (`SliceIsRange`).
- `EditsExact`: the loop of LREM keeps, after i elements, what `Spared` keeps of the first i
  (`LoopSpares`), by induction over i; from the right it is the same loop on the reversed list
  (`LoopSparesBack`), and with the smallest int, which stays negative, it keeps everything (`LoopKeeps`). LINSERT takes the first pivot (`PivotFirst`), and removing what it inserted gives the
  list back (`InsertRemove`).
- `DirectLikeCommand`: a method and its `Twin` are the same operators of `Db` with the same
  arguments, but for the checks in front; `AlikeOnType` compares those. `KeylessTwin` has the
  methods that name no key, for which there is no exception.

**Transactions.** `TInv` adds to the three invariants that the maps of every database
agree, which the commands need to keep versions growing, and that a connection outside a
transaction is not spoiled. The step lemmas reuse `CommandsProofs`: a
command of any client that changes a watched value grows its version past the noted one.

**Slices.** `SInv` adds to `TypeOK` and `Unshared` that the memory is collected (`Collected`),
so that a freshly allocated array is nobody's. Every command but List stores headers over a
new memory; `Safe` says what such a pair has to satisfy and `StoreStep` what follows. The
refinement is proved command by command from what `append`, re-slicing and a write in place
do to what the other headers read.

**Lifecycle.** `NothingServesAfterClose` needs that the wait group counts the accept loop and
every goroutine from its go statement on (`Counted`), and that a connection the loop holds
belongs to that loop's server (`ConnInv`), which is the case of a connection accepted while
Close sweeps. For `OneServer` no thread is singled out. Unless a start was beside or over
another (`again`), there are two phases: before the first `start` has set `m.port` one thread
starts a server, and afterwards every server, and every `m.port` a thread has read and not
used yet, has that one port, so that two listeners cannot be open and one that is waits for
its `start` or is `m.srv` (`PortInv`).

**Wire.** `WireInv` follows the stream instead of the reader's code: `Ahead`, the bytes that have
arrived and are not consumed followed by those that have not arrived, is what the client sent
behind the last answered request, less what the reader has taken of the next one. A byte
that arrives leaves it as it is (`SameAhead`), a line that is taken is the line the client put
there, because it ends at the first line feed and so does the client's (`TakeTyped`), and
the Reads of a bulk string take as many bytes as its length says, line feeds included (`OneRead`,
`WholeBulk`). While the reader is in a request (`InRequest`) the fields it has read are the
first of that request and the others are ahead, so what is dispatched is the request. Behind
the requests (`InRest`) the reader has cut fields off the rest of the session, one behind the
other (`CutsTo`); if it came to the last the rest would begin with a request, which the
session excludes (`AllCuts`). For the third way to die `PatternItems` shows what
`patternRE` can have written: a class only for a `[` in the pattern, and a quoted `\E` only
for a backslash and an E (`RefusedPatterns`); a `Foreign` pattern has those, too, or a byte
that is not ASCII (`ForeignPatterns`). The recursive functions of the model (bytes
of a session, value of a number, scan of a pattern) are well defined because a run of their
steps exists (`HasRun`).

**Patterns.** `KeysAnswersGlob` says that two readings of a pattern agree: the scan of
`patternRE`, with the meaning of what it wrote, and `Glob`. What was answered is
`matchKeys(Names, p)` of a pattern that compiled (`AnswersOfKeys`); that these are the keys
that `Glob` matches is the lemma `KeysMatch`, about every pattern and every key. The lemma is
about the expressions of `Patterns`; the theorem is about the program, so it takes ASCII keys
and excepts `Foreign` patterns, whose answers the model does not say.

- The recursions of `Glob`, `classEnd`, `inClass` and `ranges` go to later places by different
  distances, so `HasFunction` shows for any ranked recursion that a function solves it.
- A class: `Spells` relates its characters to their places in the pattern. `ClassRuns` follows the two
  recursions over it, of `inClass` and of `ranges`, from the last character to the first, and
  `ClassMatches` concludes that the class has the same bytes for both, if the expression compiles
  and no letter is escaped.
- How a class ends: `ClassOutcome` follows the scan from its bracket (`InAClass`) and compares with
  `classEnd`: at a bracket, with the pattern, or not at all, and then nothing matches.
- `PatternLeads`: at every byte outside of a class, either nothing matches, or the scan writes one
  item, and `Glob` has the places there from which that item leads to the next set (`Turns`).
  `SomethingMatches` goes from the end of the pattern to its beginning: when the expression
  matches, one of the places where it can stand after the items written so far is one from which
  `Glob` matches the rest, and the reverse holds for a key without a line feed, which `*` and `?` of
  the expression do not match.

Assumptions on the constants, each evaluated by the runs:

- `BlockingAssumption`: a request names the keys its command needs, and a set is not a list.
- `ReplyAssumption`: an element is not mistaken for a status, a null or an error; in the
  protocol their first bytes differ.
- `KeyAssumption`, and in `DBAssumption`: finitely many keys and databases, so that they can be
  counted.
- `NilAssumption`, `ValAssumption`: a missing entry is no list and no set, and there are finitely many
  values, so that the sets have cardinalities.
- `MaxIntAssumption`, `DBAssumption`: ints beyond 0; databases are numbered and 0 exists.
- `CommandAssumption`: the commands have the arguments their handlers insist on
  (`Commands`), and the databases at the start have maps that agree.
- `TransactionsAssumption`: the same for the commands, `Nil` is not a queue and not an EXEC under way,
  and the empty password is one `RequireAuth` accepts.
- `SlicesAssumption`: two arrays more than keys, one for the held slice and one to allocate.
- `LifecycleAssumption`: there is a command table and room for a server, `None` is no thread, connection
  or port, and the names of the accept loop's states are not connections.
- `SessionAssumption`: the client's requests have one to nine fields of at most nine bytes, because
  the model writes a length with one digit; a field sent as a line has no line feed; what follows the
  requests, if anything, is bytes that do not begin with another request.
- `NamesAssumption`: a key is a string of ASCII bytes.
- `IntAssumption`: the largest int and the largest allocation are naturals. With ints too small for a
  length, `Atoi` fails and the connection is closed, which the theorems cover.

Only model-checked:

- the liveness properties (`CommandCompletes`, `ServedOrOvertaken`, `TimedOutReturns`,
  `QuietCloseReturns`, `AllAnswered`): fairness is beyond the prover.

## Not modelled

- `check.go` and `test.go`: assertions for Go tests; they call `List` and `Members` and
  change nothing.
- `Dump`, `SetTime`, `formatFloat` and the types and messages of commands that do not
  exist: formatting and leftovers that no other part depends on. The counters of the
  server are written and reported, never used.
- The bytes of a reply: replies are values. An error line that echoes a command name with
  a line feed in it would be split by the client; the models cannot show it.
- The product `time.Duration(timeout)*time.Second`, which overflows for a large timeout:
  `Blocking` has a timer that fires at any time or none, which contains both outcomes.
- What `Foreign` patterns match: runes of several bytes and bytes that are not UTF-8, letters and
  digits other than a, b and E behind a backslash in a class, POSIX classes, a backslash behind a
  literal `\E`; and keys that are not ASCII.
- What Save writes and Load reads (see Lifecycle).
- In `Slices`, the direct `Push` without values, which stores a header that shows nothing: that
  a pop panics on it is in `Keyspace`.
- Memory exhaustion, and errors of the file system other than a missing file.

## Plan

Every part of the system that keeps state is modelled, and every invariant and action property
the runs check is proved. What remains:

1. Replies as bytes, if the encoding of an error line is to be stated.
2. The regexp syntax of `Foreign` patterns, if patterns with escaped letters in a class or keys
   beyond ASCII are to be compared.
