--------------------------------- MODULE Wire ---------------------------------
(***************************************************************************)
(* One connection: the client's bytes, the network, and the goroutine that  *)
(* reads requests from them and dispatches each (src/server/proto.go,       *)
(* servePeer and dispatch of src/server/server.go).  The network delivers   *)
(* the bytes in pieces of any size and may stop after any of them.  Reading *)
(* a line waits for its line feed; reading a bulk string is a loop of Reads *)
(* that each return what has arrived.                                       *)
(*                                                                          *)
(* A session is what the client sends: requests, each a sequence of fields, *)
(* and then possibly something that is not a request.  The server knows two *)
(* commands, KEYS and QUIT, whose names are shortened to their first        *)
(* letters; the keys are those of Names.  A panic in a connection's         *)
(* goroutine ends the process.                                              *)
(***************************************************************************)
EXTENDS Patterns

CONSTANTS
    Sessions,      \* records [reqs, style, rest], see Bytes
    Names,         \* the keys of the database, as sequences of bytes
    MaxInt,        \* the largest int, scaled down
    MaxAlloc       \* the largest length make() accepts, scaled down

VARIABLES
    session,       \* what the client has sent
    wire,          \* the bytes that have not arrived
    buf,           \* the bytes that have arrived and are not consumed: bufio.Reader
    eof,           \* the client is gone, or the network to it
    pc,            \* where servePeer is
    todo,          \* l of readArray: the fields still to read
    fields,        \* the fields read so far
    need,          \* length + 2 of readString
    got,           \* buf[:pos] of readString
    answered       \* the requests dispatched, each with its answer

vars == <<session, wire, buf, eof, pc, todo, fields, need, got, answered>>

CR == 13
PLUS == 43
MINUS == 45
COLON == 58
DOLLAR == 36
KEYS == <<75>>
QUIT == <<81>>

-----------------------------------------------------------------------------
(* The client, external: requests as bytes.  A length has one digit.        *)

Line(bytes) == bytes \o <<CR, LF>>
Field(style, f) ==
    IF style = "bulk" THEN Line(<<DOLLAR, 48 + Len(f)>>) \o Line(f)
    ELSE Line(<<PLUS>> \o f)

\* The last i fields of r, and then what is behind the request.
LastFields(style, r, behind) ==
    LET last[i \in 0..Len(r)] ==
            IF i = 0 THEN behind ELSE Field(style, r[Len(r) + 1 - i]) \o last[i - 1]
    IN last

Request(style, r, behind) ==
    Line(<<STAR, 48 + Len(r)>>) \o LastFields(style, r, behind)[Len(r)]

\* The last i requests of s, and then its rest.
LastRequests(s) ==
    LET last[i \in 0..Len(s.reqs)] ==
            IF i = 0 THEN s.rest
            ELSE Request(s.style, s.reqs[Len(s.reqs) + 1 - i], last[i - 1])
    IN last

Bytes(s) == LastRequests(s)[Len(s.reqs)]

Init == /\ session \in Sessions
        /\ wire = Bytes(session)
        /\ buf = << >> /\ eof = FALSE
        /\ pc = "array" /\ todo = 0 /\ fields = << >> /\ need = 0 /\ got = << >>
        /\ answered = << >>

\* The next byte arrives.  A piece of several bytes is several of these, with no
\* step of the reader in between.
Deliver == /\ ~ eof /\ wire # << >>
           /\ buf' = Append(buf, Head(wire))
           /\ wire' = Tail(wire)
           /\ UNCHANGED <<session, eof, pc, todo, fields, need, got, answered>>

Hangup == /\ ~ eof
          /\ eof' = TRUE
          /\ UNCHANGED <<session, wire, buf, pc, todo, fields, need, got, answered>>

-----------------------------------------------------------------------------
(* Reading                                                                  *)

IsDigit(b) == b \in 48..57
Value(digits) ==
    LET first[i \in 0..Len(digits)] ==
            IF i = 0 THEN 0 ELSE 10 * first[i - 1] + (digits[i] - 48)
    IN first[Len(digits)]

\* strconv.Atoi, external: the number, or an error when it is none or too large.
Unsigned(s) == IF s # << >> /\ Head(s) \in {PLUS, MINUS} THEN Tail(s) ELSE s
AtoiFails(s) == \/ Unsigned(s) = << >>
                \/ \E i \in DOMAIN Unsigned(s) : ~ IsDigit(Unsigned(s)[i])
                \/ Value(Unsigned(s)) > IF Head(s) = MINUS THEN MaxInt + 1 ELSE MaxInt
Atoi(s) == IF Head(s) = MINUS THEN - Value(Tail(s)) ELSE Value(Unsigned(s))

\* A line has arrived, its line feed included; and what is behind its type byte and
\* before its last two.
HasLine == \E i \in DOMAIN buf : buf[i] = LF
TheLine == SubSeq(buf, 1, CHOOSE i \in DOMAIN buf :
                              buf[i] = LF /\ \A j \in 1..(i - 1) : buf[j] # LF)
Inside(l) == SubSeq(l, 2, Len(l) - 2)
Body == Inside(TheLine)

\* servePeer returns, and the connection is closed.
Leave == /\ pc' = "closed"
         /\ UNCHANGED <<eof, todo, fields, need, got>>

\* The process dies.
Panic == /\ pc' = "dead"
         /\ UNCHANGED <<eof, todo, fields, need, got>>

\* rd.ReadString and rd.Read: nothing more will arrive.
ReadFails == /\ pc \in {"array", "field", "bulk"}
             /\ eof
             /\ IF pc = "bulk" THEN buf = << >> ELSE ~ HasLine
             /\ Leave
             /\ UNCHANGED <<session, wire, buf, answered>>

\* A line that is too short, or has a length that is no number, or a type that is
\* none of types.
BadLine(types) == \/ Len(TheLine) < 3
                  \/ TheLine[1] \notin types
                  \/ TheLine[1] \in {STAR, DOLLAR} /\ AtoiFails(Body)

Consume == buf' = SubSeq(buf, Len(TheLine) + 1, Len(buf))

\* Seeded fault: only a length of zero means no fields.
readArrayNonZero ==
    /\ pc = "array" /\ HasLine
    /\ Consume
    /\ IF BadLine({STAR}) THEN Leave
       ELSE /\ todo' = Atoi(Body)
            /\ pc' = IF Atoi(Body) # 0 THEN "field" ELSE "dispatch"
            /\ fields' = << >>
            /\ UNCHANGED <<eof, need, got>>
    /\ UNCHANGED <<session, wire, answered>>

readArray ==
    /\ pc = "array" /\ HasLine
    /\ Consume
    /\ IF BadLine({STAR}) THEN Leave
       ELSE /\ todo' = IF Atoi(Body) > 0 THEN Atoi(Body) ELSE 0     \* l can be -1
            /\ pc' = IF Atoi(Body) > 0 THEN "field" ELSE "dispatch"
            /\ fields' = << >>
            /\ UNCHANGED <<eof, need, got>>
    /\ UNCHANGED <<session, wire, answered>>

\* One more field of the array.
Add(f) == /\ fields' = Append(fields, f)
          /\ todo' = todo - 1
          /\ pc' = IF todo > 1 THEN "field" ELSE "dispatch"

\* make([]byte, length+2): the sum wraps around, and a length may be too large.
makePanics(length) == length + 2 > MaxInt \/ length + 2 > MaxAlloc

readString ==
    /\ pc = "field" /\ HasLine
    /\ Consume
    /\ IF BadLine({PLUS, MINUS, COLON, DOLLAR}) THEN Leave
       ELSE IF TheLine[1] # DOLLAR THEN Add(Body) /\ UNCHANGED <<eof, need, got>>
       ELSE IF Atoi(Body) < 0 THEN Add(<< >>) /\ UNCHANGED <<eof, need, got>>
       ELSE IF makePanics(Atoi(Body)) THEN Panic
       ELSE /\ need' = Atoi(Body) + 2
            /\ got' = << >>
            /\ pc' = "bulk"
            /\ UNCHANGED <<eof, todo, fields>>
    /\ UNCHANGED <<session, wire, answered>>

Least(a, b) == IF a < b THEN a ELSE b

\* Seeded fault: one Read is taken to fill the buffer.
readBulkOnce ==
    /\ pc = "bulk" /\ buf # << >>
    /\ LET n == Least(need, Len(buf))
       IN /\ buf' = SubSeq(buf, n + 1, Len(buf))
          /\ Add(SubSeq(buf, 1, Least(n, need - 2)))
    /\ UNCHANGED <<session, wire, eof, need, got, answered>>

\* Seeded fault: the loop runs once more when the buffer is full.
readBulkLong ==
    /\ pc = "bulk" /\ buf # << >>
    /\ LET n == Least(need + 1 - Len(got), Len(buf))
           all == got \o SubSeq(buf, 1, n)
       IN /\ buf' = SubSeq(buf, n + 1, Len(buf))
          /\ got' = all
          /\ IF Len(all) > need THEN Add(SubSeq(all, 1, need - 2))
             ELSE UNCHANGED <<pc, todo, fields>>
    /\ UNCHANGED <<session, wire, eof, need, answered>>

\* One rd.Read of the loop.  The last two bytes are dropped, whatever they are.
readBulk ==
    /\ pc = "bulk" /\ buf # << >>
    /\ LET n == Least(need - Len(got), Len(buf))
           all == got \o SubSeq(buf, 1, n)
       IN /\ buf' = SubSeq(buf, n + 1, Len(buf))
          /\ got' = all
          /\ IF Len(all) = need THEN Add(SubSeq(all, 1, need - 2))
             ELSE UNCHANGED <<pc, todo, fields>>
    /\ UNCHANGED <<session, wire, eof, need, answered>>

-----------------------------------------------------------------------------
(* Dispatching                                                              *)

ToUpper(s) == [i \in DOMAIN s |-> IF s[i] \in 97..122 THEN s[i] - 32 ELSE s[i]]

OK           == [is |-> "OK"]
Unknown      == [is |-> "unknown command"]
WrongNumber  == [is |-> "wrong number of arguments"]
Answer(keys) == [is |-> "keys", keys |-> keys]
Untold       == [is |-> "not said here"]

\* cmdKeys: the keys that match, or the panic of their pattern.
patternPanics(args) ==
    Len(args) = 1 /\ patternRE(args[1]) # Nil /\ mustCompilePanics(patternRE(args[1]))
cmdKeys(args) == IF Len(args) # 1 THEN WrongNumber ELSE Answer(matchKeys(Names, args[1]))

\* Of a Foreign pattern only this is said: KEYS answers something, or panics.
foreign(args) == Len(args) = 1 /\ Foreign(args[1])

\* The request is answered.  QUIT has marked the connection to be closed, and it is
\* closed then, whatever has arrived behind the request.
Reply(r) == /\ answered' = Append(answered, [req |-> fields, reply |-> r])
            /\ pc' = IF ToUpper(fields[1]) = QUIT THEN "closed" ELSE "array"
            /\ UNCHANGED <<eof, todo, fields, need, got>>

\* Seeded fault: a command that is not in the table is called all the same.
dispatchUnchecked ==
    /\ pc = "dispatch"
    /\ IF fields = << >> \/ ToUpper(fields[1]) \notin {KEYS, QUIT}
       THEN Panic /\ UNCHANGED answered
       ELSE IF ToUpper(fields[1]) = QUIT THEN Reply(OK)
       ELSE IF patternPanics(Tail(fields)) THEN Panic /\ UNCHANGED answered
       ELSE Reply(cmdKeys(Tail(fields)))
    /\ UNCHANGED <<session, wire, buf>>

\* dispatch takes the first field of the request for granted.
dispatch ==
    /\ pc = "dispatch"
    /\ IF fields = << >> THEN Panic /\ UNCHANGED answered
       ELSE IF ToUpper(fields[1]) = QUIT THEN Reply(OK)
       ELSE IF ToUpper(fields[1]) # KEYS THEN Reply(Unknown)
       ELSE IF foreign(Tail(fields)) THEN Reply(Untold) \/ (Panic /\ UNCHANGED answered)
       ELSE IF patternPanics(Tail(fields)) THEN Panic /\ UNCHANGED answered
       ELSE Reply(cmdKeys(Tail(fields)))
    /\ UNCHANGED <<session, wire, buf>>

servePeer == ReadFails \/ readArray \/ readString \/ readBulk \/ dispatch

Next == Deliver \/ Hangup \/ servePeer

Spec == Init /\ [][Next]_vars

\* The goroutine runs when it can, and the network delivers what it does not lose.
FairSpec == Spec /\ WF_vars(servePeer) /\ WF_vars(Deliver)

-----------------------------------------------------------------------------
(* What the client may send, said of whole strings of bytes.                *)

Byte == 0..255

\* A line, and a line with a number.
IsLine(l) == Len(l) >= 3 /\ l[Len(l)] = LF /\ \A i \in 1..(Len(l) - 1) : l[i] # LF
IsNumber(l, type) == IsLine(l) /\ l[1] = type /\ ~ AtoiFails(Inside(l))

\* A line, or a length that is -1 or has that many bytes and two more behind it.
IsField(s) ==
    \E h \in 1..Len(s) :
        LET l == SubSeq(s, 1, h)
            length == Atoi(Inside(l))
        IN \/ IsLine(l) /\ l[1] \in {PLUS, MINUS, COLON} /\ Len(s) = h
           \/ IsNumber(l, DOLLAR) /\ Len(s) = h + IF length < 0 THEN 0 ELSE length + 2

\* s begins with an array of at least one field: cut[i] is the end of the i-th.
BeginsWithRequest(s) ==
    \E h \in 1..Len(s) :
        LET l == SubSeq(s, 1, h)
            n == Atoi(Inside(l))
        IN /\ IsNumber(l, STAR) /\ n > 0
           /\ \E cut \in [0..n -> 0..Len(s)] :
                 /\ cut[0] = h
                 /\ \A i \in 1..n : IsField(SubSeq(s, cut[i - 1] + 1, cut[i]))

\* Requests with one to nine fields of up to nine bytes; a field that is sent as a
\* line has no line feed; and what comes behind them is not another request.
ASSUME SessionAssumption ==
    \A s \in Sessions :
        /\ s.reqs \in Seq(Seq(Seq(Byte))) /\ s.rest \in Seq(Byte)
        /\ \A i \in DOMAIN s.reqs :
              /\ Len(s.reqs[i]) \in 1..9
              /\ \A j \in DOMAIN s.reqs[i] :
                    /\ Len(s.reqs[i][j]) <= 9
                    /\ s.style # "bulk" => LF \notin Range(s.reqs[i][j])
        /\ ~ BeginsWithRequest(s.rest)

\* A key is an ASCII string: the dot and the class of an expression match a rune.
ASSUME NamesAssumption == Names \subseteq Seq(ASCII)

ASSUME IntAssumption == MaxInt \in Nat /\ MaxAlloc \in Nat

-----------------------------------------------------------------------------
(* Properties                                                               *)

\* The reader's variables hold what their Go counterparts can: a count of fields
\* that is not negative (src/server/proto.go:33-41), a buffer that never holds more
\* than was asked for (src/server/proto.go:75-83).
TypeOK ==
    /\ buf \in Seq(Byte) /\ eof \in BOOLEAN
    /\ pc \in {"array", "field", "bulk", "dispatch", "closed", "dead"}
    /\ todo \in 0..MaxInt
    /\ pc = "field" => todo > 0
    /\ need \in 0..MaxAlloc /\ got \in Seq(Byte) /\ Len(got) <= need
    /\ fields \in Seq(Seq(Byte))

\* The requests the server executes are those the client sent, in the client's
\* order, each field byte for byte, whatever pieces the bytes arrive in, whatever
\* bytes the fields hold (line feeds and type bytes too) and wherever the stream is
\* cut off; what is not a request is never executed
\* (src/server/proto.go:15-87, src/server/server.go:119-144).
ExactlyWhatWasSent ==
    \A i \in DOMAIN answered :
        i <= Len(session.reqs) /\ answered[i].req = session.reqs[i]

\* The client's last answer was that to a QUIT.
HasQuit == answered # << >> /\ ToUpper(Last(answered).req[1]) = QUIT

\* Every request is answered, however many were sent at once, unless the client
\* goes away, has sent QUIT, or the process dies: the reader neither waits for a
\* byte the client does not owe nor gives up on a well-formed request
\* (src/server/proto.go:79-85, src/server/server.go:127-143).
AllAnswered ==
    <>(Len(answered) = Len(session.reqs) \/ HasQuit \/ eof \/ pc = "dead")

\* The request that was read last, or is about to be.
LastRequest == session.reqs[Len(answered) + 1]

\* Behind the requests: an array without fields, and a length that is too large.
NoFields(s) ==
    \E h \in 1..Len(s) :
        IsNumber(SubSeq(s, 1, h), STAR) /\ Atoi(Inside(SubSeq(s, 1, h))) <= 0
TooLong(s) ==
    \E i, j \in 1..Len(s) :
        IsNumber(SubSeq(s, i, j), DOLLAR) /\ makePanics(Atoi(Inside(SubSeq(s, i, j))))

\* Only these end a process whose server knows KEYS and QUIT: an array without
\* fields (src/server/server.go:148), a bulk string too long to allocate
\* (src/server/proto.go:75), and KEYS with a class, with a backslash and an E, or
\* with a byte that is not ASCII (and then possibly not UTF-8) in its pattern
\* (src/keys.go:64).  What other commands end it on is PanicsOnlyWhen of Keyspace.
DiesOnlyOn ==
    pc = "dead" =>
        IF Len(answered) = Len(session.reqs)
        THEN NoFields(session.rest) \/ TooLong(session.rest)
        ELSE \/ /\ session.style = "bulk"
                /\ \E i \in DOMAIN LastRequest : makePanics(Len(LastRequest[i]))
             \/ /\ Len(LastRequest) = 2 /\ ToUpper(LastRequest[1]) = KEYS
                /\ \/ OPEN \in Range(LastRequest[2])
                   \/ {ESC, EndQuote} \subseteq Range(LastRequest[2])
                   \/ \E b \in Range(LastRequest[2]) : b \notin ASCII

\* KEYS answers the keys that its pattern matches, as Glob reads patterns, when it
\* answers at all and the pattern is not Foreign (which an ASCII pattern without a
\* backslash or a bracket never is).  The keys are ASCII.  Two exceptions are the
\* expression's own: keys with a line feed may be missing, and an escaped letter in
\* a class is not that letter (src/keys.go:13-65, src/redis.go:182-199).
KeysAnswersGlob ==
    \A i \in DOMAIN answered :
        LET r == answered[i].reply
            p == answered[i].req[2]
            matching == {k \in Names : Glob(p, k)}
        IN (r.is = "keys" /\ ~ EscapedLetter(p)) =>
               /\ r.keys \subseteq matching
               /\ {k \in matching : LF \notin Range(k)} \subseteq r.keys
=============================================================================
