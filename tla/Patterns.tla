------------------------------- MODULE Patterns -------------------------------
(***************************************************************************)
(* Key patterns (src/keys.go, src/redis.go:182-199): the argument of KEYS   *)
(* and of SCAN ... MATCH is translated to a regular expression, which       *)
(* filters the keys.  A string is a sequence of bytes.  The code goes byte  *)
(* by byte, but regexp by runes: the two are the same on ASCII only.        *)
(*                                                                          *)
(* The expression is the sequence of what patternRE writes to its buffer: a *)
(* quoted byte, `.*`, `.` or a class.  What regexp.MustCompile makes of it  *)
(* is external, and of its syntax only a part is here.  The patterns that   *)
(* lead out of it are Foreign, and nothing is said of what they match.      *)
(***************************************************************************)
EXTENDS Integers, SequencesExt

\* The bytes the code looks for.
LF == 10
STAR == 42
DASH == 45
ANY == 63
OPEN == 91
ESC == 92
CLOSE == 93
CARET == 94
EndQuote == 69                                                        \* E
ASCII == 0..127
PatternBytes == {STAR, DASH, ANY, OPEN, ESC, CLOSE, CARET, EndQuote, 97, 98}

Nil == <<[op |-> "nil"]>>                        \* the pattern matches nothing

-----------------------------------------------------------------------------
(* patternRE, one byte after the other.  mode is where the loop is: in the  *)
(* text, behind a backslash, in a class or behind a backslash in a class.   *)
(* A class is kept as written, each byte with the mark of its backslash.    *)

Text(b)      == [op |-> "text", byte |-> b]
Class(chars) == [op |-> "class", chars |-> chars]
Scan0        == [mode |-> "text", re |-> << >>, class |-> << >>]

write(s, item) == [mode |-> "text", re |-> Append(s.re, item), class |-> s.class]

\* A byte of the text: `*`, `?`, the start of a class, a backslash, or itself.
scanText(s, b) ==
    CASE b = STAR -> write(s, [op |-> "star"])
      [] b = ANY  -> write(s, [op |-> "any"])
      [] b = OPEN -> [s EXCEPT !.mode = "class"]
      [] b = ESC  -> [s EXCEPT !.mode = "escape"]
      [] OTHER    -> write(s, Text(b))

keep(s, b, esc) ==
    [mode |-> "class", re |-> s.re, class |-> Append(s.class, [byte |-> b, esc |-> esc])]

endClass(s) ==
    IF s.class = << >> THEN [s EXCEPT !.mode = "nil"]
    ELSE [write(s, Class(s.class)) EXCEPT !.class = << >>]

\* Seeded fault: in a class a backslash hides nothing.
scanClassNoEscape(s, b) == IF b = CLOSE THEN endClass(s) ELSE keep(s, b, FALSE)

\* A byte of a class: its end, a backslash, or one of its characters.
scanClass(s, b) ==
    CASE b = CLOSE -> endClass(s)
      [] b = ESC   -> [s EXCEPT !.mode = "classEscape"]
      [] OTHER     -> keep(s, b, FALSE)

scanByte(s, b) ==
    CASE s.mode = "text"        -> scanText(s, b)
      [] s.mode = "class"       -> scanClass(s, b)
      [] s.mode = "escape"      -> write(s, Text(b))
      [] s.mode = "classEscape" -> keep(s, b, TRUE)
      [] s.mode = "nil"         -> s                              \* has returned

\* The end of the pattern: an open class is closed, a backslash has nothing to
\* escape.
patternRE(k) ==
    LET scan[i \in 0..Len(k)] ==
            IF i = 0 THEN Scan0 ELSE LET s == scan[i - 1] IN scanByte(s, k[i])
        s == scan[Len(k)]
        e == IF s.mode = "class" THEN endClass(s) ELSE s
    IN IF e.mode = "text" THEN e.re ELSE Nil

-----------------------------------------------------------------------------
(* regexp, external: what the written expression means.                     *)

\* The byte a character of a class stands for: an escaped punctuation mark is
\* itself, `\a` is the bell, `\b` and `\E` are refused.
Refused == -1
classByte(c) ==
    IF ~ c.esc \/ c.byte \notin {EndQuote, 97, 98} THEN c.byte
    ELSE IF c.byte = 97 THEN 7 ELSE Refused

negated(chars) == ~ chars[1].esc /\ chars[1].byte = CARET

\* The ranges of a class: x-y takes three characters, and a dash that is first,
\* last or escaped is only a dash.
ranges(chars) ==
    LET n == Len(chars)
        from[i \in 1..(n + 1)] ==
            IF i > n THEN {}
            ELSE IF i + 2 <= n /\ chars[i + 1] = [byte |-> DASH, esc |-> FALSE]
                 THEN {<<classByte(chars[i]), classByte(chars[i + 2])>>} \cup from[i + 3]
                 ELSE {<<classByte(chars[i]), classByte(chars[i])>>} \cup from[i + 1]
    IN from[IF negated(chars) THEN 2 ELSE 1]

\* `[^]` takes the bracket for a character and then meets the `\Q` behind it.
badClass(chars) ==
    \/ negated(chars) /\ Len(chars) = 1
    \/ \E r \in ranges(chars) : Refused \in {r[1], r[2]} \/ r[2] < r[1]

\* MustCompile panics: a class it refuses, or a backslash and an E that end the
\* quotation they are part of and leave a later `\E` without one.
mustCompilePanics(re) ==
    \/ \E i \in DOMAIN re : re[i].op = "class" /\ badClass(re[i].chars)
    \/ \E i \in 1..(Len(re) - 1) : re[i] = Text(ESC) /\ re[i + 1] = Text(EndQuote)

\* The patterns whose expression may mean something else: with a rune of several
\* bytes, or bytes that are none; with a backslash behind a backslash and an E,
\* which may open a quotation or escape the end of one; with a class in which a
\* letter or a digit is escaped (`\d`, `\n`, but `\a`, `\b` and `\E` are above), or
\* one that may be a POSIX class.
Alphanumeric == (48..57) \cup (65..90) \cup (97..122)
Foreign(p) ==
    \/ \E b \in Range(p) : b \notin ASCII
    \/ \E i, j \in DOMAIN p :
           i + 1 < j /\ p[i] = ESC /\ p[i + 1] = EndQuote /\ p[j] = ESC
    \/ /\ OPEN \in Range(p)
       /\ \E i \in 2..Len(p) :
             \/ p[i - 1] = ESC /\ p[i] \in Alphanumeric \ {97, 98, EndQuote}
             \/ p[i - 1] = OPEN /\ p[i] = 58                             \* a colon

inRanges(chars, b) == (\E r \in ranges(chars) : b \in r[1]..r[2]) # negated(chars)

\* The positions of k at which the expression can stand after item, when it can
\* stand at those of at before it.  A dot does not match a line feed.  Each item but a star
\* takes one byte, which is one rune of an ASCII key.
step(k, at, item) ==
    IF item.op = "star"
    THEN {j \in 0..Len(k) : \E i \in at : i <= j /\ \A x \in (i + 1)..j : k[x] # LF}
    ELSE {i + 1 : i \in {x \in at :
                            /\ x < Len(k)
                            /\ \/ item.op = "text" /\ k[x + 1] = item.byte
                               \/ item.op = "any" /\ k[x + 1] # LF
                               \/ item.op = "class" /\ inRanges(item.chars, k[x + 1])}}

MatchString(re, k) ==
    LET after[i \in 0..Len(re)] ==
            IF i = 0 THEN {0} ELSE LET at == after[i - 1] IN step(k, at, re[i])
    IN Len(k) \in after[Len(re)]

-----------------------------------------------------------------------------
matchKeys(keys, match) ==
    LET re == patternRE(match)
    IN IF re = Nil THEN {} ELSE {k \in keys : MatchString(re, k)}

-----------------------------------------------------------------------------
(* The reference: what a pattern p matches, said of its suffixes and of the *)
(* suffixes of k, without an expression in between.                         *)

\* A class of p begins at i and ends before classEnd: at the next bracket that no
\* backslash hides, or with the pattern (a backslash at the very end hides what is
\* not there).
classEnd(p, i) ==
    LET end[x \in 1..(Len(p) + 2)] ==
            IF x > Len(p) \/ p[x] = CLOSE THEN x
            ELSE end[IF p[x] = ESC THEN x + 2 ELSE x + 1]
    IN end[i]

\* The byte b is in the class that p holds from i to e - 1.
inClass(p, i, e, b) ==
    LET place(x) == IF p[x] = ESC THEN x + 1 ELSE x         \* the character at x
        in[x \in 1..(e + 3)] ==
            IF x >= e THEN FALSE
            ELSE LET y == place(x) + 1
                 IN IF y + 1 < e /\ p[y] = DASH
                    THEN b \in p[place(x)]..p[place(y + 1)] \/ in[place(y + 1) + 1]
                    ELSE b = p[place(x)] \/ in[y]
    IN IF p[i] = CARET THEN ~ in[i + 1] ELSE in[i]

\* The pattern p matches k.  From the places of the i-th set on, the rest of k matches
\* the rest of p, from its i-th byte on.
Glob(p, k) ==
    LET from[i \in 1..(Len(p) + 1)] ==
            IF i > Len(p) THEN {Len(k) + 1}
            ELSE IF p[i] = STAR
            THEN {j \in 1..(Len(k) + 1) : \E x \in from[i + 1] : j <= x}
            ELSE {j \in 1..Len(k) :
                    \/ p[i] = ANY /\ j + 1 \in from[i + 1]
                    \/ p[i] = ESC /\ i < Len(p) /\ p[i + 1] = k[j] /\ j + 1 \in from[i + 2]
                    \/ /\ p[i] = OPEN
                       /\ LET e == classEnd(p, i + 1)
                          IN /\ i + 1 < e /\ e <= Len(p) + 1
                             /\ inClass(p, i + 1, e, k[j])
                             /\ j + 1 \in from[IF e > Len(p) THEN e ELSE e + 1]
                    \/ /\ p[i] \notin {ANY, ESC, OPEN}
                       /\ p[i] = k[j] /\ j + 1 \in from[i + 1]}
    IN 1 \in from[1]

\* Where the two differ on purpose or by accident: the expression's dot does not
\* match a line feed, and a letter behind a backslash in a class is an escape of
\* the expression.
EscapedLetter(p) == \E i \in 2..Len(p) : p[i - 1] = ESC /\ p[i] = 97
=============================================================================
