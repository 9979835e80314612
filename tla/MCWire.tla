-------------------------------- MODULE MCWire --------------------------------
(***************************************************************************)
(* A small instance of Wire: every pattern of up to three bytes and every   *)
(* class of up to three, one KEYS each; pairs of requests whose fields look *)
(* like the protocol; QUIT with something behind it; and requests followed  *)
(* by what is none.                                                         *)
(***************************************************************************)
EXTENDS Wire

Patterns == UNION {[1..n -> PatternBytes] : n \in 0..2}
            \cup [1..3 -> {STAR, ANY, OPEN, ESC, CLOSE, 97}]
            \cup {<<ESC, ESC, EndQuote>>, <<OPEN, 97, CLOSE, 98>>, <<ESC, STAR, STAR, 97>>}
            \cup {<<195, 169>>, <<OPEN, ESC, 100, CLOSE>>, <<OPEN, OPEN, 58, CLOSE>>,
                  <<ESC, ESC, EndQuote, ESC, ESC>>}
            \cup {<<OPEN>> \o c \o <<CLOSE>> : c \in [1..3 -> {ESC, CARET, DASH, 97, 98}]}

\* Short keys, with the bytes the patterns give a meaning to, and a line feed.
KeyNames == {<< >>, <<97, LF>>, <<LF>>, <<97, CLOSE>>, <<97, 98>>, <<98, 97>>}
            \cup {<<b>> : b \in {97, 98, ESC, STAR, DASH, CARET, CLOSE, EndQuote}}

\* KEYS, keys, an unknown command, a missing argument, an empty argument, and an
\* argument that ends a line and begins a bulk string.
Pipelined == {<<KEYS, <<STAR>>>>, <<<<107>>, << >>>>, <<<<120>>>>, <<KEYS>>}
Binary    == <<KEYS, <<CR, LF, DOLLAR, 49>>>>
Quit      == <<<<113>>, <<97>>>>

\* No fields, fields missing, lengths that are no numbers or are too large, a nil
\* string, a wrong type, a short line.
Rests == {Line(<<STAR, 48>>), Line(<<STAR, MINUS, 49>>),
          Line(<<STAR, 49>>) \o Line(<<DOLLAR, 53>>),
          Line(<<STAR, 49>>) \o Line(<<DOLLAR, 54>>),
          Line(<<STAR, 49>>) \o Line(<<DOLLAR, 57>>),
          Line(<<STAR, 50>>) \o Line(<<DOLLAR, MINUS, 49>>),
          Line(<<STAR, 97>>), Line(<<97, 97>>), <<STAR, LF>>,
          Line(<<STAR, 49>>) \o Line(<<STAR, 49>>),
          Line(<<STAR, 50>>) \o Line(<<DOLLAR, 49>>) \o <<75>>}

Session(reqs, style, rest) == [reqs |-> reqs, style |-> style, rest |-> rest]

MCSessions ==
    {Session(<<<<KEYS, p>>>>, "bulk", << >>) : p \in Patterns}
    \cup {Session(<<a, b>>, "bulk", << >>) : a, b \in Pipelined \cup {Binary}}
    \cup {Session(<<a, b>>, "line", << >>) : a, b \in Pipelined}
    \cup {Session(<<Quit, a>>, "bulk", << >>) : a \in {Quit, Binary}}
    \cup {Session(<<Quit>>, "line", Line(<<STAR, 48>>))}
    \cup {Session(<<a>>, "bulk", r) : a \in {Binary, <<KEYS>>}, r \in Rests}
=============================================================================
