----------------------------- MODULE MCOZFoundation -----------------------------
EXTENDS OZFoundation

CONSTANTS e1, e2, l1, l2, a, b, c

Literal(kind, size, elems, text, looped) ==
  [kind |-> kind, size |-> size, elems |-> elems, text |-> text, looped |-> looped]

\* An array and a dictionary to loop over, one place in the text that is evaluated
\* twice, arrays of one size, and arrays of three sizes, whose cells may come to lie
\* so that a literal does not fit.
MCPrograms ==
  {[s \in {a} |-> Literal("array", 2, Elems, a, TRUE)],
   [s \in {a} |-> Literal("dictionary", 4, Elems, a, TRUE)],
   [s \in {a, b} |-> Literal("array", 2, {e1}, a, FALSE)],
   [s \in {a, b, c} |-> Literal("array", 1, {e1}, s, FALSE)],
   [s \in {a, b, c} |->
      Literal("array", IF s = a THEN 1 ELSE IF s = b THEN 2 ELSE 3, {e1}, s, FALSE)]}

MCStrings == {<<>>, <<"p">>, <<"q", "p">>, <<"p", "p", "q">>}

\* A few more floats than the rules allow, and a format with no precision.
MCFloats == -1060..1060
MCPrecisions == -1..4
=============================================================================
