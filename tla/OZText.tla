--------------------------------- MODULE OZText ---------------------------------
(***************************************************************************)
(* What a mutable string promises: a text that is created, appended to,    *)
(* replaced and destroyed, each at once or, without memory, not at all.    *)
(***************************************************************************)
EXTENDS Sequences

CONSTANTS
  Strings,  \* the texts that a program has
  NoText

VARIABLE text

TextInit == text = NoText

Create  == text = NoText /\ text' \in Strings \cup {<<>>}
Extend == text # NoText /\ \E s \in Strings : text' = text \o s
Replace == text # NoText /\ text' \in Strings \cup {<<>>}
Destroy == text # NoText /\ text' = NoText

TextSpec == TextInit /\ [][Create \/ Extend \/ Replace \/ Destroy]_text
=============================================================================
