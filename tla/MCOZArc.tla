------------------------------- MODULE MCOZArc -------------------------------
(***************************************************************************)
(* Small instances of OZArc: one held object, two fresh ones and one lock. *)
(***************************************************************************)
EXTENDS OZArc, TLC

CONSTANTS h1, o1, o2, l1, x, y

MCSymmetry == Permutations({o1, o2}) \cup Permutations({x, y})
=============================================================================
