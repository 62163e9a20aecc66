------------------------------ MODULE MCOZObject ------------------------------
(***************************************************************************)
(* Small instances of OZObject: a class Base with an ivar, a subclass Sub  *)
(* of it with another one, and a class Leaf, whose instances are what the  *)
(* ivars hold.                                                             *)
(***************************************************************************)
EXTENDS OZObject, TLC

CONSTANTS t1, t2, s1, l1, h1, k1, n1, n2, n3, OZObj, Base, Sub, Leaf, Node

MCClasses   == {OZObj, Base, Sub, Leaf}
MCSuper     == OZObj :> NULL @@ Base :> OZObj @@ Sub :> Base @@ Leaf :> OZObj
MCAncestors == OZObj :> {} @@ Base :> {OZObj} @@ Sub :> {Base, OZObj}
               @@ Leaf :> {OZObj}
MCIvars     == {"child", "peer"}
MCDeclares  == OZObj :> {} @@ Base :> {"child"} @@ Sub :> {"peer"} @@ Leaf :> {}
MCIvarClass == [i \in MCIvars |-> Leaf]
MCClassOf   == [b \in Blocks |-> IF b = s1 THEN Sub ELSE Leaf]
MCPoolCount == [c \in MCClasses |-> 1]

\* A class whose instances hold each other: deallocs nest three deep.
NodeClasses   == {OZObj, Node}
NodeSuper     == OZObj :> NULL @@ Node :> OZObj
NodeAncestors == OZObj :> {} @@ Node :> {OZObj}
NodeIvars     == {"next"}
NodeDeclares  == OZObj :> {} @@ Node :> {"next"}
NodeIvarClass == [i \in NodeIvars |-> Node]
NodeClassOf   == [b \in Blocks |-> Node]
NodePoolCount == [c \in NodeClasses |-> 3]
=============================================================================
