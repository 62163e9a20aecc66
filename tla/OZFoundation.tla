------------------------------ MODULE OZFoundation ------------------------------
(***************************************************************************)
(* A program uses collections, a mutable string or numbers, or logs; they  *)
(* share nothing.                                                          *)
(***************************************************************************)
EXTENDS OZCollections, OZMutableString, OZLog

VARIABLE uses

vars == <<uses, collectionVars, stringVars, numberVars, logVars>>

Init ==
  /\ CollectionInit /\ StringInit /\ NumberInit /\ LogInit
  /\ uses \in {"collections", "string", "numbers", "log"}
  \* Only collections depend on the program's text and the platform.
  /\ uses = "collections" \/ <<platform, program>> = CHOOSE x \in Platforms \X Programs : TRUE

Next ==
  /\ UNCHANGED uses
  /\ \/ uses = "collections" /\ CollectionNext /\ UNCHANGED <<stringVars, numberVars, logVars>>
     \/ uses = "string" /\ StringNext /\ UNCHANGED <<collectionVars, numberVars, logVars>>
     \/ uses = "numbers" /\ NumberNext /\ UNCHANGED <<collectionVars, stringVars, logVars>>
     \/ uses = "log" /\ LogNext /\ UNCHANGED <<collectionVars, stringVars, numberVars>>

Spec == Init /\ [][Next]_vars

FairSpec == Spec /\ CollectionFairness /\ StringFairness

\* Positions, lengths, capacities, mantissas and shifts keep to their widths.
TypeOK == CollectionTypeOK /\ StringTypeOK /\ NumberTypeOK
=============================================================================
