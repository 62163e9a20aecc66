----------------------------- MODULE OZOwnership -----------------------------
(***************************************************************************)
(* What reference counting promises, with no counter in it.                *)
(*                                                                         *)
(* An object is free, live or dying.  Slots (local variables, instance     *)
(* variables) own objects.  A live object stays live exactly as long as    *)
(* some slot owns it; when the last owner lets go it starts dying, nobody  *)
(* can own it again, it gives up what its own slots own, and only then is  *)
(* its memory free for another object.  OZObject implements this with an   *)
(* atomic counter, a "deallocating" flag and a chain of dealloc methods.   *)
(***************************************************************************)
EXTENDS FiniteSets

CONSTANTS
  Objects,      \* every block of memory an object can live in
  Immortal,     \* statically allocated objects, never reclaimed
  Slots,        \* every place that can own an object
  SlotsOf,      \* SlotsOf[b] is the set of slots in the memory of object b
  NULL

VARIABLES
  owns,         \* owns[s] is the object slot s owns, or NULL
  status        \* "free", "live" or "dying", for each object

vars == <<owns, status>>

Owned(b, f) == \E s \in Slots : f[s] = b

Init ==
  /\ owns = [s \in Slots |-> NULL]
  /\ status = [b \in Objects |-> IF b \in Immortal THEN "live" ELSE "free"]

\* A free block becomes a live object with one owner and no possessions.
Create(b, s) ==
  /\ status[b] = "free"
  /\ owns[s] = NULL
  /\ owns' = [owns EXCEPT ![s] = b]
  /\ status' = [status EXCEPT ![b] = "live"]

\* Ownership moves: a slot lets go, or takes an object that is immortal or
\* that some slot owned already.  A live object left without owners dies.
Move ==
  /\ owns' \in [Slots -> Objects \cup {NULL}]
  /\ \A s \in Slots :
       owns'[s] \in {owns[s], NULL} \cup
                    {b \in Objects : b \in Immortal \/ Owned(b, owns)}
  /\ status' = [b \in Objects |->
                  IF /\ b \notin Immortal
                     /\ Owned(b, owns) /\ ~ Owned(b, owns')
                  THEN "dying" ELSE status[b]]

\* A dying object whose own slots own nothing gives its memory back.
Reclaim(b) ==
  /\ status[b] = "dying"
  /\ \A s \in SlotsOf[b] : owns[s] = NULL
  /\ status' = [status EXCEPT ![b] = "free"]
  /\ UNCHANGED owns

Next ==
  \/ \E b \in Objects, s \in Slots : Create(b, s)
  \/ Move
  \/ \E b \in Objects : Reclaim(b)

Spec == Init /\ [][Next]_vars
=============================================================================
