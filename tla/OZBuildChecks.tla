------------------------------ MODULE OZBuildChecks ------------------------------
(***************************************************************************)
(* The build runs one of the two tools; they share nothing.                *)
(***************************************************************************)
EXTENDS OZCycles, OZPools

VARIABLE tool

vars == <<tool, cyclesVars, poolsVars>>

\* The tool that does not run has nothing to do.
NoCode == code = Nobody /\ pass = "idle" /\ queue = {} /\ allFiles = {} /\ unread = <<>>
          /\ superOf = <<>> /\ strong = <<>> /\ graph = <<>> /\ color = <<>>
          /\ path = <<>> /\ left = <<>> /\ cycles = {}
NoBody == body = <<>> /\ counts = <<>> /\ stacks = <<>> /\ taken = <<>>

Init ==
  \/ tool = "cycles" /\ CyclesInit /\ NoBody
  \/ tool = "pools" /\ PoolsInit /\ NoCode

Next ==
  /\ UNCHANGED tool
  /\ \/ tool = "cycles" /\ CyclesNext /\ UNCHANGED poolsVars
     \/ tool = "pools" /\ PoolsNext /\ UNCHANGED cyclesVars

Spec == Init /\ [][Next]_vars /\ WF_vars(Next)
=============================================================================
