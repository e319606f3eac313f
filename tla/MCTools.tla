------------------------------ MODULE MCTools -------------------------------
(***************************************************************************)
(* The tools and the planners in one run: a behaviour is a run of one of   *)
(* them, the others stay as they begin.                                    *)
(***************************************************************************)
EXTENDS Tools, Plans

Init ==
  /\ ToolsInit
  /\ IF program = "none" THEN PlansInit ELSE planner = "none" /\ input = <<>>

\* A planner takes no step.
Next == ToolsNext /\ UNCHANGED plansVars

Spec == Init /\ [][Next]_<<toolsVars, plansVars>>
=============================================================================
