--------------------------- MODULE MCGuestReplay ----------------------------
(* Two guests and two trajectories, one of which has a turn more than the  *)
(* guests may run.                                                         *)
EXTENDS GuestReplay

CONSTANTS i1, i2, g1, g2, none, c1, c2, c3, c4

MCWorkflows ==
  [i \in {i1, i2} |-> IF i = i1 THEN <<c1, c2, c3>> ELSE <<c4, c1>>]

MCTags == (1 .. MaxStages) \X (1 .. MaxAttempts)
=============================================================================
