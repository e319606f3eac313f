------------------------- MODULE MCScaleExperiment --------------------------
(* Two traces; stages of one and two sessions stay within the pool, stages *)
(* of three do not.                                                        *)
EXTENDS ScaleExperiment

CONSTANTS i1, i2, none, c1, c2, c3

MCWorkflows == [i \in {i1, i2} |-> IF i = i1 THEN <<c1, c2>> ELSE <<c3>>]

MCTags == (1 .. MaxStages) \X (1 .. MaxAttempts)

MCPool == <<i1, i2>>

Within == <<1, 2, 2>>

Beyond == <<3, 3>>
=============================================================================
