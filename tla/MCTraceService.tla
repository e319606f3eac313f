--------------------------- MODULE MCTraceService ---------------------------
(* A small instance of TraceService: a two-turn and a one-turn trajectory, *)
(* and an instance id the corpus does not have.                            *)
EXTENDS TraceService, TLC

CONSTANTS i1, i2, x1, none, s1, s2, t1, t2, c1, c2, c3

MCWorkflows == [i \in {i1, i2} |-> IF i = i1 THEN <<c1, c2>> ELSE <<c3>>]

\* Sessions and exchange tags are only ever compared.
MCSymmetry == Permutations({s1, s2}) \cup Permutations({t1, t2})
=============================================================================
