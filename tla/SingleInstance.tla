--------------------------- MODULE SingleInstance ---------------------------
(***************************************************************************)
(* swebench_single_instance_experiment.py: every trajectory of the server's *)
(* catalog is walked once, in a session of its own; the instance nearest   *)
(* to the catalog's means is then run in one microVM by the scale          *)
(* experiment, whose module defaults and whose argv are lent for the call. *)
(***************************************************************************)
EXTENDS Integers, Sequences, SequencesExt, FiniteSetsExt

CONSTANTS
  Listed,          \* bound: instances of the catalog
  TraceLength,     \* bound: turns of a recorded trace
  ProfileMaxTurns  \* --profile-max-turns

VARIABLES
  trace,     \* of each instance, the inference_seconds the server reports
  catalog,   \* what is still to be profiled, in the catalog's order
  turn,      \* the request of the instance at the head of the catalog
  seconds,   \* inference_seconds so far
  profiles, failures,
  chosen,    \* the selected profile, {} before the selection
  lent,      \* scale.DEFAULT_STAGES and sys.argv are the wrapper's
  stageDir,  \* what the scale experiment left under the output directory
  exit       \* "" while it runs, then why it ended

singleVars == <<trace, catalog, turn, seconds, profiles, failures, chosen, lent, stageDir, exit>>

Instance == 1 .. Listed

\* instance_ids drops what the catalog repeats.
Catalog(payload) ==
  FoldLeft(LAMBDA ids, id : IF Contains(ids, id) THEN ids ELSE Append(ids, id), <<>>, payload)

SingleInit ==
  /\ trace \in [Instance -> BoundedSeq({0, 1}, TraceLength) \ {<<>>}]
  /\ \E payload \in {<<>>, <<1, 1>> \o [k \in 1 .. Listed - 1 |-> k + 1]} :
       /\ catalog = Catalog(payload)
       /\ exit = IF payload = <<>> THEN "catalog" ELSE ""
  /\ turn = 1 /\ seconds = 0
  /\ profiles = {} /\ failures = {} /\ chosen = {}
  /\ lent = FALSE /\ stageDir = "absent"

(***************************************************************************)
(* The profile.                                                            *)
(***************************************************************************)

\* Mutant of NextInstance: the next instance's sum begins with this one's.
NextInstanceSums == catalog' = Tail(catalog) /\ turn' = 1 /\ UNCHANGED seconds

NextInstance == catalog' = Tail(catalog) /\ turn' = 1 /\ seconds' = 0

\* The head's next turn, answered by the server.
Answered ==
  LET id == Head(catalog)
      total == seconds + trace[id][turn]
  IN /\ exit = "" /\ catalog # <<>> /\ turn <= ProfileMaxTurns
     /\ IF turn = Len(trace[id])
        THEN /\ profiles' = profiles \cup {[id |-> id, turns |-> turn, seconds |-> total]}
             /\ NextInstance
        ELSE turn' = turn + 1 /\ seconds' = total /\ UNCHANGED <<profiles, catalog>>
     /\ UNCHANGED <<trace, failures, chosen, lent, stageDir, exit>>

\* A RuntimeError: the request failed or timed out, or one turn too many.
ProfileFails ==
  /\ exit = "" /\ catalog # <<>>
  /\ failures' = failures \cup {Head(catalog)}
  /\ NextInstance
  /\ UNCHANGED <<trace, profiles, chosen, lent, stageDir, exit>>

(***************************************************************************)
(* The selection: the relative distances from both means, times the        *)
(* product of the sums, which is the same for all.                         *)
(***************************************************************************)

Distance(value, sum, n) == IF n * value > sum THEN n * value - sum ELSE sum - n * value

Total(f(_)) == FoldSet(LAMBDA p, sum : f(p) + sum, 0, profiles)

Score(p) ==
  LET n == Cardinality(profiles)
      turns == Total(LAMBDA q : q.turns)
      spent == Total(LAMBDA q : q.seconds)
      scale == IF spent = 0 THEN 1 ELSE spent   \* mean_duration or 1.0
  IN Distance(p.turns, turns, n) * scale + Distance(p.seconds, spent, n) * turns

Best(p) == \A q \in profiles : Score(p) < Score(q) \/ (Score(p) = Score(q) /\ p.id <= q.id)

\* main's refusals after the loop.
Refused(midpoint, atTurn, target) ==
  CASE profiles = {}                    -> "profile"
    [] profiles # {} /\ midpoint /\ atTurn -> "migration"
    [] profiles # {} /\ midpoint # atTurn /\ ~target -> "migration"
    [] OTHER -> ""

\* Up to the call of scale.main.  `midpoint`, `atTurn` and `target` say which
\* migration options were given, `bound` whether a compute or a memory node
\* was, `exists` whether the output directory is there.
Choose ==
  /\ exit = "" /\ catalog = <<>> /\ chosen = {}
  /\ \E midpoint, atTurn, target, bound, exists \in BOOLEAN :
       LET early == Refused(midpoint, atTurn, target)
           refused == IF early = "" /\ exists THEN "output" ELSE early
       IN /\ exit' = refused
          /\ chosen' = IF profiles = {} THEN {} ELSE {p \in profiles : Best(p)}
          /\ lent' = (refused = "")
          \* What scale.main's parser does not know it refuses.
          /\ stageDir' = IF refused = "" /\ (midpoint \/ atTurn \/ target \/ bound)
                         THEN "unknown option" ELSE stageDir
  /\ UNCHANGED <<trace, catalog, turn, seconds, profiles, failures>>

(***************************************************************************)
(* The run.                                                                *)
(***************************************************************************)

\* scale.main's end, by a return or an exception: the defaults come back
\* first.  It returns without a stage directory when memory is short.
Returns(left) ==
  /\ lent /\ lent' = FALSE
  /\ stageDir' = left
  /\ exit' = IF left = "complete" THEN "reported" ELSE "no timing files"
  /\ UNCHANGED <<trace, catalog, turn, seconds, profiles, failures, chosen>>

ScaleReturns == stageDir = "absent" /\ \E left \in {"complete", "skipped"} : Returns(left)

ScaleRaises ==
  /\ lent /\ lent' = FALSE
  /\ exit' = IF stageDir = "unknown option" THEN "argparse" ELSE "scale"
  /\ UNCHANGED <<trace, catalog, turn, seconds, profiles, failures, chosen, stageDir>>

SingleNext == Answered \/ ProfileFails \/ Choose \/ ScaleReturns \/ ScaleRaises

(***************************************************************************)
(* Properties.                                                             *)
(***************************************************************************)

Apart(p, mean) == Distance(p, mean, Cardinality(profiles))

(* "selects the instance closest to the catalog means for both turn count   *)
(* and the sum of server-reported inference durations" (:7-8): exactly one *)
(* instance is run; no other that was profiled is nearer in one and as     *)
(* near in the other; its profile is its whole recorded trace; and each    *)
(* instance of the catalog was profiled, or failed, once.                  *)
RepresentativeIsRun ==
  /\ chosen # {} =>
       /\ Cardinality(chosen) = 1
       /\ \A p \in chosen, q \in profiles :
            LET turns == Total(LAMBDA r : r.turns)
                spent == Total(LAMBDA r : r.seconds)
            IN /\ Apart(q.turns, turns) < Apart(p.turns, turns) =>
                    Apart(q.seconds, spent) > Apart(p.seconds, spent)
               /\ Apart(q.seconds, spent) < Apart(p.seconds, spent) =>
                    Apart(q.turns, turns) > Apart(p.turns, turns)
       /\ {p.id : p \in profiles} \cup failures = Instance
  /\ {p.id : p \in profiles} \cap failures = {}
  /\ \A p \in profiles :
       p.turns = Len(trace[p.id]) /\ p.seconds = FoldSeq(LAMBDA s, sum : s + sum, 0, trace[p.id])
  /\ exit # "" => ~lent
=============================================================================
