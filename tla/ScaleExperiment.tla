-------------------------- MODULE ScaleExperiment ---------------------------
(***************************************************************************)
(* The whole experiment: main's loop over the stages and sessions_for_stage *)
(* (swebench_microvm_scale_experiment.py), over the guests and the trace   *)
(* server of GuestReplay.                                                  *)
(*                                                                         *)
(* A VM's session id is its number in the stage, and the server keeps its  *)
(* sessions from stage to stage: the guests of a later stage meet the      *)
(* sessions the earlier ones left.  A stage is here what its guests do     *)
(* between admission and run_stage's verdict; how the host runs it is in   *)
(* ScaleStage.  Session numbers are 1 .. the largest stage.                *)
(***************************************************************************)
EXTENDS GuestReplay

CONSTANTS
  Stages,       (* the concurrency of each stage, args.stages              *)
  Pool          (* the shuffled list of unique traces                      *)

ASSUME StagesAssumption ==
  /\ Stages \in Seq(Nat \ {0}) /\ Len(Stages) = MaxStages
  /\ SessionIds = UNION {1 .. Stages[k] : k \in 1 .. Len(Stages)}
  /\ Pool \in Seq(Instances) /\ Pool # <<>>

VARIABLES
  loop,         (* main: "running", "summary" (written) or "raised"        *)
  results,      (* what main appended for each stage                       *)
  guarded       (* the stage's memory guard was set                        *)

experimentVars == <<loop, results, guarded>>
allVars == <<vars, experimentVars>>

Members(k) == 1 .. Stages[k]

\* Mutant of Assignments: any trace for any session.
AnyAssignment(k) == [Guests -> Instances]

\* sessions_for_stage: the first VMs replay the pool's traces in order, the
\* others traces drawn from it with replacement.
Assignments(k) ==
  {f \in [Guests -> Instances] :
     \A g \in Guests : g <= Len(Pool) => f[g] = Pool[g]}

Launch(k) ==
  /\ stage' = k
  /\ assigned' \in Assignments(k)
  /\ pc' = Booting(Members(k))
  /\ turn' = [g \in Guests |-> 1]
  /\ attempt' = [g \in Guests |-> 1]
  /\ body' = [g \in Guests |-> NoResponse]
  /\ ran' = [g \in Guests |-> <<>>]
  /\ serial' = [g \in Guests |-> {}]

ExperimentInit ==
  /\ FirstStage(Members(1), Assignments(1))
  /\ loop = "running"
  /\ results = <<>>
  /\ guarded = FALSE

\* The guests run while their stage does.
StageRuns ==
  /\ loop = "running"
  /\ GuestNext
  /\ UNCHANGED experimentVars

\* The guard: run_stage stops every VM of the stage.
GuardTrips ==
  /\ loop = "running"
  /\ ~guarded
  /\ Fault("guard")
  /\ guarded' = TRUE
  /\ pc' = [g \in Guests |-> IF pc[g] = "absent" THEN "absent" ELSE "off"]
  /\ UNCHANGED <<stage, assigned, turn, attempt, body, ran, serial,
                 serviceVars, loop, results>>

StageOver == \A g \in Members(stage) : pc[g] = "off"

Complete(g) == "REPLAY_DONE" \in serial[g]

\* run_stage's verdict: a stage that was not guarded raises unless it holds.
Validated == \A g \in Members(stage) : Complete(g)

\* run_stage raises RuntimeError, which main does not catch: the results so
\* far are not written.
StageRaises ==
  /\ loop = "running"
  /\ StageOver /\ ~guarded /\ ~Validated
  /\ loop' = "raised"
  /\ UNCHANGED <<vars, results, guarded>>

StageGuarded ==
  /\ loop = "running"
  /\ StageOver /\ guarded
  /\ results' = results \o <<"guarded", "skipped">>
  /\ loop' = "summary"
  /\ UNCHANGED <<vars, guarded>>

\* The stage's result is appended, and the next stage begins.
StageReturns ==
  /\ loop = "running"
  /\ StageOver /\ ~guarded /\ Validated
  /\ results' = Append(results, "complete")
  /\ IF stage < MaxStages
     THEN Launch(stage + 1) /\ UNCHANGED loop
     ELSE loop' = "summary" /\ UNCHANGED guestVars
  /\ UNCHANGED <<serviceVars, faultVars, guarded>>

\* Memory is above the threshold before the next stage is admitted.
StageSkipped ==
  /\ loop = "running"
  /\ StageOver /\ ~guarded /\ Validated
  /\ stage < MaxStages
  /\ Fault("guard")
  /\ results' = results \o <<"complete", "skipped">>
  /\ loop' = "summary"
  /\ UNCHANGED <<serviceVars, guestVars, guarded>>

ExperimentStep == StageRaises \/ StageGuarded \/ StageReturns

ExperimentNext == StageRuns \/ GuardTrips \/ ExperimentStep \/ StageSkipped

ExperimentFairness ==
  /\ \A g \in Guests :
       WF_allVars(loop = "running" /\ GuestStep(g) /\ UNCHANGED experimentVars)
  /\ WF_allVars(/\ loop = "running"
                /\ \E r \in requests : Serve(r)
                /\ UNCHANGED experimentVars)
  /\ WF_allVars(ExperimentStep)

ExperimentSpec ==
  ExperimentInit /\ [][ExperimentNext]_allVars /\ ExperimentFairness

-----------------------------------------------------------------------------
(* Properties.                                                             *)

\* Sessions and cached responses that an earlier stage left in the server never
\* show a guest of a later stage another trajectory than its own: what it has
\* run is a beginning of its assigned trace, all of it if it reported done.
RunsOwnTrace ==
  \A g \in Guests :
    LET trace == Workflows[assigned[g]]
    IN /\ Len(ran[g]) <= Len(trace)
       /\ ran[g] = SubSeq(trace, 1, Len(ran[g]))
       /\ Complete(g) => ran[g] = trace

StageCompleted == results' # results /\ results'[Len(results) + 1] = "complete"

\* A stage is recorded as complete only when each of its sessions ran its whole
\* trace, once, in that stage: a later stage does not count an earlier one's.
RecordsWholeStages ==
  [][StageCompleted =>
       \A g \in Members(stage) : ran[g] = Workflows[assigned[g]]]_allVars

\* With nothing going wrong, a stage runs through, also one with more sessions
\* than there are traces: "higher concurrency uses seeded repeats from that
\* pool".
EveryStageCompletes ==
  [](faults = 0) =>
    <>(loop = "summary" /\ results = [k \in 1 .. MaxStages |-> "complete"])
=============================================================================
