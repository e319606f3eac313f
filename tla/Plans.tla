------------------------------- MODULE Plans --------------------------------
(***************************************************************************)
(* The programs that only compute: planners, readers of recorded traces,   *)
(* lists of CPUs and the critical path.  They have an input and a result   *)
(* and take no step that another program could see: each of their inputs   *)
(* is an initial state.                                                    *)
(***************************************************************************)
EXTENDS Naturals, FiniteSets

CONSTANTS
  SessionIds, TurnIds, MaxStart, MaxLines, Scale, MaxPlanned,          \* LaunchSchedule
  Instances, Durations, Actives, MaxTurns, MaxPrompts, MinWait, Quarters, MaxLeast,
                                                                       \* PromptPlan
  UserTurns, MaxEvents, MaxSpans,                                      \* TraceSteps
  TraceIds, MaxMessages, MaxTimings, MaxCalls,                         \* Trajectories
  Cpus,                                                                \* CpuSets
  PathSpans, PathTime                                                  \* CriticalPath

\* What the parsers demand of their arguments, that sessions, turns and CPUs are
\* known by numbers, finitely many of them, and that a bound is a number.
ASSUME PlansAssumption ==
  /\ SessionIds \in SUBSET Nat /\ IsFiniteSet(SessionIds)
  /\ TurnIds \in SUBSET Nat /\ IsFiniteSet(TurnIds)
  /\ MaxStart \in Nat /\ MaxLines \in Nat
  /\ MaxPlanned \in Nat \ {0} /\ Scale \in Nat
  /\ UserTurns \in Nat /\ MaxEvents \in Nat /\ MaxSpans \in Nat
  /\ MaxMessages \in Nat /\ MaxTimings \in Nat /\ MaxCalls \in Nat
  /\ Cpus \in SUBSET Nat /\ IsFiniteSet(Cpus)
  /\ PathSpans \in Nat /\ PathTime \in Nat

VARIABLES planner, input

Launch == INSTANCE LaunchSchedule
Prompts == INSTANCE PromptPlan
Steps == INSTANCE TraceSteps
Files == INSTANCE Trajectories
Cpu == INSTANCE CpuSets
Path == INSTANCE CriticalPath WITH MaxSpans <- PathSpans, MaxTime <- PathTime

plansVars == <<planner, input>>

PlansInit ==
  \/ planner = "azure" /\ Launch!ScheduleInit
  \/ planner = "batches" /\ Launch!BatchInit
  \/ planner = "prompts" /\ Prompts!PromptInit
  \/ planner = "steps" /\ Steps!TraceInit
  \/ planner = "files" /\ Files!TrajectoryInit
  \/ planner = "cpus" /\ Cpu!CpuInit
  \/ planner = "path" /\ Path!SpansInit
  \/ planner = "none" /\ input = <<>>

PlansNext == UNCHANGED plansVars

PlansSpec == PlansInit /\ [][PlansNext]_plansVars

(***************************************************************************)
(* Properties.                                                             *)
(***************************************************************************)

\* What is computed for others to use can be used.  The experiment accepts what
\* build_azure_launch_schedule.py plans for it, and not what
\* swebench_verified_microvm_plan.py plans, whose batches are those asked for;
\* the lists of CPUs that it formats are read back by every script; and nothing
\* longer could replace the chain of steps that critical_path.py finds.
ResultsAreUsable ==
  /\ planner = "azure" => Launch!ScheduleAccepted
  /\ planner = "batches" => Launch!BatchesInOrder
  /\ planner = "cpus" => Cpu!ListsRoundTrip
  /\ planner = "path" => Path!PathIsLongest

\* What is taken from a recorded trace is what was recorded, to all who read it:
\* the gaps of a schedule and the sessions of several prompts are those
\* observed, the steps that replay_openhands_trace.py does are those that node0
\* waits for, and the server and the earlier microVM experiment take the same
\* commands from a trajectory.
TracesReadAlike ==
  /\ planner = "azure" => Launch!GapsObserved
  /\ planner = "prompts" => Prompts!PlanKeepsDuration
  /\ planner = "steps" => Steps!StepsAwaited
  /\ planner = "files" => Files!ReadersAgree
=============================================================================
