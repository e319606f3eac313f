----------------------------- MODULE ScaleStage -----------------------------
(***************************************************************************)
(* One stage of the scale experiment as the host runs it: run_stage, the   *)
(* VM objects it starts and stops, admit_staggered, and the host monitor   *)
(* thread that sets the memory guard                                       *)
(* (swebench_microvm_scale_experiment.py).                                 *)
(*                                                                         *)
(* Main's steps interleave with the launcher threads, the host monitor and *)
(* the virtual machines.  What a guest does is in GuestReplay; here it is  *)
(* only what its serial log says.  Samples, run-plan.json and the result's *)
(* measurements are left out.  What can go wrong, once per kind:           *)
(*   "setup"      a cgroup or the network cannot be set up, or Ctrl-C then *)
(*   "thread"     a launcher or monitor thread cannot be started           *)
(*   "start"      VM.start raises, before or after the process exists      *)
(*   "crash"      a virtual machine dies                                   *)
(*   "stubborn"   a process outlives SIGTERM by ten seconds                *)
(*   "slow"       the host monitor outlives the two seconds of its join    *)
(*   "sample"     sampling a VM in the finally clause raises               *)
(*   "interrupt"  Ctrl-C in the main thread, once                          *)
(***************************************************************************)
EXTENDS Naturals, FiniteSets

CONSTANTS
  N,           (* the stage's concurrency                                  *)
  FaultKinds,  (* the kinds of fault this instance may meet                *)
  MaxFaults    (* bound: how many of them                                  *)

ASSUME StageAssumption == N \in Nat \ {0} /\ MaxFaults \in Nat

VMs == 1 .. N

VARIABLES
  staggered,   (* an admission schedule is given                           *)
  main,        (* where run_stage is                                       *)
  next,        (* the VM main's current loop is at                         *)
  launcher,    (* the simultaneous launcher threads                        *)
  proc,        (* each VM's process; "dying" is killed but not reaped      *)
  log,         (* what each serial log says                                *)
  cgroup,      (* the VMs whose cgroup exists                              *)
  network,     (* the stage network                                        *)
  errors,      (* launch_errors: the VMs whose start raised                *)
  guard,       (* oom_guard                                                *)
  reason,      (* guard_reason is set                                      *)
  monitor,     (* the host monitor thread                                  *)
  stop,        (* the event that ends the monitors                         *)
  raising,     (* an exception is on its way through the finally clause    *)
  report,      (* the guard fields of the result                           *)
  late,        (* VMs whose process was created with the guard set         *)
  met          (* the faults met so far                                    *)

hostVars == <<cgroup, network, stop, raising, report>>
monitorVars == <<guard, reason, monitor>>
vmVars == <<proc, log>>
vars == <<staggered, main, next, launcher, vmVars, errors, hostVars,
          monitorVars, late, met>>

Init ==
  /\ staggered \in BOOLEAN
  /\ main = "prepare" /\ next = 1
  /\ launcher = [v \in VMs |-> "idle"]
  /\ proc = [v \in VMs |-> "none"]
  /\ log = [v \in VMs |-> "empty"]
  /\ cgroup = {} /\ network = "down" /\ errors = {}
  /\ guard = FALSE /\ reason = FALSE /\ monitor = "off" /\ stop = FALSE
  /\ raising = FALSE /\ report = [guard |-> FALSE, reason |-> FALSE]
  /\ late = {} /\ met = {}

Fault(kind) ==
  /\ kind \in FaultKinds \ met
  /\ Cardinality(met) < MaxFaults
  /\ met' = met \cup {kind}

\* The loop moves to its next VM, or main to what follows the loop.
Advance(after) ==
  IF next = N THEN main' = after /\ next' = 1
  ELSE main' = main /\ next' = next + 1

\* An exception leaves the try block.
Escape == main' = "cleanup" /\ next' = 1 /\ raising' = TRUE

-----------------------------------------------------------------------------
(* Before the try block.                                                   *)

PrepareCgroup ==
  /\ main = "prepare"
  /\ cgroup' = cgroup \cup {next}
  /\ Advance("network")
  /\ UNCHANGED <<staggered, launcher, vmVars, errors, network, stop, raising,
                 report, monitorVars, late, met>>

\* Nothing is undone: the cgroups made so far stay.  A network that fails
\* half way is closed again (see StageNetwork).
SetupFails ==
  /\ main \in {"prepare", "network"}
  /\ Fault("setup")
  /\ main' = "raised"
  /\ UNCHANGED <<staggered, next, launcher, vmVars, errors, hostVars,
                 monitorVars, late>>

\* The network is up and the try block not yet reached: a monitor thread that
\* cannot be started, or Ctrl-C, leaves the network.
MonitorsFail ==
  /\ main = "network"
  /\ Fault("thread") \/ Fault("interrupt")
  /\ network' = "up"
  /\ monitor' \in {"off", "on"}
  /\ main' = "cut"
  /\ UNCHANGED <<staggered, next, launcher, vmVars, errors, cgroup, stop,
                 raising, report, guard, reason, late>>

SetupNetwork ==
  /\ main = "network"
  /\ network' = "up"
  /\ monitor' = "on"
  /\ main' = IF staggered THEN "admit" ELSE "spawn"
  /\ UNCHANGED <<staggered, next, launcher, vmVars, errors, cgroup, stop,
                 raising, report, guard, reason, late, met>>

-----------------------------------------------------------------------------
(* Launching.                                                              *)

\* VM.start: the process is created, and then recorded and moved into its
\* cgroup; either part may raise, and launch keeps the exception.
Popen(v) ==
  /\ proc' = [proc EXCEPT ![v] = "running"]
  /\ late' = IF guard THEN late \cup {v} ELSE late

Start(v) ==
  \/ Popen(v) /\ UNCHANGED <<errors, met>>
  \/ Popen(v) /\ Fault("start") /\ errors' = errors \cup {v}
  \/ Fault("start") /\ errors' = errors \cup {v} /\ UNCHANGED <<proc, late>>

SpawnLauncher ==
  /\ main = "spawn"
  /\ launcher' = [launcher EXCEPT ![next] = "barrier"]
  /\ Advance("join")
  /\ UNCHANGED <<staggered, vmVars, errors, hostVars, monitorVars, late, met>>

SpawnFails ==
  /\ main = "spawn"
  /\ Fault("thread")
  /\ Escape
  /\ UNCHANGED <<staggered, launcher, vmVars, errors, cgroup, network, stop,
                 report, monitorVars, late>>

\* simultaneous_launch: nobody passes the barrier before everybody is there.
Launch(v) ==
  /\ launcher[v] = "barrier"
  /\ \A w \in VMs : launcher[w] # "idle"
  /\ Start(v)
  /\ launcher' = [launcher EXCEPT ![v] = "ended"]
  /\ UNCHANGED <<staggered, main, next, log, hostVars, monitorVars>>

JoinLaunchers ==
  /\ main = "join"
  /\ \A v \in VMs : launcher[v] = "ended"
  /\ main' = "check"
  /\ UNCHANGED <<staggered, next, launcher, vmVars, errors, hostVars,
                 monitorVars, late, met>>

\* Mutant of AdmitNext: the guard is looked at once, before the first launch.
AdmitUnguarded ==
  /\ main = "admit"
  /\ main' = IF guard /\ next = 1 THEN "check" ELSE "start"
  /\ UNCHANGED <<staggered, next, launcher, vmVars, errors, hostVars,
                 monitorVars, late, met>>

\* admit_staggered: the guard is looked at before each launch.
AdmitNext ==
  /\ main = "admit"
  /\ main' = IF guard THEN "check" ELSE "start"
  /\ UNCHANGED <<staggered, next, launcher, vmVars, errors, hostVars,
                 monitorVars, late, met>>

AdmitStart ==
  /\ main = "start"
  /\ Start(next)
  /\ IF errors' # {} THEN Escape
     ELSE main' = "started" /\ UNCHANGED <<next, raising>>
  /\ UNCHANGED <<staggered, launcher, log, cgroup, network, stop, report,
                 monitorVars>>

\* A VM that is already gone after its launch ends the stage.
AdmitDone ==
  /\ main = "started"
  /\ IF proc[next] = "exited" THEN Escape
     ELSE /\ IF next = N THEN main' = "check" /\ next' = 1
             ELSE main' = "admit" /\ next' = next + 1
          /\ UNCHANGED raising
  /\ UNCHANGED <<staggered, launcher, vmVars, errors, cgroup, network, stop,
                 report, monitorVars, late, met>>

CheckErrors ==
  /\ main = "check"
  /\ IF errors # {} THEN Escape
     ELSE main' = "wait" /\ next' = 1 /\ UNCHANGED raising
  /\ UNCHANGED <<staggered, launcher, vmVars, errors, cgroup, network, stop,
                 report, monitorVars, late, met>>

-----------------------------------------------------------------------------
(* Waiting, and the verdict on the stage.                                  *)

Launched == {v \in VMs : proc[v] # "none"}

\* Mutant of Done: a VM counts as done when its log says so.
DoneByLog(v) == log[v] = "done"

\* VM.done: the process was polled and is gone.
Done(v) == proc[v] = "exited"

AllDone ==
  /\ main = "wait"
  /\ \A v \in Launched : Done(v)
  /\ main' = "validate"
  /\ UNCHANGED <<staggered, next, launcher, vmVars, errors, hostVars,
                 monitorVars, late, met>>

\* Mutant of SeeGuard: the wait loop never looks at the guard.
IgnoreGuard == FALSE

SeeGuard ==
  /\ main = "wait"
  /\ \E v \in Launched : ~Done(v)
  /\ guard
  /\ main' = "evict"
  /\ UNCHANGED <<staggered, next, launcher, vmVars, errors, hostVars,
                 monitorVars, late, met>>

\* VM.stop: SIGTERM, ten seconds, SIGKILL, which is not waited for; removing
\* the cgroup fails while a process is in it, and that is ignored.
Stop(v) ==
  \/ /\ proc[v] \in {"running", "dying"}
     /\ Fault("stubborn")
     /\ proc' = [proc EXCEPT ![v] = "dying"]
     /\ UNCHANGED cgroup
  \/ /\ proc' = [proc EXCEPT ![v] = IF @ = "none" THEN @ ELSE "exited"]
     /\ cgroup' = cgroup \ {v}
     /\ UNCHANGED met

Evict ==
  /\ main = "evict"
  /\ IF next \in Launched /\ ~Done(next) THEN Stop(next)
     ELSE UNCHANGED <<proc, cgroup, met>>
  /\ Advance("validate")
  /\ UNCHANGED <<staggered, launcher, log, errors, network, stop, raising,
                 report, monitorVars, late>>

\* Mutant of Valid: a guest that got its environment is taken for complete.
ReadyIsValid == \A v \in Launched : log[v] \in {"ready", "done"}

\* guest_ready, no replay_error, and replay_complete.
Valid == \A v \in Launched : log[v] = "done"

Validate ==
  /\ main = "validate"
  /\ main' = "cleanup"
  /\ raising' = (~guard /\ ~Valid)
  /\ UNCHANGED <<staggered, next, launcher, vmVars, errors, cgroup, network,
                 stop, report, monitorVars, late, met>>

\* Ctrl-C leaves the try block.
Interrupt ==
  /\ main \in {"spawn", "join", "admit", "started", "check", "wait", "evict",
               "validate"}
  /\ Fault("interrupt")
  /\ Escape
  /\ UNCHANGED <<staggered, launcher, vmVars, errors, cgroup, network, stop,
                 report, monitorVars, late>>

-----------------------------------------------------------------------------
(* The finally clause and the result.                                      *)

StopMonitors ==
  /\ main = "cleanup"
  /\ stop' = TRUE
  /\ main' = "quiesce" /\ next' = 1
  /\ UNCHANGED <<staggered, launcher, vmVars, errors, cgroup, network, raising,
                 report, monitorVars, late, met>>

JoinMonitor ==
  /\ main = "quiesce"
  /\ \/ monitor = "off" /\ UNCHANGED met
     \/ monitor # "off" /\ Fault("slow")
  /\ main' = "sweep"
  /\ UNCHANGED <<staggered, next, launcher, vmVars, errors, hostVars,
                 monitorVars, late>>

\* Mutant of Sweep: only VMs that passed the launch are stopped.
SweepLaunched ==
  /\ main = "sweep"
  /\ IF next \in errors THEN UNCHANGED <<proc, cgroup, met>> ELSE Stop(next)
  /\ Advance("close")
  /\ UNCHANGED <<staggered, launcher, log, errors, network, stop, raising,
                 report, monitorVars, late>>

\* Every VM is stopped, launched or not.
Sweep ==
  /\ main = "sweep"
  /\ Stop(next)
  /\ Advance("close")
  /\ UNCHANGED <<staggered, launcher, log, errors, network, stop, raising,
                 report, monitorVars, late>>

\* The finally clause itself is left: pss_bytes reads a process that is going
\* away and raises, or Ctrl-C comes in one of its waits.  The VMs from there on
\* are not stopped, and the network is not closed.
SweepFails ==
  /\ \/ main = "sweep" /\ Fault("sample")
     \/ main \in {"cleanup", "quiesce", "sweep", "close"} /\ Fault("interrupt")
  /\ main' = "cut"
  /\ UNCHANGED <<staggered, next, launcher, vmVars, errors, hostVars,
                 monitorVars, late>>

CloseNetwork ==
  /\ main = "close"
  /\ network' = "down"
  /\ main' = IF raising THEN "raised" ELSE "report"
  /\ UNCHANGED <<staggered, next, launcher, vmVars, errors, cgroup, stop,
                 raising, report, monitorVars, late, met>>

\* The result reads the guard once more.
Report ==
  /\ main = "report"
  /\ report' = [guard |-> guard, reason |-> reason]
  /\ main' = "returned"
  /\ UNCHANGED <<staggered, next, launcher, vmVars, errors, cgroup, network,
                 stop, raising, monitorVars, late, met>>

-----------------------------------------------------------------------------
(* The host monitor and the virtual machines.                              *)

\* The flag is set first and the reason after it.
TripGuard ==
  /\ monitor = "on"
  /\ ~guard
  /\ guard' = TRUE
  /\ monitor' = "tripped"
  /\ UNCHANGED <<staggered, main, next, launcher, vmVars, errors, hostVars,
                 reason, late, met>>

GiveReason ==
  /\ monitor = "tripped"
  /\ reason' = TRUE
  /\ monitor' = "on"
  /\ UNCHANGED <<staggered, main, next, launcher, vmVars, errors, hostVars,
                 guard, late, met>>

MonitorEnds ==
  /\ monitor = "on"
  /\ stop
  /\ monitor' = "off"
  /\ UNCHANGED <<staggered, main, next, launcher, vmVars, errors, hostVars,
                 guard, reason, late, met>>

SerialSays(v, text) ==
  /\ proc[v] = "running"
  /\ log' = [log EXCEPT ![v] = text]
  /\ UNCHANGED <<staggered, main, next, launcher, proc, errors, hostVars,
                 monitorVars, late, met>>

GuestReady(v) == log[v] = "empty" /\ SerialSays(v, "ready")

GuestDone(v) == log[v] = "ready" /\ SerialSays(v, "done")

GuestFails(v) == log[v] \in {"empty", "ready"} /\ SerialSays(v, "failed")

Exit(v) ==
  /\ proc' = [proc EXCEPT ![v] = "exited"]
  /\ UNCHANGED <<staggered, main, next, launcher, log, errors, hostVars,
                 monitorVars, late>>

PowerOff(v) ==
  proc[v] = "running" /\ log[v] \in {"done", "failed"} /\ Exit(v) /\ UNCHANGED met

Crash(v) == proc[v] = "running" /\ Fault("crash") /\ Exit(v)

Reaped(v) == proc[v] = "dying" /\ Exit(v) /\ UNCHANGED met

-----------------------------------------------------------------------------
MainStep ==
  \/ PrepareCgroup \/ SetupNetwork
  \/ SpawnLauncher \/ JoinLaunchers
  \/ AdmitNext \/ AdmitStart \/ AdmitDone \/ CheckErrors
  \/ AllDone \/ SeeGuard \/ Evict \/ Validate
  \/ StopMonitors \/ JoinMonitor \/ Sweep \/ CloseNetwork \/ Report

MainFault == SetupFails \/ MonitorsFail \/ SpawnFails \/ Interrupt \/ SweepFails

MonitorStep == GiveReason \/ MonitorEnds

GuestStep(v) ==
  \/ GuestReady(v) \/ GuestDone(v) \/ GuestFails(v) \/ PowerOff(v)

Next ==
  \/ MainStep
  \/ MainFault
  \/ MonitorStep
  \/ TripGuard
  \/ \E v \in VMs : Launch(v) \/ GuestStep(v) \/ Crash(v) \/ Reaped(v)

\* The host's threads run; nothing is assumed of the guests.
Fairness ==
  /\ WF_vars(MainStep)
  /\ WF_vars(MonitorStep)
  /\ \A v \in VMs : WF_vars(Launch(v)) /\ WF_vars(Reaped(v))

Spec == Init /\ [][Next]_vars /\ Fairness

-----------------------------------------------------------------------------
(* Properties.                                                             *)

Ended == main \in {"returned", "raised", "cut"}

\* The ways in which the finally clause is known not to see every process: it is
\* not reached or does not finish, or launcher threads are still running when it
\* sweeps.
SweepUndone == main = "cut" \/ ("interrupt" \in met /\ ~staggered)

\* However a stage ends, by its result, by the guard, by a launch that failed
\* half way or by a dead guest, no VM runs on and its network is gone; a cgroup
\* is left only by a setup that failed or a process that had to be killed.
NothingOutlivesStage ==
  (Ended /\ ~SweepUndone) =>
    /\ \A v \in VMs : proc[v] # "running"
    /\ network = "down"
    /\ cgroup # {} => met \cap {"setup", "stubborn"} # {}

\* A result either counts every session of the stage, each launched and each
\* done with its replay, or reports the guard and says why, although the
\* monitor sets the flag before the reason and main may be past its wait.
ResultIsComplete ==
  main = "returned" =>
    IF report.guard THEN report.reason \/ "slow" \in met
                    ELSE \A v \in VMs : log[v] = "done"

\* Once the guard is set, staggered admission creates at most one more VM: the
\* one whose launch had already passed the check.
GuardStopsAdmission == staggered => Cardinality(late) <= 1

\* The guard empties the stage even when guests hang: nothing but the host's own
\* threads is needed for that.
GuardEmptiesStage ==
  guard ~> (SweepUndone \/ \A v \in VMs : proc[v] \notin {"running", "dying"})

\* Unless a guest runs for ever, the stage ends: no loop and no join of
\* run_stage waits for something that does not come.
StageEnds ==
  \/ \E v \in VMs : <>[](proc[v] = "running")
  \/ <>Ended
=============================================================================
