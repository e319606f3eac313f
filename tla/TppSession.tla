----------------------------- MODULE TppSession -----------------------------
(***************************************************************************)
(* run_kernel_tpp_100.sh: one experiment under the kernel's own tiering.   *)
(* The script saves the host's controls, lets enable_kernel_tpp.py         *)
(* (KernelTpp) switch them on, starts the experiment and a sampler in the  *)
(* background, waits for both, and puts the controls back in its EXIT      *)
(* trap, which a signal or a failed command reaches as well.               *)
(*                                                                         *)
(* The script has no job control, so its background jobs are started with  *)
(* SIGINT ignored; Python keeps it ignored, and the experiment installs no *)
(* handler: the INT of the trap does not end it.                           *)
(***************************************************************************)
EXTENDS KernelTpp

CONSTANT MaxSignals   (* bound: signals sent to the script                 *)

ASSUME SignalsAssumption == MaxSignals \in Nat

VARIABLES
  script,       (* where the script is; "exited" is its end                *)
  saved,        (* the original_... variables                              *)
  runner,       (* the experiment: "none", "running" or "ended"            *)
  runnerPid,    (* runner_pid is set                                       *)
  sampler,      (* record_tpp_migrations.py, likewise                      *)
  samplerPid,   (* sampler_pid is set                                      *)
  pending,      (* a signal has come that bash has not acted upon          *)
  signals,      (* how many have come                                      *)
  cut           (* the restore was given up half way                       *)

jobVars == <<runner, runnerPid, sampler, samplerPid>>
signalVars == <<pending, signals>>
sessionVars == <<script, saved, jobVars, signalVars, cut>>
allVars == <<vars, sessionVars>>

SessionInit ==
  /\ Init
  /\ script = "check"
  /\ saved = control
  /\ runner = "none" /\ runnerPid = FALSE
  /\ sampler = "none" /\ samplerPid = FALSE
  /\ pending = FALSE /\ signals = 0 /\ cut = FALSE

\* The script's next command, when it can have one.
Goes(from, to) == script = from /\ ~pending /\ script' = to

-----------------------------------------------------------------------------
(* Up to the experiment.                                                   *)

\* A failed check ends the script before its traps are set.
Check ==
  /\ script = "check"
  /\ script' = IF capable THEN "enable" ELSE "exited"
  /\ saved' = control
  /\ UNCHANGED <<vars, jobVars, signalVars, cut>>

EnableEnded == pc \in {"enabled", "refused", "failed", "interrupted"}

\* enable_kernel_tpp.py, a foreground command: a signal to the script waits
\* for its end.
Enable ==
  /\ script = "enable"
  /\ Inspect \/ WriteControl \/ WriteFails \/ Verify \/ RollBack
  /\ UNCHANGED sessionVars

\* Ctrl-C reaches the foreground command and the script.
CtrlC ==
  /\ script = "enable"
  /\ signals < MaxSignals
  /\ Interrupt
  /\ pending' = TRUE /\ signals' = signals + 1
  /\ UNCHANGED <<script, saved, jobVars, cut>>

\* set -e: a failed enable ends the script.
EnableReturns ==
  /\ EnableEnded
  /\ Goes("enable", IF pc = "enabled" THEN "launch" ELSE "stop sampler")
  /\ UNCHANGED <<vars, saved, jobVars, signalVars, cut>>

-----------------------------------------------------------------------------
(* The background jobs.  Each is started first and its pid noted after it. *)

LaunchRunner ==
  /\ Goes("launch", "note runner")
  /\ runner' = "running"
  /\ UNCHANGED <<vars, saved, runnerPid, sampler, samplerPid, signalVars, cut>>

NoteRunner ==
  /\ Goes("note runner", "sample")
  /\ runnerPid' = TRUE
  /\ UNCHANGED <<vars, saved, runner, sampler, samplerPid, signalVars, cut>>

LaunchSampler ==
  /\ Goes("sample", "note sampler")
  /\ sampler' = "running"
  /\ UNCHANGED <<vars, saved, runner, runnerPid, samplerPid, signalVars, cut>>

NoteSampler ==
  /\ Goes("note sampler", "wait")
  /\ samplerPid' = TRUE
  /\ UNCHANGED <<vars, saved, runner, runnerPid, sampler, signalVars, cut>>

WaitRunner ==
  /\ Goes("wait", "drain")
  /\ runner = "ended"
  /\ runnerPid' = FALSE
  /\ UNCHANGED <<vars, saved, runner, sampler, samplerPid, signalVars, cut>>

WaitSampler ==
  /\ Goes("drain", "stop sampler")
  /\ sampler = "ended"
  /\ samplerPid' = FALSE
  /\ UNCHANGED <<vars, saved, runner, runnerPid, sampler, signalVars, cut>>

RunnerEnds ==
  /\ runner = "running"
  /\ runner' = "ended"
  /\ UNCHANGED <<vars, script, saved, runnerPid, sampler, samplerPid,
                 signalVars, cut>>

\* Mutant of SamplerSeesEnd: the sampler has no end condition.
SamplerGoesOn == FALSE

\* The sampler's loop ends when the runner's pid is gone or another process's.
SamplerSeesEnd == runner = "ended"

SamplerEnds ==
  /\ sampler = "running"
  /\ SamplerSeesEnd
  /\ sampler' = "ended"
  /\ UNCHANGED <<vars, script, saved, runner, runnerPid, samplerPid,
                 signalVars, cut>>

-----------------------------------------------------------------------------
(* Signals and the EXIT trap.                                              *)

Restoring ==
  {"stop sampler", "stop runner", "still", "demotion", "scale", "balancing"}

Signal ==
  /\ script \notin {"check", "exited"}
  /\ ~pending
  /\ signals < MaxSignals
  /\ pending' = TRUE /\ signals' = signals + 1
  /\ UNCHANGED <<vars, script, saved, jobVars, cut>>

\* exit 130 or 143, between two commands or out of a wait.
Trap ==
  /\ pending
  /\ script = "enable" => EnableEnded
  /\ script \notin Restoring \cup {"check", "exited"}
  /\ script' = "stop sampler"
  /\ pending' = FALSE
  /\ UNCHANGED <<vars, saved, jobVars, signals, cut>>

\* A signal during the EXIT trap: exit again, and the rest is not done.
TrapAgain ==
  /\ pending
  /\ script \in Restoring
  /\ script' = "exited" /\ cut' = TRUE
  /\ pending' = FALSE
  /\ UNCHANGED <<vars, saved, jobVars, signals>>

\* kill, which ends the sampler, and wait.
StopSampler ==
  /\ Goes("stop sampler", "stop runner")
  /\ sampler' = IF samplerPid THEN "ended" ELSE sampler
  /\ UNCHANGED <<vars, saved, runner, runnerPid, samplerPid, signalVars, cut>>

\* Mutant of StopRunner: the runner is sent its signal and not waited for.
LeaveRunner ==
  /\ Goes("stop runner", "still")
  /\ UNCHANGED <<vars, saved, jobVars, signalVars, cut>>

\* kill -INT, which is ignored, and wait.
StopRunner ==
  /\ Goes("stop runner", "still")
  /\ runnerPid => runner = "ended"
  /\ UNCHANGED <<vars, saved, jobVars, signalVars, cut>>

Restore(from, to, name, value) ==
  /\ Goes(from, to)
  /\ Stored(name, value)
  /\ UNCHANGED <<capable, computes, prior, pc, attempted, failures, faults,
                 saved, jobVars, signalVars, cut>>

RestoreStill == Restore("still", "demotion", "balancing", "off")

RestoreDemotion == Restore("demotion", "scale", "demotion", saved["demotion"])

\* Mutant of RestoreScale: the scale factor is left as the session set it.
KeepScale == Restore("scale", "balancing", "watermark", control["watermark"])

RestoreScale == Restore("scale", "balancing", "watermark", saved["watermark"])

RestoreBalancing ==
  Restore("balancing", "exited", "balancing", saved["balancing"])

\* set -e holds in the trap as well: a write that fails ends it.
RestoreFails ==
  /\ script \in Restoring \ {"stop sampler", "stop runner"}
  /\ Fault
  /\ script' = "exited" /\ cut' = TRUE
  /\ UNCHANGED <<capable, computes, control, prior, demote, pc, attempted,
                 failures, saved, jobVars, signalVars>>

-----------------------------------------------------------------------------
ScriptStep ==
  \/ Check \/ EnableReturns
  \/ LaunchRunner \/ NoteRunner \/ LaunchSampler \/ NoteSampler
  \/ WaitRunner \/ WaitSampler
  \/ Trap \/ TrapAgain
  \/ StopSampler \/ StopRunner
  \/ RestoreStill \/ RestoreDemotion \/ RestoreScale \/ RestoreBalancing

SessionNext ==
  \/ ScriptStep
  \/ Enable \/ CtrlC \/ Signal \/ RestoreFails
  \/ RunnerEnds \/ SamplerEnds

\* The script and the processes it waits for run; the experiment may not end.
SessionSpec ==
  /\ SessionInit /\ [][SessionNext]_allVars
  /\ WF_allVars(ScriptStep) /\ WF_allVars(Enable) /\ WF_allVars(SamplerEnds)

-----------------------------------------------------------------------------
(* Properties.                                                             *)

\* A sampler that was started and whose pid was not noted before a signal came:
\* the trap does not know it.
SamplerUnknown == sampler = "running" /\ ~samplerPid

\* However the session ends, by its result, by a failed or interrupted enable or
\* by a signal at any command, the host's controls are what they were, unless
\* the restore itself was cut short; and no sampler is left then but one the
\* trap did not know.
SessionRestores ==
  (script = "exited" /\ ~cut) =>
    /\ control = saved
    /\ sampler = "running" => SamplerUnknown

\* An experiment the script knows of always runs under the kernel tiering it is
\* meant to measure: nothing is switched back before it has ended.
RunnerKeepsTiering ==
  (runner = "running" /\ (runnerPid \/ script = "note runner")) =>
    (demote /\ \A c \in Controls : control[c] = "on")

\* Unless the experiment runs for ever the session ends, whatever comes in its
\* way: no wait of the script is for a process that does not end.
SessionEnds ==
  \/ <>[](runner = "running")
  \/ <>(script = "exited")
=============================================================================
