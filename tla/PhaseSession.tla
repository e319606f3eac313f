---------------------------- MODULE PhaseSession ----------------------------
(***************************************************************************)
(* run_phase_priority_100.sh and run_phase_priority_proactive_100.sh: the  *)
(* host's own page migration is switched off, a tiering controller and the *)
(* experiment run, and traps restore the host.  The first script traps     *)
(* SIGTERM without exiting, the second one exits and its exit trap         *)
(* restores.  Any number of SIGTERMs may come.                             *)
(***************************************************************************)

VARIABLES
  variant,        (* "priority" or "proactive"                             *)
  line,           (* the command that the script is at                     *)
  balancing,      (* kernel.numa_balancing                                 *)
  demotion,       (* demotion_enabled                                      *)
  controller,     (* microvm_phase_lru_tiering(_proactive).py              *)
  controllerPid,  (* controller_pid is set                                 *)
  experiment,     (* swebench_microvm_scale_experiment.py                  *)
  recorder,       (* record_tpp_migrations.py                              *)
  recorderPid,    (* sampler_pid is set                                    *)
  pending,        (* a SIGTERM has come that bash has not acted upon       *)
  taken,          (* a trap has been run for one                           *)
  resume,         (* where the script goes on when a trap is done          *)
  cut             (* the restore was given up half way                     *)

settings == <<balancing, demotion>>
children == <<controller, controllerPid, experiment, recorder, recorderPid>>
signals == <<pending, taken>>
phaseVars == <<variant, line, settings, children, signals, resume, cut>>

PhaseInit ==
  /\ variant \in {"priority", "proactive"}
  /\ line = "balancing"
  /\ balancing = "original" /\ demotion = "original"
  /\ controller = "none" /\ controllerPid = FALSE
  /\ experiment = "none"
  /\ recorder = "none" /\ recorderPid = FALSE
  /\ pending = FALSE /\ taken = FALSE
  /\ resume = "none"
  /\ cut = FALSE

\* The script's next command, when it can have one.
From(here, next) == line = here /\ ~pending /\ line' = next

Exiting == line' = "trap" /\ resume' = "exit"

(***************************************************************************)
(* The script.  With set -e a command that fails is the end of it.         *)
(***************************************************************************)

SetBalancing ==
  /\ From("balancing", "demotion")
  /\ balancing' = "off"
  /\ UNCHANGED <<variant, demotion, children, signals, resume, cut>>

SetDemotion ==
  /\ From("demotion", "controller")
  /\ demotion' = "off"
  /\ UNCHANGED <<variant, balancing, children, signals, resume, cut>>

CommandFails ==
  /\ line \in {"balancing", "demotion"} /\ ~pending
  /\ Exiting
  /\ UNCHANGED <<variant, settings, children, signals, cut>>

\* A background command is started first and its pid noted after it.
StartController ==
  /\ From("controller", "note_controller")
  /\ controller' = "starting"
  /\ UNCHANGED <<variant, settings, controllerPid, experiment, recorder, recorderPid, signals,
                 resume, cut>>

NoteController ==
  /\ From("note_controller", "experiment")
  /\ controllerPid' = TRUE
  /\ UNCHANGED <<variant, settings, controller, experiment, recorder, recorderPid, signals,
                 resume, cut>>

\* In the foreground, or in the background.
StartExperiment ==
  /\ From("experiment", IF variant = "priority" THEN "wait" ELSE "record")
  /\ experiment' = "running"
  /\ UNCHANGED <<variant, settings, controller, controllerPid, recorder, recorderPid, signals,
                 resume, cut>>

\* The VMs' directory is there: the recorder starts.  Or the experiment ended
\* before it was.
StartRecorder ==
  /\ IF experiment = "running"
     THEN From("record", "note_recorder") /\ recorder' = "running"
     ELSE From("record", "wait") /\ UNCHANGED recorder
  /\ UNCHANGED <<variant, settings, controller, controllerPid, experiment, recorderPid, signals,
                 resume, cut>>

NoteRecorder ==
  /\ From("note_recorder", "wait")
  /\ recorderPid' = TRUE
  /\ UNCHANGED <<variant, settings, controller, controllerPid, experiment, recorder, signals,
                 resume, cut>>

ScriptEnds ==
  /\ line = "wait" /\ ~pending
  /\ experiment = "ended"
  /\ Exiting
  /\ UNCHANGED <<variant, settings, children, signals, cut>>

(***************************************************************************)
(* Signals and traps.                                                      *)
(***************************************************************************)

InTrap == line \in {"trap", "stop_controller", "restore_balancing", "restore_demotion"}

Terminate ==
  /\ ~pending
  /\ line # "over"
  /\ pending' = TRUE
  /\ UNCHANGED <<variant, line, settings, children, taken, resume, cut>>

\* bash runs a trap when the foreground command has ended; "wait" is left at
\* once.
TakeSignal ==
  /\ pending
  /\ ~InTrap
  /\ variant = "priority" => experiment # "running"
  /\ pending' = FALSE /\ taken' = TRUE
  /\ line' = "trap"
  /\ resume' = IF variant = "priority" THEN line ELSE "exit"
  /\ UNCHANGED <<variant, settings, children, cut>>

\* In a trap, the first script runs restore_policy from its beginning (what is
\* left of the interrupted one repeats it), and the second one exits from its
\* exit trap and leaves the rest undone.
TakeSignalInTrap ==
  /\ pending
  /\ InTrap
  /\ pending' = FALSE /\ taken' = TRUE
  /\ IF variant = "priority"
     THEN line' = "trap" /\ UNCHANGED cut
     ELSE line' = "over" /\ cut' = TRUE
  /\ UNCHANGED <<variant, settings, children, resume>>

\* restore_policy: wait for the recorder, which ends with the experiment ...
WaitRecorder ==
  /\ From("trap", "stop_controller")
  /\ recorderPid => recorder # "running"
  /\ UNCHANGED <<variant, settings, children, signals, resume, cut>>

\* ... interrupt the controller and wait for it.  Until it has installed its
\* handler it ignores SIGINT, as every background command of a script does,
\* and the wait does not end.
StopController ==
  /\ From("stop_controller", "restore_balancing")
  /\ controllerPid => controller # "starting"
  /\ controller' = IF controllerPid /\ controller = "running" THEN "ended" ELSE controller
  /\ UNCHANGED <<variant, settings, controllerPid, experiment, recorder, recorderPid, signals,
                 resume, cut>>

\* Mutant of RestoreBalancing: the setting is forgotten.
SkipBalancing ==
  /\ From("restore_balancing", "restore_demotion")
  /\ UNCHANGED <<variant, settings, children, signals, resume, cut>>

RestoreBalancing ==
  /\ From("restore_balancing", "restore_demotion")
  /\ balancing' = "original"
  /\ UNCHANGED <<variant, demotion, children, signals, resume, cut>>

RestoreDemotion ==
  /\ From("restore_demotion", IF resume = "exit" THEN "over" ELSE resume)
  /\ demotion' = "original"
  /\ resume' = "none"
  /\ UNCHANGED <<variant, balancing, children, signals, cut>>

\* set -e holds in a trap as well: a write that fails ends the script, through
\* the exit trap if it was not that one already.
RestoreFails ==
  /\ line \in {"restore_balancing", "restore_demotion"} /\ ~pending
  /\ IF resume = "exit"
     THEN line' = "over" /\ cut' = TRUE /\ UNCHANGED resume
     ELSE Exiting /\ UNCHANGED cut
  /\ UNCHANGED <<variant, settings, children, signals>>

(***************************************************************************)
(* The children.                                                           *)
(***************************************************************************)

\* The controller installs its handler, unless it was interrupted before.
ControllerRuns ==
  /\ controller = "starting"
  /\ line = "stop_controller" => ~controllerPid
  /\ controller' = "running"
  /\ UNCHANGED <<variant, line, settings, controllerPid, experiment, recorder, recorderPid,
                 signals, resume, cut>>

ExperimentEnds ==
  /\ experiment = "running"
  /\ experiment' = "ended"
  /\ UNCHANGED <<variant, line, settings, controller, controllerPid, recorder, recorderPid,
                 signals, resume, cut>>

RecorderEnds ==
  /\ recorder = "running"
  /\ experiment = "ended"
  /\ recorder' = "ended"
  /\ UNCHANGED <<variant, line, settings, controller, controllerPid, experiment, recorderPid,
                 signals, resume, cut>>

PhaseNext ==
  \/ SetBalancing \/ SetDemotion \/ CommandFails
  \/ StartController \/ NoteController \/ StartExperiment
  \/ StartRecorder \/ NoteRecorder \/ ScriptEnds
  \/ Terminate \/ TakeSignal \/ TakeSignalInTrap
  \/ WaitRecorder \/ StopController
  \/ RestoreBalancing \/ RestoreDemotion \/ RestoreFails
  \/ ControllerRuns \/ ExperimentEnds \/ RecorderEnds

(***************************************************************************)
(* Properties.                                                             *)
(***************************************************************************)

ControllerAlive == controller \in {"starting", "running"}

InForce == balancing = "off" /\ demotion = "off" /\ ControllerAlive

\* Started, and its pid not noted before a signal came: no trap knows it.
ControllerUnknown == ControllerAlive /\ ~controllerPid

RecorderUnknown == recorder = "running" /\ ~recorderPid

\* When a script is over the host has its own settings again and no controller
\* or recorder runs but one that the traps did not know, wherever it failed or
\* was signalled, unless the restore itself was cut short, by a write that
\* fails or by a signal in the second script's exit trap.  And the experiment
\* runs under the policy it measures unless a signal came: the first script then
\* goes on, and starts the experiment on the restored host, the second one
\* leaves the experiment alone, and restores the host at once if it knows of no
\* recorder that runs.
PolicyRestored ==
  /\ (line = "over" /\ ~cut) =>
       /\ balancing = "original" /\ demotion = "original"
       /\ ControllerAlive => ControllerUnknown
       /\ recorder = "running" => RecorderUnknown
  /\ experiment = "running" => InForce \/ taken
  /\ recorder = "running" => InForce \/ RecorderUnknown

=============================================================================
