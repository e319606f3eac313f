--------------------------- MODULE DockerReplays ----------------------------
(***************************************************************************)
(* Capacity runs made of Docker replays.  Every session is a process of    *)
(* replay_openhands_trace.py, which starts one container, replays the      *)
(* trace in it, holds it idle, and removes it in a finally clause.  Two    *)
(* drivers start them under one label: run_node0_trace_replay_capacity.py  *)
(* ("node0"), batch after batch with a sample after each, and              *)
(* colocate_openhands_docker_replays.py ("colocate"), all at once with     *)
(* samples while they run.                                                 *)
(***************************************************************************)
EXTENDS Naturals, FiniteSets

CONSTANTS
  Sessions,   (* --max-sessions, --concurrency                             *)
  Batch       (* --sessions-per-point                                      *)

VARIABLES
  script,     (* which driver runs                                         *)
  active,     (* --active-replay: the replays loop                         *)
  fleet,      (* where the driver is                                       *)
  started,    (* replay processes started                                  *)
  running,    (* RUNNING: no SIGINT or SIGTERM yet                         *)
  stopReason, (* stop_reason of the summary                                *)
  replay,     (* what each replay process is doing                         *)
  starting,   (* replays whose "docker run -d" is under way                *)
  removing,   (* replays whose "docker rm -f" is under way                 *)
  container,  (* replays whose container exists                            *)
  written,    (* replays that have written every recorded step             *)
  cut,        (* replays that a signal ended                               *)
  left,       (* replays whose container nobody removed: the manifest      *)
              (* could not be written, or docker failed                    *)
  missed      (* starting when node0's cleanup listed the containers       *)

options == <<script, active>>
driverVars == <<options, fleet, started, running, stopReason>>
dockerVars == <<starting, removing, container>>
replayVars == <<replay, dockerVars, written>>
causes == <<cut, left, missed>>
fleetVars == <<driverVars, replayVars, causes>>

Replicas == 1 .. Sessions

Live == {i \in Replicas : replay[i] \notin {"none", "exited"}}

FleetInit ==
  /\ script \in {"node0", "colocate"}
  /\ active \in IF script = "node0" THEN BOOLEAN ELSE {FALSE}
  /\ fleet = "launch"
  /\ started = 0
  /\ running = TRUE
  /\ stopReason = IF script = "node0" THEN "max_sessions" ELSE "none"
  /\ replay = [i \in Replicas |-> "none"]
  /\ starting = {}
  /\ removing = {}
  /\ container = {}
  /\ written = {}
  /\ cut = {}
  /\ left = {}
  /\ missed = {}

(***************************************************************************)
(* One replay.                                                             *)
(***************************************************************************)

Becomes(i, state) == replay' = [replay EXCEPT ![i] = state]

\* subprocess.run(create): the container starts ...
ContainerStarts(i) ==
  /\ i \in starting
  /\ starting' = starting \ {i}
  /\ container' = container \cup {i}
  /\ IF replay[i] = "create" THEN Becomes(i, "manifest") ELSE UNCHANGED replay
  /\ UNCHANGED <<driverVars, removing, written, causes>>

\* ... or does not, and the replay ends before its try block.
CreateFails(i) ==
  /\ i \in starting
  /\ starting' = starting \ {i}
  /\ IF replay[i] = "create" THEN Becomes(i, "exited") ELSE UNCHANGED replay
  /\ UNCHANGED <<driverVars, removing, container, written, causes>>

\* The container's name is written to the manifest, and the try block entered ...
WriteManifest(i) ==
  /\ replay[i] = "manifest"
  /\ Becomes(i, "steps")
  /\ UNCHANGED <<driverVars, dockerVars, written, causes>>

\* ... or the write raises before it.
ManifestFails(i) ==
  /\ replay[i] = "manifest"
  /\ Becomes(i, "exited")
  /\ left' = left \cup {i}
  /\ UNCHANGED <<driverVars, dockerVars, written, cut, missed>>

\* Every recorded step is done: the trace is begun again, or the sandbox held.
StepsEnd(i) ==
  /\ replay[i] = "steps"
  /\ Becomes(i, IF active THEN "steps" ELSE "hold")
  /\ written' = written \cup {i}
  /\ UNCHANGED <<driverVars, dockerVars, causes>>

\* The finally clause begins to remove the container: after the hold, which is
\* a day long under node0, or when writing a step raises.
ReplayEnds(i) ==
  /\ \/ replay[i] = "hold" /\ script = "colocate"
     \/ replay[i] = "steps"
  /\ Becomes(i, "remove")
  /\ removing' = removing \cup {i}
  /\ UNCHANGED <<driverVars, starting, container, written, causes>>

\* docker rm -f removes the container, or fails (check=False); the replay, if
\* it is still there, ends in both cases.
Remove(i) ==
  /\ i \in removing
  /\ removing' = removing \ {i}
  /\ IF replay[i] = "remove" THEN Becomes(i, "exited") ELSE UNCHANGED replay
  /\ \/ container' = container \ {i} /\ left' = left
     \/ container' = container /\ left' = left \cup {i}
  /\ UNCHANGED <<driverVars, starting, written, cut, missed>>

\* Mutant of Kill: a driver leaves its replays alone.
KillNobody(victims) == UNCHANGED <<replay, cut>>

\* SIGTERM or SIGKILL: there is no handler, so the finally clause does not run,
\* or not to its end.  A docker client under way goes on.
Kill(victims) ==
  /\ replay' = [i \in Replicas |-> IF i \in victims THEN "exited" ELSE replay[i]]
  /\ cut' = cut \cup (victims \cap Live)

InTry(i) == replay[i] \in {"steps", "hold"}

\* Ctrl-C reaches the replays of the terminal too.  Those in the try block begin
\* their finally clause; the others, before it or in it, end.  colocate has no
\* handler before its replays are started, and dies.
Unhandled == script = "colocate" /\ fleet \in {"launch", "start"}

Interrupt ==
  /\ fleet \notin {"over", "died"}
  /\ running' = FALSE
  /\ fleet' = IF Unhandled THEN "died" ELSE fleet
  /\ replay' = [i \in Replicas |-> IF replay[i] = "none" THEN "none"
                                   ELSE IF InTry(i) THEN "remove" ELSE "exited"]
  /\ removing' = removing \cup {i \in Replicas : InTry(i)}
  /\ cut' = cut \cup {i \in Live : ~InTry(i)}
  /\ UNCHANGED <<options, started, stopReason, starting, container, written, left, missed>>

\* SIGTERM is sent to the driver alone.
Terminate ==
  /\ running
  /\ running' = FALSE
  /\ fleet' = IF Unhandled THEN "died" ELSE fleet
  /\ UNCHANGED <<options, started, stopReason, replayVars, causes>>

(***************************************************************************)
(* What the drivers share.                                                 *)
(***************************************************************************)

Goes(name, from, to) ==
  /\ script = name
  /\ fleet = from
  /\ fleet' = to

BatchLast ==
  IF script = "colocate" \/ (started \div Batch + 1) * Batch > Sessions
  THEN Sessions
  ELSE (started \div Batch + 1) * Batch

\* Popen of the next session of the batch, and after the last one on to the
\* wait (node0) or to the samples (colocate).
Launch ==
  /\ fleet = "start"
  /\ started' = started + 1
  /\ Becomes(started', "create")
  /\ starting' = starting \cup {started'}
  /\ fleet' = IF started' = BatchLast THEN "await" ELSE "start"
  /\ UNCHANGED <<options, running, stopReason, removing, container, written, causes>>

\* Copying the next workspace raises.  colocate has no finally clause: it dies
\* and leaves its replays to themselves.
LaunchFails ==
  /\ fleet = "start"
  /\ fleet' = IF script = "node0" THEN "finally" ELSE "died"
  /\ UNCHANGED <<options, started, running, stopReason, replayVars, causes>>

Stays == UNCHANGED <<options, started, running, replayVars, causes>>

(***************************************************************************)
(* node0.                                                                  *)
(***************************************************************************)

\* The head of the loop over batches: the signal and the memory threshold are
\* looked at once for each batch.
NextBatch ==
  /\ \/ /\ started < Sessions /\ running
        /\ Goes("node0", "launch", "start")
        /\ UNCHANGED stopReason
     \/ /\ started = Sessions
        /\ Goes("node0", "launch", "finally")
        /\ stopReason' = "max_sessions"
     \/ /\ started < Sessions /\ ~running
        /\ Goes("node0", "launch", "finally")
        /\ stopReason' = "signal"
     \/ /\ started \in 1 .. Sessions - 1 /\ running
        /\ Goes("node0", "launch", "finally")
        /\ stopReason' = "memory"
  /\ Stays

NewSessions == {i \in 1 .. started : i > ((started - 1) \div Batch) * Batch}

\* labelled_containers has a container for every session so far, and all the
\* agent servers of the new ones answer.
BatchResident ==
  /\ Goes("node0", "await", "steps")
  /\ Cardinality(container) >= started
  /\ Stays /\ UNCHANGED stopReason

\* The warm-up of an active replay has passed, or wait_for_replay_steps has
\* found all the steps of the new sessions.
BatchReplayed ==
  /\ Goes("node0", "steps", "sample")
  /\ active \/ NewSessions \subseteq written
  /\ Stays /\ UNCHANGED stopReason

\* startup_deadline or completion_deadline passes: RuntimeError.  Or the sample
\* cannot be taken or written.
BatchFails ==
  /\ \E from \in {"await", "steps", "sample"} : Goes("node0", from, "finally")
  /\ Stays /\ UNCHANGED stopReason

\* sample; the threshold is compared again.
Sample ==
  /\ \/ Goes("node0", "sample", "launch") /\ UNCHANGED stopReason
     \/ Goes("node0", "sample", "finally") /\ stopReason' = "memory"
  /\ Stays

\* The finally clause: the plot or the summary cannot be written, and the
\* exception skips cleanup ...
SummaryFails ==
  /\ Goes("node0", "finally", "died")
  /\ Stays /\ UNCHANGED stopReason

\* ... or they are, and cleanup terminates and waits for every replay ...
CleanupReplays ==
  /\ Goes("node0", "finally", "list")
  /\ Kill(Live)
  /\ UNCHANGED <<options, started, running, stopReason, dockerVars, written, left, missed>>

\* ... then lists the containers with the label and removes them, all but those
\* that docker ps, inspect or rm (none of them checked) fails for.
CleanupContainers ==
  /\ Goes("node0", "list", "over")
  /\ \E failed \in SUBSET container :
       /\ container' = failed
       /\ left' = left \cup failed
  /\ missed' = starting
  /\ UNCHANGED <<options, started, running, stopReason, replay, starting, removing, written,
                 cut>>

(***************************************************************************)
(* colocate.                                                               *)
(***************************************************************************)

Begin ==
  /\ Goes("colocate", "launch", "start")
  /\ Stays /\ UNCHANGED stopReason

\* The loop ends: a signal, every replay ended, or a threshold.  Only a
\* threshold terminates the replays.
LoopEnds ==
  /\ \/ /\ Goes("colocate", "await", "collect")
        /\ ~running \/ Live = {}
        /\ UNCHANGED <<stopReason, replay, cut>>
     \/ /\ Goes("colocate", "await", "collect")
        /\ running /\ Live # {}
        /\ stopReason' \in {"sustained_host_cpu", "docker_cgroup_memory_limit"}
        /\ Kill(Live)
  /\ UNCHANGED <<options, started, running, dockerVars, written, left, missed>>

\* A sample cannot be taken or written: there is no finally clause here either.
SampleFails ==
  /\ Goes("colocate", "await", "died")
  /\ Stays /\ UNCHANGED stopReason

\* communicate(timeout=30) for each replay; whoever has not ended is killed.
CollectReplays ==
  /\ Goes("colocate", "collect", "over")
  /\ Kill(Live)
  /\ stopReason' = IF stopReason = "none" THEN "all_replays_completed" ELSE stopReason
  /\ UNCHANGED <<options, started, running, dockerVars, written, left, missed>>

FleetNext ==
  \/ \E i \in Replicas :
       \/ ContainerStarts(i) \/ CreateFails(i)
       \/ WriteManifest(i) \/ ManifestFails(i)
       \/ StepsEnd(i) \/ ReplayEnds(i) \/ Remove(i)
  \/ Interrupt \/ Terminate
  \/ Launch \/ LaunchFails
  \/ NextBatch \/ BatchResident \/ BatchReplayed \/ BatchFails \/ Sample
  \/ SummaryFails \/ CleanupReplays \/ CleanupContainers
  \/ Begin \/ LoopEnds \/ SampleFails \/ CollectReplays

(***************************************************************************)
(* Properties.                                                             *)
(***************************************************************************)

\* When a driver is over, every replay has ended, and a container is left only
\* for a reason the code has.  Under both: docker failed to remove it.  Under
\* node0: its "docker run" was still under way when the containers were listed.
\* Under colocate, which removes no container itself: its replay was ended by
\* SIGTERM or SIGKILL, or by Ctrl-C outside the try block, or it could not write
\* the manifest, between docker run and that block.
ContainersExplained ==
  fleet = "over" =>
    /\ Live = {}
    /\ container \subseteq left \cup IF script = "node0" THEN missed ELSE cut

\* node0 samples only whole batches, and (without --active-replay) only after
\* every session so far has replayed its whole trace and while its container is
\* there to be measured, unless Ctrl-C has taken the containers away.
SampledWhenResident ==
  fleet = "sample" =>
    /\ started % Batch = 0 \/ started = Sessions
    /\ ~active => /\ 1 .. started \subseteq written
                  /\ running => 1 .. started \subseteq container

=============================================================================
