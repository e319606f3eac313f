----------------------------- MODULE YigReplay ------------------------------
(***************************************************************************)
(* run_yig_microvm_replay.py: main admits batches of VMs, each with a disk *)
(* built from a container image, until a monitor thread finds the node's   *)
(* memory or CPUs used up; it collects the guests that have ended, and     *)
(* stops the rest in a finally clause.  Ctrl-C is an exception wherever    *)
(* main is, in that clause as well; SIGTERM has no handler.                *)
(***************************************************************************)
EXTENDS Naturals, FiniteSets

CONSTANTS
  Guests,      (* --sessions                                               *)
  GuestBatch   (* --batch-size                                             *)

VARIABLES
  main,       (* where main is                                             *)
  built,      (* sessions whose disk has been built                        *)
  launched,   (* sessions whose start has been called                      *)
  active,     (* active: started and not yet taken off the list            *)
  seen,       (* the VMs of active that the loop over it has come past     *)
  ended,      (* the VM that the loop is collecting, 0 for none            *)
  completed,  (* completed                                                 *)
  vmm,        (* processes of cloud-hypervisor that are alive              *)
  cgroup,     (* cgroups that exist                                        *)
  monitor,    (* the monitor thread is alive                               *)
  stopping,   (* stop_admission                                            *)
  loaded,     (* the host is over a threshold                              *)
  raised      (* an exception is on its way out of main                    *)

passVars == <<active, seen, ended, completed>>
yigHost == <<vmm, cgroup, loaded>>
yigVars == <<main, built, launched, passVars, yigHost, monitor, stopping, raised>>

Ids == 1 .. Guests

YigInit ==
  /\ main = "admit"
  /\ built = 0
  /\ launched = 0
  /\ active = {}
  /\ seen = {}
  /\ ended = 0
  /\ completed = {}
  /\ vmm = {}
  /\ cgroup = {}
  /\ monitor = TRUE
  /\ stopping = FALSE
  /\ loaded = FALSE
  /\ raised = FALSE

BatchEnd == IF launched + GuestBatch > Guests THEN Guests ELSE launched + GuestBatch

\* The time of the next batch has come, or there is none left: look at the flag.
Admit ==
  /\ main = "admit"
  /\ main' = IF launched < Guests /\ ~stopping THEN "build" ELSE "drain"
  /\ UNCHANGED <<built, launched, passVars, yigHost, monitor, stopping, raised>>

\* docker pull and build_disk for every VM of the batch, before any starts.
BuildDisk ==
  /\ main = "build"
  /\ built' = built + 1
  /\ main' = IF built' = BatchEnd THEN "start" ELSE "build"
  /\ UNCHANGED <<launched, passVars, yigHost, monitor, stopping, raised>>

\* start: the cgroup, the process, the process into the cgroup; then the VM is
\* appended to active.
StartVM ==
  /\ main = "start"
  /\ launched' = launched + 1
  /\ cgroup' = cgroup \cup {launched'}
  /\ vmm' = vmm \cup {launched'}
  /\ active' = active \cup {launched'}
  /\ main' = IF launched' = built THEN "reap" ELSE "start"
  /\ UNCHANGED <<built, seen, ended, completed, monitor, stopping, loaded, raised>>

\* start raises: at mkdir, at Popen, or at the write to cgroup.procs when the
\* process is there already.  The VM is not in active.  Or a signal does so.
StartFails ==
  /\ main = "start"
  /\ launched' = launched + 1
  /\ \E call \in {"mkdir", "popen", "echo"} :
       /\ cgroup' = IF call = "mkdir" THEN cgroup ELSE cgroup \cup {launched'}
       /\ vmm' = IF call = "echo" THEN vmm \cup {launched'} ELSE vmm
  /\ main' \in {"finally", "killed"}
  /\ raised' = TRUE
  /\ UNCHANGED <<built, passVars, monitor, stopping, loaded>>

\* "for vm in active" comes to this one next.
ComesTo(i) ==
  /\ ended = 0
  /\ i \in active \ seen
  /\ \A j \in active \ seen : i <= j
  /\ seen' = seen \cup {i}

Reaping == main \in {"reap", "drain"}

\* A VM that runs is kept ...
Keep(i) ==
  /\ Reaping
  /\ ComesTo(i)
  /\ i \in vmm
  /\ UNCHANGED <<main, built, launched, active, ended, completed, yigHost, monitor, stopping,
                 raised>>

\* ... one that has finished is collected ...
Collect(i) ==
  /\ Reaping
  /\ ComesTo(i)
  /\ i \notin vmm
  /\ completed' = completed \cup {i}
  /\ ended' = i
  /\ UNCHANGED <<main, built, launched, active, yigHost, monitor, stopping, raised>>

\* Mutant of StopEnded: the VM is collected and not stopped.
LeaveEnded ==
  /\ Reaping
  /\ ended # 0
  /\ ended' = 0
  /\ UNCHANGED <<main, built, launched, active, seen, completed, yigHost, monitor, stopping,
                 raised>>

\* ... and stopped, which removes its cgroup.
StopEnded ==
  /\ Reaping
  /\ ended # 0
  /\ cgroup' = cgroup \ {ended}
  /\ ended' = 0
  /\ UNCHANGED <<main, built, launched, active, seen, completed, vmm, monitor, stopping,
                 loaded, raised>>

\* active[:] = still_active.  The loop is done once for a batch, and while VMs
\* are active after the last one.
PassEnds ==
  /\ Reaping
  /\ ended = 0
  /\ active \subseteq seen
  /\ active' = active \ completed
  /\ seen' = {}
  /\ main' = IF main = "reap" THEN "admit"
             ELSE IF active' = {} THEN "finally" ELSE "drain"
  /\ UNCHANGED <<built, launched, ended, completed, yigHost, monitor, stopping, raised>>

\* A pull, a build or a collection raises, or Ctrl-C arrives.
Raises ==
  /\ main \in {"admit", "build", "reap", "drain"}
  /\ main' = "finally"
  /\ raised' = TRUE
  /\ seen' = {}
  /\ ended' = 0
  /\ UNCHANGED <<built, launched, active, completed, yigHost, monitor, stopping>>

\* The finally clause: the monitor is told to end and waited for (2 s) ...
JoinMonitor ==
  /\ main = "finally"
  /\ main' = "stop"
  /\ monitor' = FALSE
  /\ UNCHANGED <<built, launched, passVars, yigHost, stopping, raised>>

\* ... every active VM is stopped (SIGTERM, 10 s, SIGKILL) and its cgroup
\* removed.  After a SIGKILL nobody waits, so that rmdir may find the process
\* still in its cgroup, and fail ...
StopVM(i) ==
  /\ main = "stop"
  /\ ComesTo(i)
  /\ vmm' = vmm \ {i}
  /\ \/ cgroup' = cgroup \ {i}
     \/ i \in vmm /\ cgroup' = cgroup
  /\ UNCHANGED <<main, built, launched, active, ended, completed, monitor, stopping, loaded,
                 raised>>

\* ... and the exception goes on, or the results are written.
Ends ==
  /\ main = "stop"
  /\ active \subseteq seen
  /\ main' = IF raised THEN "died" ELSE "over"
  /\ UNCHANGED <<built, launched, passVars, yigHost, monitor, stopping, raised>>

\* Ctrl-C in the wait for the monitor or for a VM, or a stop that raises: the
\* VMs that the clause has not come to run on, each in a session of its own.
CutShort ==
  /\ main \in {"finally", "stop"}
  /\ main' = "cut"
  /\ monitor' = FALSE
  /\ UNCHANGED <<built, launched, passVars, yigHost, stopping, raised>>

\* SIGTERM: no clause is run at all.
Killed ==
  /\ main \notin {"over", "died", "cut", "killed"}
  /\ main' = "killed"
  /\ monitor' = FALSE
  /\ UNCHANGED <<built, launched, passVars, yigHost, stopping, raised>>

Main ==
  \/ Admit \/ BuildDisk \/ StartVM \/ StartFails
  \/ \E i \in Ids : Keep(i) \/ Collect(i) \/ StopVM(i)
  \/ StopEnded \/ PassEnds \/ Raises
  \/ JoinMonitor \/ Ends \/ CutShort \/ Killed

(***************************************************************************)
(* The monitor and the host.                                               *)
(***************************************************************************)

\* A sample at or over a threshold sets stop_admission; nothing clears it.
Sample ==
  /\ monitor
  /\ loaded
  /\ stopping' = TRUE
  /\ UNCHANGED <<main, built, launched, passVars, yigHost, monitor, raised>>

\* pss_bytes reads the smaps_rollup of a process that is going away: that is
\* ESRCH, which it does not expect, and the thread ends with a traceback.
SampleRaises ==
  /\ monitor
  /\ active # {}
  /\ monitor' = FALSE
  /\ UNCHANGED <<main, built, launched, passVars, yigHost, stopping, raised>>

\* A guest has replayed its manifest and powers off.
GuestEnds(i) ==
  /\ i \in vmm
  /\ vmm' = vmm \ {i}
  /\ UNCHANGED <<main, built, launched, passVars, cgroup, loaded, monitor, stopping, raised>>

LoadChanges ==
  /\ loaded' = (~loaded /\ vmm # {})
  /\ UNCHANGED <<main, built, launched, passVars, vmm, cgroup, monitor, stopping, raised>>

YigNext ==
  \/ Main
  \/ Sample \/ SampleRaises \/ LoadChanges
  \/ \E i \in Ids : GuestEnds(i)

(***************************************************************************)
(* Properties.                                                             *)
(***************************************************************************)

\* Every VM that was started is watched by main until it has been collected:
\* only one whose start raised is in neither list.  So when main is over, every
\* started session is in completed-sessions.json and nothing of a VM is left, and
\* when an exception ended it, no process and (unless it had to be killed) no
\* cgroup is left but that VM's.  Nothing of the kind holds when the finally
\* clause was cut short, by a Ctrl-C within it, or left out, by SIGTERM: then the
\* VMs that are still in active run on.
Unlisted == (1 .. launched) \ (active \cup completed)

NoGuestForgotten ==
  /\ Cardinality(Unlisted) <= 1
  /\ Unlisted # {} => raised /\ Unlisted = {launched}
  /\ completed \cap vmm = {}
  /\ main = "over" => completed = 1 .. launched /\ vmm = {} /\ cgroup = {}
  /\ main = "died" => vmm \subseteq Unlisted /\ cgroup \subseteq active \cup Unlisted
  /\ main \in {"cut", "killed"} => vmm \subseteq active \cup Unlisted

=============================================================================
