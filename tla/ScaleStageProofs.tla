-------------------------- MODULE ScaleStageProofs --------------------------
(***************************************************************************)
(* Proofs about ScaleStage, for any number of virtual machines, in both    *)
(* admission modes, and for any set of fault kinds and any number of them. *)
(*                                                                         *)
(* The three properties speak of a stage that has ended, or of all that    *)
(* happened since the guard was set.  What makes them true is where main   *)
(* is: which launcher threads can still create a process (LaunchInv), what *)
(* the finally clause has dealt with so far (SweepInv), that no VM is      *)
(* skipped on the way to the verdict (VerdictInv), and what the monitor    *)
(* has said of the guard (GuardInv).                                       *)
(***************************************************************************)
EXTENDS ScaleStage, FiniteSetTheorems, TLAPS

Setup == {"prepare", "network"}
Staggering == {"admit", "start", "started"}
Trying == {"check", "wait", "evict", "validate"}
Leaving == {"cleanup", "quiesce", "sweep", "close", "report", "returned", "raised",
            "cut"}

StageTypeOK ==
  /\ staggered \in BOOLEAN
  /\ main \in Setup \cup {"spawn", "join"} \cup Staggering \cup Trying \cup Leaving
  /\ next \in VMs
  /\ launcher \in [VMs -> {"idle", "barrier", "ended"}]
  /\ proc \in [VMs -> {"none", "running", "dying", "exited"}]
  /\ log \in [VMs -> {"empty", "ready", "done", "failed"}]
  /\ cgroup \subseteq VMs
  /\ network \in {"down", "up"}
  /\ errors \subseteq VMs
  /\ guard \in BOOLEAN /\ reason \in BOOLEAN
  /\ monitor \in {"off", "on", "tripped"}
  /\ stop \in BOOLEAN /\ raising \in BOOLEAN
  /\ report \in [guard : BOOLEAN, reason : BOOLEAN]
  /\ late \subseteq VMs

(* No launcher thread can create a process any more: the barrier is never  *)
(* complete, or everybody has passed it.                                   *)
NoLaunch ==
  \/ \E v \in VMs : launcher[v] = "idle"
  \/ \A v \in VMs : launcher[v] = "ended"

LaunchInv ==
  /\ main \in {"spawn", "join"} => ~staggered
  /\ main \in Staggering => staggered
  /\ staggered \/ main \in Setup => \A v \in VMs : launcher[v] = "idle"
  /\ main = "network" => next = 1
  /\ main = "spawn" => \A v \in VMs : launcher[v] = "idle" <=> v >= next
  /\ main \in Trying => staggered \/ \A v \in VMs : launcher[v] = "ended"
  /\ main \in Leaving => NoLaunch \/ "interrupt" \in met

(* Up to where the sweep has come, no process runs on, and a cgroup stays  *)
(* only with a process that had to be killed.                              *)
SweepInv ==
  /\ main \in Setup => (\A v \in VMs : proc[v] = "none") /\ network = "down"
  /\ main = "quiesce" => next = 1
  /\ main = "sweep" /\ ~SweepUndone => \A v \in VMs : v < next => proc[v] # "running"
  /\ main \in {"close", "report", "returned", "raised"} /\ ~SweepUndone =>
       \A v \in VMs : proc[v] # "running"
  /\ main = "sweep" => \A v \in VMs : v < next /\ v \in cgroup => "stubborn" \in met
  /\ main \in {"close", "report", "returned"} /\ cgroup # {} => "stubborn" \in met
  /\ main = "raised" /\ ~SweepUndone /\ cgroup # {} => met \cap {"setup", "stubborn"} # {}
  /\ main \in {"report", "returned"} => network = "down"
  /\ main = "raised" /\ ~SweepUndone => network = "down"

(* Unless the guard stops the stage, every VM is launched before the wait  *)
(* (or its launch is an error), and a stage that goes on without an        *)
(* exception was found valid.                                              *)
VerdictInv ==
  /\ \A v \in VMs : launcher[v] = "ended" => proc[v] # "none" \/ v \in errors
  /\ main \in {"admit", "start"} => \A v \in VMs : v < next => proc[v] # "none"
  /\ main = "started" => \A v \in VMs : v <= next => proc[v] # "none"
  /\ main = "check" /\ ~guard => \A v \in VMs : proc[v] # "none" \/ v \in errors
  /\ main \in {"wait", "validate"} /\ ~guard => \A v \in VMs : proc[v] # "none"
  /\ main = "evict" => guard
  /\ main \in Leaving \ {"raised", "cut"} /\ ~raising => guard \/ \A v \in VMs : log[v] = "done"
  /\ main \in {"report", "returned"} => ~raising
  /\ main = "returned" => report.guard \/ \A v \in VMs : log[v] = "done"

(* The flag is set before the reason, by the monitor alone; it is joined   *)
(* before the sweep.                                                       *)
GuardInv ==
  /\ main \in Setup => monitor = "off" /\ ~guard
  /\ monitor = "tripped" => guard
  /\ guard /\ ~reason => monitor = "tripped"
  /\ main \in {"sweep", "close", "report", "returned"} => monitor = "off" \/ "slow" \in met
  /\ main = "returned" => (report.guard => report.reason \/ "slow" \in met)

(* In staggered admission a process created under the guard is the last.   *)
LateInv ==
  staggered =>
    /\ \E v \in VMs : late \subseteq {v}
    /\ late # {} => guard
    /\ main = "start" => late = {}

-----------------------------------------------------------------------------
(* A loop of main moves by one VM, or is over and main goes on.            *)
LEMMA AdvanceFacts ==
  ASSUME StageTypeOK, NEW after, Advance(after)
  PROVE  /\ next' \in VMs /\ next \in 1 .. N /\ N \in Nat
         /\ \/ main' = after /\ next' = 1 /\ next = N
            \/ main' = main /\ next' = next + 1
  BY StageAssumption DEF StageTypeOK, Advance, VMs

(* A stage begins in a state of the right shape.                           *)
LEMMA TypeInit == Init => StageTypeOK
<1> SUFFICES ASSUME Init
             PROVE  StageTypeOK
  OBVIOUS
<1>1. next \in VMs /\ main \in Setup
  BY StageAssumption DEF Init, VMs, Setup
<1>2. /\ launcher \in [VMs -> {"idle", "barrier", "ended"}]
      /\ proc \in [VMs -> {"none", "running", "dying", "exited"}]
      /\ log \in [VMs -> {"empty", "ready", "done", "failed"}]
      /\ report \in [guard : BOOLEAN, reason : BOOLEAN]
  BY DEF Init
<1>3. QED
  BY <1>1, <1>2 DEF Init, StageTypeOK

(* One step per action.                                                    *)
LEMMA TypeStep == StageTypeOK /\ [Next]_vars => StageTypeOK'
<1> SUFFICES ASSUME StageTypeOK, [Next]_vars
             PROVE  StageTypeOK'
  OBVIOUS
<1> USE DEF Setup, Staggering, Trying, Leaving
<1>0. 1 \in VMs
  BY StageAssumption DEF VMs
<1>1. CASE PrepareCgroup
  BY <1>1, AdvanceFacts DEF PrepareCgroup, StageTypeOK, vmVars, monitorVars
<1>2. CASE SetupNetwork
  BY <1>2 DEF SetupNetwork, StageTypeOK, vmVars, monitorVars
<1>3. CASE SpawnLauncher
  BY <1>3, AdvanceFacts DEF SpawnLauncher, StageTypeOK, vmVars, hostVars, monitorVars
<1>4. CASE JoinLaunchers
  BY <1>4 DEF JoinLaunchers, StageTypeOK, vmVars, hostVars, monitorVars
<1>5. CASE AdmitNext
  BY <1>5 DEF AdmitNext, StageTypeOK, vmVars, hostVars, monitorVars
<1>6. CASE AdmitStart
  <2>1. /\ proc' \in [VMs -> {"none", "running", "dying", "exited"}]
        /\ late' \subseteq VMs /\ errors' \subseteq VMs
    BY <1>6 DEF AdmitStart, Start, Popen, StageTypeOK
  <2>2. /\ main' \in {"started", "cleanup"} /\ next' \in VMs /\ raising' \in BOOLEAN
    BY <1>0, <1>6 DEF AdmitStart, Escape, StageTypeOK
  <2>3. QED
    BY <1>6, <2>1, <2>2 DEF AdmitStart, StageTypeOK, monitorVars
<1>7. CASE AdmitDone
  <2>1. next' \in VMs /\ main' \in {"cleanup", "check", "admit"}
    BY <1>0, <1>7, StageAssumption DEF AdmitDone, Escape, StageTypeOK, VMs
  <2>2. raising' \in BOOLEAN
    BY <1>7 DEF AdmitDone, Escape, StageTypeOK
  <2>3. QED
    BY <1>7, <2>1, <2>2 DEF AdmitDone, StageTypeOK, vmVars, monitorVars
<1>8. CASE CheckErrors
  BY <1>0, <1>8 DEF CheckErrors, Escape, StageTypeOK, vmVars, monitorVars
<1>9. CASE AllDone
  BY <1>9 DEF AllDone, StageTypeOK, vmVars, hostVars, monitorVars
<1>10. CASE SeeGuard
  BY <1>10 DEF SeeGuard, StageTypeOK, vmVars, hostVars, monitorVars
<1>11. CASE Evict
  BY <1>11, AdvanceFacts DEF Evict, Stop, StageTypeOK, monitorVars
<1>12. CASE Validate
  BY <1>12 DEF Validate, StageTypeOK, vmVars, monitorVars
<1>13. CASE StopMonitors
  BY <1>0, <1>13 DEF StopMonitors, StageTypeOK, vmVars, monitorVars
<1>14. CASE JoinMonitor
  BY <1>14 DEF JoinMonitor, StageTypeOK, vmVars, hostVars, monitorVars
<1>15. CASE Sweep
  BY <1>15, AdvanceFacts DEF Sweep, Stop, StageTypeOK, monitorVars
<1>16. CASE CloseNetwork
  BY <1>16 DEF CloseNetwork, StageTypeOK, vmVars, monitorVars
<1>17. CASE Report
  BY <1>17 DEF Report, StageTypeOK, vmVars, monitorVars
<1>18. CASE SetupFails
  BY <1>18 DEF SetupFails, StageTypeOK, vmVars, hostVars, monitorVars
<1>19. CASE SpawnFails
  BY <1>0, <1>19 DEF SpawnFails, Escape, StageTypeOK, vmVars, monitorVars
<1>20. CASE Interrupt
  BY <1>0, <1>20 DEF Interrupt, Escape, StageTypeOK, vmVars, monitorVars
<1>21. CASE SweepFails
  BY <1>21 DEF SweepFails, StageTypeOK, vmVars, hostVars, monitorVars
<1>28. CASE MonitorsFail
  BY <1>28 DEF MonitorsFail, StageTypeOK, vmVars
<1>22. CASE GiveReason \/ MonitorEnds \/ TripGuard
  <2>1. guard' \in BOOLEAN /\ reason' \in BOOLEAN /\ monitor' \in {"off", "on", "tripped"}
    BY <1>22 DEF GiveReason, MonitorEnds, TripGuard, StageTypeOK
  <2>2. QED
    BY <1>22, <2>1 DEF GiveReason, MonitorEnds, TripGuard, StageTypeOK, vmVars, hostVars
<1>23. ASSUME NEW v \in VMs, Launch(v)
       PROVE  StageTypeOK'
  BY <1>23 DEF Launch, Start, Popen, StageTypeOK, hostVars, monitorVars
<1>24. ASSUME NEW v \in VMs, GuestReady(v) \/ GuestDone(v) \/ GuestFails(v)
       PROVE  StageTypeOK'
  BY <1>24 DEF GuestReady, GuestDone, GuestFails, SerialSays, StageTypeOK, hostVars, monitorVars
<1>25. ASSUME NEW v \in VMs, Exit(v)
       PROVE  StageTypeOK'
  BY <1>25 DEF Exit, StageTypeOK, hostVars, monitorVars
<1>26. CASE UNCHANGED vars
  BY <1>26 DEF vars, StageTypeOK, vmVars, hostVars, monitorVars
<1>27. QED
  BY <1>1, <1>2, <1>3, <1>4, <1>5, <1>6, <1>7, <1>8, <1>9, <1>10, <1>11, <1>12, <1>13,
     <1>14, <1>15, <1>16, <1>17, <1>18, <1>19, <1>20, <1>21, <1>22, <1>23, <1>24, <1>25,
     <1>26, <1>28
     DEF Next, MainStep, MainFault, MonitorStep, GuestStep, PowerOff, Crash, Reaped

(* Every variable of a stage keeps its shape, whatever main, the threads   *)
(* and the guests do.                                                      *)
THEOREM StageTypes == Spec => []StageTypeOK
  BY TypeInit, TypeStep, PTL DEF Spec

-----------------------------------------------------------------------------
(* When a stage begins, no launcher thread exists.                         *)
LEMMA LaunchInit == Init => LaunchInv
  BY DEF Init, LaunchInv, Setup, Staggering, Trying, Leaving

(* What the launcher threads can do depends on main's place and the        *)
(* threads alone: one step for each action that changes either.            *)
LEMMA LaunchStep ==
  ASSUME StageTypeOK, LaunchInv, [Next]_vars
  PROVE  LaunchInv'
<1> USE DEF Setup, Staggering, Trying, Leaving
<1>0. N \in Nat \ {0} /\ next \in 1 .. N /\ VMs = 1 .. N
  BY StageAssumption DEF StageTypeOK, VMs
<1>1. CASE PrepareCgroup
  BY <1>1, AdvanceFacts DEF PrepareCgroup, LaunchInv, NoLaunch
<1>2. CASE SetupNetwork
  BY <1>0, <1>2 DEF SetupNetwork, LaunchInv, NoLaunch
<1>3. CASE SpawnLauncher
  <2>1. /\ main = "spawn" /\ ~staggered /\ staggered' = staggered
        /\ launcher' = [launcher EXCEPT ![next] = "barrier"]
    BY <1>3 DEF SpawnLauncher, LaunchInv
  <2>2. main' \in {"spawn", "join"}
    BY <2>1, <1>3, AdvanceFacts DEF SpawnLauncher
  <2>3. ASSUME main' = "spawn", NEW v \in VMs
        PROVE  launcher'[v] = "idle" <=> v >= next'
    BY <1>0, <1>3, <2>1, <2>3, AdvanceFacts DEF SpawnLauncher, LaunchInv, StageTypeOK
  <2>4. QED
    BY <2>1, <2>2, <2>3 DEF LaunchInv
<1>4. CASE JoinLaunchers
  BY <1>4 DEF JoinLaunchers, LaunchInv, NoLaunch, StageTypeOK
<1>5. CASE AdmitNext
  BY <1>5 DEF AdmitNext, LaunchInv, NoLaunch
<1>6. CASE AdmitStart
  BY <1>0, <1>6 DEF AdmitStart, Start, Escape, LaunchInv, NoLaunch
<1>7. CASE AdmitDone
  BY <1>0, <1>7 DEF AdmitDone, Escape, LaunchInv, NoLaunch
<1>8. CASE CheckErrors
  BY <1>0, <1>8 DEF CheckErrors, Escape, LaunchInv, NoLaunch
<1>9. CASE AllDone
  BY <1>9 DEF AllDone, LaunchInv, NoLaunch
<1>10. CASE SeeGuard
  BY <1>10 DEF SeeGuard, LaunchInv, NoLaunch
<1>11. CASE Evict
  <2>1. /\ main' \in {"evict", "validate"} /\ main = "evict"
        /\ UNCHANGED <<staggered, launcher>>
    BY <1>11, AdvanceFacts DEF Evict
  <2>2. QED
    BY <2>1 DEF LaunchInv
<1>12. CASE Validate
  BY <1>0, <1>12 DEF Validate, LaunchInv, NoLaunch
<1>13. CASE StopMonitors
  BY <1>13 DEF StopMonitors, LaunchInv, NoLaunch
<1>14. CASE JoinMonitor
  BY <1>14 DEF JoinMonitor, Fault, LaunchInv, NoLaunch
<1>15. CASE Sweep
  <2>1. /\ main' \in {"sweep", "close"} /\ main = "sweep"
        /\ UNCHANGED <<staggered, launcher>>
    BY <1>15, AdvanceFacts DEF Sweep
  <2>2. met \subseteq met'
    BY <1>15 DEF Sweep, Stop, Fault
  <2>3. QED
    BY <2>1, <2>2 DEF LaunchInv, NoLaunch
<1>16. CASE CloseNetwork
  BY <1>16 DEF CloseNetwork, LaunchInv, NoLaunch
<1>17. CASE Report
  BY <1>17 DEF Report, LaunchInv, NoLaunch
<1>18. CASE SetupFails
  BY <1>0, <1>18 DEF SetupFails, LaunchInv, NoLaunch
<1>19. CASE SpawnFails
  BY <1>0, <1>19 DEF SpawnFails, Escape, LaunchInv, NoLaunch
<1>20. CASE Interrupt
  BY <1>0, <1>20 DEF Interrupt, Fault, Escape, LaunchInv
<1>21. CASE SweepFails
  BY <1>21 DEF SweepFails, Fault, LaunchInv, NoLaunch
<1>27. CASE MonitorsFail
  BY <1>0, <1>27 DEF MonitorsFail, LaunchInv, NoLaunch
<1>22. CASE GiveReason \/ MonitorEnds \/ TripGuard
  BY <1>22 DEF GiveReason, MonitorEnds, TripGuard, LaunchInv, NoLaunch
<1>23. ASSUME NEW v \in VMs, Launch(v)
       PROVE  LaunchInv'
  <2>1. /\ launcher[v] = "barrier" /\ \A w \in VMs : launcher[w] # "idle"
        /\ launcher' = [launcher EXCEPT ![v] = "ended"]
        /\ UNCHANGED <<staggered, main, next>>
    BY <1>23 DEF Launch
  <2>2. met \subseteq met'
    BY <1>23 DEF Launch, Start, Fault
  <2>3. ~staggered /\ main \notin Setup \cup {"spawn"} \cup Trying
    BY <1>0, <2>1 DEF LaunchInv, StageTypeOK
  <2>4. main \in Leaving => "interrupt" \in met
    BY <2>1 DEF LaunchInv, NoLaunch
  <2>5. QED
    BY <2>1, <2>2, <2>3, <2>4 DEF LaunchInv
<1>24. ASSUME NEW v \in VMs, GuestStep(v) \/ Crash(v) \/ Reaped(v)
       PROVE  LaunchInv'
  <2>1. /\ UNCHANGED <<staggered, main, next, launcher>>
        /\ met \subseteq met'
    BY <1>24 DEF GuestStep, GuestReady, GuestDone, GuestFails, SerialSays, PowerOff, Crash,
                 Reaped, Exit, Fault
  <2>2. QED
    BY <2>1 DEF LaunchInv, NoLaunch
<1>25. CASE UNCHANGED vars
  BY <1>25 DEF vars, LaunchInv, NoLaunch
<1>26. QED
  BY <1>1, <1>2, <1>3, <1>4, <1>5, <1>6, <1>7, <1>8, <1>9, <1>10, <1>11, <1>12, <1>13,
     <1>14, <1>15, <1>16, <1>17, <1>18, <1>19, <1>20, <1>21, <1>22, <1>23, <1>24, <1>25,
     <1>27
     DEF Next, MainStep, MainFault, MonitorStep

(* When main has left the launches, no launcher thread can create a        *)
(* process, unless Ctrl-C cut the launches off.                            *)
THEOREM LaunchHolds == Spec => []LaunchInv
  BY StageTypes, LaunchInit, LaunchStep, PTL DEF Spec

-----------------------------------------------------------------------------
(* The admission mode never changes, a fault that was met stays met, the   *)
(* guard stays set, and a finally clause that was cut short stays so.      *)
LEMMA StepFacts ==
  ASSUME [Next]_vars
  PROVE  /\ staggered' = staggered /\ met \subseteq met' /\ (guard => guard')
         /\ ~SweepUndone' => ~SweepUndone
<1> DEFINE Kept == /\ staggered' = staggered /\ met \subseteq met' /\ (guard => guard')
                   /\ main = "cut" => main' = "cut"
<1> SUFFICES Kept
  BY DEF SweepUndone
<1>1. CASE MainStep
  <2>1. staggered' = staggered /\ met \subseteq met' /\ (guard => guard')
    BY <1>1 DEF MainStep, PrepareCgroup, SetupNetwork, SpawnLauncher, JoinLaunchers, AdmitNext,
                AdmitStart, Start, Fault, AdmitDone, CheckErrors, AllDone, SeeGuard, Evict, Stop,
                Validate, StopMonitors, JoinMonitor, Sweep, CloseNetwork, Report, monitorVars
  <2>2. main # "cut"
    BY <1>1 DEF MainStep, PrepareCgroup, SetupNetwork, SpawnLauncher, JoinLaunchers, AdmitNext,
                AdmitStart, AdmitDone, CheckErrors, AllDone, SeeGuard, Evict,
                Validate, StopMonitors, JoinMonitor, Sweep, CloseNetwork, Report
  <2>3. QED
    BY <2>1, <2>2
<1>2. CASE MainFault
  BY <1>2 DEF MainFault, SetupFails, MonitorsFail, SpawnFails, Interrupt, SweepFails, Fault, monitorVars
<1>3. CASE MonitorStep \/ TripGuard
  BY <1>3 DEF MonitorStep, GiveReason, MonitorEnds, TripGuard
<1>4. ASSUME NEW v \in VMs, Launch(v) \/ GuestStep(v) \/ Crash(v) \/ Reaped(v)
      PROVE  Kept
  BY <1>4 DEF Launch, Start, Fault, GuestStep, GuestReady, GuestDone, GuestFails, SerialSays,
              PowerOff, Crash, Reaped, Exit, monitorVars
<1>5. CASE UNCHANGED vars
  BY <1>5 DEF vars, monitorVars
<1>6. QED
  BY <1>1, <1>2, <1>3, <1>4, <1>5 DEF Next

(* A launcher thread that runs while main is past its launches does so     *)
(* after Ctrl-C only.                                                      *)
LEMMA LateLaunch ==
  ASSUME StageTypeOK, LaunchInv, NEW v \in VMs, Launch(v)
  PROVE  /\ ~staggered /\ main \notin Setup \cup {"spawn"} \cup Trying
         /\ main \in Leaving => SweepUndone
<1>1. launcher[v] = "barrier" /\ \A w \in VMs : launcher[w] # "idle"
  BY DEF Launch
<1>2. ~staggered /\ main \notin Setup \cup {"spawn"} \cup Trying
  BY <1>1, StageAssumption DEF LaunchInv, StageTypeOK, VMs
<1>3. main \in Leaving => "interrupt" \in met
  BY <1>1 DEF LaunchInv, NoLaunch
<1>4. QED
  BY <1>2, <1>3 DEF SweepUndone

(* When a stage begins, there is nothing to sweep.                         *)
LEMMA SweepInit == Init => SweepInv
  BY DEF Init, SweepInv, Setup

(* The sweep stops one VM after the other, and nothing starts behind it:   *)
(* one step for each action that changes a process, a cgroup or main's     *)
(* place.                                                                  *)
LEMMA SweepStep ==
  ASSUME StageTypeOK, LaunchInv, SweepInv, [Next]_vars
  PROVE  SweepInv'
<1> USE DEF Setup, Staggering, Trying, Leaving
<1>0. N \in Nat \ {0} /\ next \in 1 .. N /\ VMs = 1 .. N
  BY StageAssumption DEF StageTypeOK, VMs
<1>a. staggered' = staggered /\ met \subseteq met' /\ (~SweepUndone' => ~SweepUndone)
  BY StepFacts
<1>1. CASE PrepareCgroup
  BY <1>1, AdvanceFacts DEF PrepareCgroup, SweepInv, vmVars
<1>2. CASE SetupNetwork \/ JoinLaunchers \/ AdmitNext \/ AdmitDone \/ CheckErrors \/ AllDone
           \/ SeeGuard \/ Validate
  BY <1>2 DEF SetupNetwork, JoinLaunchers, AdmitNext, AdmitDone, CheckErrors, AllDone,
              SeeGuard, Validate, Escape, SweepInv
<1>3. CASE SpawnLauncher
  BY <1>3, AdvanceFacts DEF SpawnLauncher, SweepInv
<1>4. CASE AdmitStart
  BY <1>4 DEF AdmitStart, Escape, SweepInv
<1>5. CASE Evict
  <2>1. main' \in {"evict", "validate"}
    BY <1>5, AdvanceFacts DEF Evict
  <2>2. QED
    BY <2>1 DEF SweepInv
<1>6. CASE StopMonitors \/ JoinMonitor
  <2>1. main' = "quiesce" \/ (main' = "sweep" /\ next' = next /\ main = "quiesce")
    BY <1>6 DEF StopMonitors, JoinMonitor
  <2>2. main' = "quiesce" => next' = 1
    BY <1>6 DEF StopMonitors, JoinMonitor
  <2>3. QED
    BY <1>0, <2>1, <2>2 DEF SweepInv
<1>7. CASE Sweep
  <2>1. /\ main = "sweep"
        /\ proc'[next] # "running"
        /\ \A v \in VMs \ {next} : proc'[v] = proc[v]
        /\ next \in cgroup' => "stubborn" \in met'
        /\ cgroup' \subseteq cgroup
    BY <1>0, <1>7 DEF Sweep, Stop, Fault, StageTypeOK
  <2>2. \/ main' = "close" /\ next = N
        \/ main' = "sweep" /\ next' = next + 1
    BY <1>7, AdvanceFacts DEF Sweep
  <2>3. ~SweepUndone => \A v \in VMs : v <= next => proc'[v] # "running"
    BY <1>0, <2>1 DEF SweepInv
  <2>4. \A v \in VMs : v <= next /\ v \in cgroup' => "stubborn" \in met'
    BY <1>0, <1>a, <2>1 DEF SweepInv
  <2>5. CASE main' = "close"
    <3>1. \A v \in VMs : v <= next
      BY <1>0, <2>2, <2>5
    <3>2. cgroup' # {} => "stubborn" \in met'
      BY <2>1, <2>4, <3>1 DEF StageTypeOK
    <3>3. QED
      BY <1>a, <2>3, <2>5, <3>1, <3>2 DEF SweepInv
  <2>6. CASE main' = "sweep" /\ next' = next + 1
    <3>1. \A v \in VMs : v < next' => v <= next
      BY <1>0, <2>6
    <3>2. QED
      BY <1>a, <2>3, <2>4, <2>6, <3>1 DEF SweepInv
  <2>7. QED
    BY <2>2, <2>5, <2>6
<1>8. CASE CloseNetwork
  <2>1. SweepUndone' = SweepUndone
    BY <1>8 DEF CloseNetwork, SweepUndone
  <2>2. QED
    BY <1>8, <2>1 DEF CloseNetwork, SweepInv, vmVars
<1>9. CASE Report
  BY <1>9, <1>a DEF Report, SweepInv, vmVars
<1>10. CASE SetupFails
  BY <1>10 DEF SetupFails, Fault, SweepInv, vmVars, hostVars
<1>11. CASE SpawnFails \/ Interrupt
  BY <1>11 DEF SpawnFails, Interrupt, Escape, SweepInv
<1>12. CASE SweepFails \/ MonitorsFail
  <2>1. main' = "cut"
    BY <1>12 DEF SweepFails, MonitorsFail
  <2>2. QED
    BY <2>1 DEF SweepInv
<1>13. CASE GiveReason \/ MonitorEnds \/ TripGuard
  BY <1>13, <1>a DEF GiveReason, MonitorEnds, TripGuard, SweepInv, vmVars, hostVars
<1>14. ASSUME NEW v \in VMs, Launch(v)
       PROVE  SweepInv'
  <2>1. /\ main' = main /\ next' = next /\ main \notin Setup
        /\ main \in Leaving => SweepUndone'
        /\ cgroup' = cgroup /\ network' = network
    BY <1>14, <1>a, LateLaunch DEF Launch, hostVars
  <2>2. QED
    BY <1>a, <2>1 DEF SweepInv
<1>15. ASSUME NEW v \in VMs, GuestStep(v) \/ Crash(v) \/ Reaped(v)
       PROVE  SweepInv'
  <2>1. /\ UNCHANGED <<main, next, cgroup, network>>
        /\ \A w \in VMs : proc'[w] \in {proc[w], "exited"} /\ (proc[w] = "none" => proc'[w] = "none")
    BY <1>15 DEF GuestStep, GuestReady, GuestDone, GuestFails, SerialSays, PowerOff, Crash,
                 Reaped, Exit, hostVars, StageTypeOK
  <2>2. QED
    BY <1>a, <2>1 DEF SweepInv
<1>16. CASE UNCHANGED vars
  BY <1>16, <1>a DEF vars, SweepInv, vmVars, hostVars
<1>17. QED
  BY <1>1, <1>2, <1>3, <1>4, <1>5, <1>6, <1>7, <1>8, <1>9, <1>10, <1>11, <1>12, <1>13,
     <1>14, <1>15, <1>16
     DEF Next, MainStep, MainFault, MonitorStep

(* However a stage ends, nothing of it runs on (but for SweepUndone).      *)
THEOREM NothingOutlives == Spec => []NothingOutlivesStage
<1>1. SweepInv => NothingOutlivesStage
  BY DEF SweepInv, NothingOutlivesStage, Ended, SweepUndone
<1>2. QED
  BY <1>1, StageTypes, LaunchHolds, SweepInit, SweepStep, PTL DEF Spec

-----------------------------------------------------------------------------
(* When a stage begins, no launcher has ended.                             *)
LEMMA VerdictInit == Init => VerdictInv
  BY DEF Init, VerdictInv, Leaving

(* No process is ever forgotten: it is "none" only before its launch; and  *)
(* a log that says done is not written again.                              *)
LEMMA LaunchedStays ==
  ASSUME StageTypeOK, [Next]_vars, NEW v \in VMs
  PROVE  /\ proc[v] # "none" => proc'[v] # "none"
         /\ v \in errors => v \in errors'
         /\ log[v] = "done" => log'[v] = "done"
<1>1. CASE MainStep
  BY <1>1 DEF MainStep, PrepareCgroup, SetupNetwork, SpawnLauncher, JoinLaunchers, AdmitNext,
              AdmitStart, Start, Popen, AdmitDone, CheckErrors, AllDone, SeeGuard, Evict, Stop,
              Validate, StopMonitors, JoinMonitor, Sweep, CloseNetwork, Report, vmVars,
              StageTypeOK
<1>2. CASE MainFault
  BY <1>2 DEF MainFault, SetupFails, MonitorsFail, SpawnFails, Interrupt, SweepFails, vmVars
<1>3. CASE MonitorStep \/ TripGuard
  BY <1>3 DEF MonitorStep, GiveReason, MonitorEnds, TripGuard, vmVars
<1>4. ASSUME NEW w \in VMs, Launch(w) \/ GuestStep(w) \/ Crash(w) \/ Reaped(w)
      PROVE  /\ proc[v] # "none" => proc'[v] # "none"
             /\ v \in errors => v \in errors'
             /\ log[v] = "done" => log'[v] = "done"
  BY <1>4 DEF Launch, Start, Popen, GuestStep, GuestReady, GuestDone, GuestFails, SerialSays,
              PowerOff, Crash, Reaped, Exit, vmVars, StageTypeOK
<1>5. CASE UNCHANGED vars
  BY <1>5 DEF vars, vmVars
<1>6. QED
  BY <1>1, <1>2, <1>3, <1>4, <1>5 DEF Next

(* Only a stage that has launched all its VMs and seen every log say done  *)
(* goes on without an exception: one step for each action.                 *)
LEMMA VerdictStep ==
  ASSUME StageTypeOK, LaunchInv, VerdictInv, [Next]_vars
  PROVE  VerdictInv'
<1> USE DEF Setup, Staggering, Trying, Leaving
<1>0. N \in Nat \ {0} /\ next \in 1 .. N /\ VMs = 1 .. N
  BY StageAssumption DEF StageTypeOK, VMs
<1>a. guard => guard'
  BY StepFacts
<1>b. \A v \in VMs : /\ proc[v] # "none" => proc'[v] # "none"
                     /\ v \in errors => v \in errors'
                     /\ log[v] = "done" => log'[v] = "done"
  BY LaunchedStays
<1>1. CASE PrepareCgroup \/ SpawnLauncher
  <2>1. /\ main' \in {"prepare", "network", "spawn", "join"}
        /\ \A v \in VMs : launcher'[v] = "ended" => launcher[v] = "ended"
    BY <1>1, AdvanceFacts DEF PrepareCgroup, SpawnLauncher, StageTypeOK
  <2>2. QED
    BY <1>b, <2>1 DEF VerdictInv
<1>2. CASE SetupNetwork
  BY <1>0, <1>2, <1>b DEF SetupNetwork, LaunchInv, VerdictInv
<1>3. CASE JoinLaunchers
  BY <1>3, <1>b DEF JoinLaunchers, VerdictInv
<1>4. CASE AdmitNext
  BY <1>4, <1>b DEF AdmitNext, VerdictInv, monitorVars
<1>5. CASE AdmitStart
  <2>1. \/ main' = "cleanup" /\ raising' = TRUE
        \/ main' = "started" /\ next' = next /\ errors' = {}
    BY <1>5 DEF AdmitStart, Escape
  <2>2. /\ launcher' = launcher
        /\ main = "start"
        /\ proc'[next] # "none" \/ next \in errors'
    BY <1>0, <1>5 DEF AdmitStart, Start, Popen, StageTypeOK
  <2>3. CASE main' = "cleanup" /\ raising' = TRUE
    BY <1>b, <2>2, <2>3 DEF VerdictInv
  <2>4. CASE main' = "started" /\ next' = next /\ errors' = {}
    <3>1. \A v \in VMs : v <= next => v < next \/ v = next
      BY <1>0
    <3>2. \A v \in VMs : v <= next => proc'[v] # "none"
      BY <1>b, <2>2, <2>4, <3>1 DEF VerdictInv
    <3>3. QED
      BY <1>b, <2>2, <2>4, <3>2 DEF VerdictInv
  <2>5. QED
    BY <2>1, <2>3, <2>4
<1>6. CASE AdmitDone
  <2>1. main = "started" /\ UNCHANGED <<launcher, errors>>
    BY <1>6 DEF AdmitDone
  <2>2. \/ main' = "cleanup" /\ raising'
        \/ main' = "check" /\ next = N
        \/ main' = "admit" /\ next' = next + 1
    BY <1>6 DEF AdmitDone, Escape
  <2>3. \A v \in VMs : v <= next => proc'[v] # "none"
    BY <1>b, <2>1 DEF VerdictInv
  <2>4. CASE main' = "cleanup" /\ raising'
    BY <1>b, <2>1, <2>4 DEF VerdictInv
  <2>5. CASE main' = "check" /\ next = N
    BY <1>0, <1>b, <2>1, <2>3, <2>5 DEF VerdictInv
  <2>6. CASE main' = "admit" /\ next' = next + 1
    BY <1>0, <1>b, <2>1, <2>3, <2>6 DEF VerdictInv
  <2>7. QED
    BY <2>2, <2>4, <2>5, <2>6
<1>7. CASE CheckErrors
  <2>1. /\ main = "check" /\ UNCHANGED <<launcher, guard, proc, errors>>
        /\ \/ main' = "cleanup" /\ raising'
           \/ main' = "wait" /\ errors = {}
    BY <1>7 DEF CheckErrors, Escape, vmVars, monitorVars
  <2>2. QED
    BY <1>b, <2>1 DEF VerdictInv
<1>8. CASE AllDone \/ SeeGuard
  BY <1>8, <1>b DEF AllDone, SeeGuard, VerdictInv, monitorVars
<1>9. CASE Evict
  <2>1. main = "evict" /\ main' \in {"evict", "validate"} /\ UNCHANGED <<launcher, errors>>
    BY <1>9, AdvanceFacts DEF Evict
  <2>2. guard'
    BY <1>a, <2>1 DEF VerdictInv
  <2>3. QED
    BY <1>b, <2>1, <2>2 DEF VerdictInv
<1>10. CASE Validate
  <2>1. /\ main = "validate" /\ main' = "cleanup"
        /\ UNCHANGED <<launcher, guard, proc, errors, log>>
        /\ ~raising' => guard \/ Valid
    BY <1>10 DEF Validate, vmVars, monitorVars
  <2>2. ~guard /\ Valid => \A v \in VMs : log[v] = "done"
    BY <2>1 DEF VerdictInv, Valid, Launched
  <2>3. QED
    BY <1>b, <2>1, <2>2 DEF VerdictInv
<1>11. CASE StopMonitors \/ JoinMonitor
  BY <1>11, <1>a, <1>b DEF StopMonitors, JoinMonitor, VerdictInv, hostVars
<1>12. CASE Sweep
  <2>1. /\ main = "sweep" /\ main' \in {"sweep", "close"}
        /\ UNCHANGED <<launcher, errors, raising>>
    BY <1>12, AdvanceFacts DEF Sweep
  <2>2. QED
    BY <1>a, <1>b, <2>1 DEF VerdictInv
<1>13. CASE CloseNetwork
  BY <1>13, <1>a, <1>b DEF CloseNetwork, VerdictInv
<1>14. CASE Report
  <2>1. /\ main = "report" /\ main' = "returned"
        /\ UNCHANGED <<launcher, errors, raising>>
    BY <1>14 DEF Report
  <2>2. report'.guard = guard
    BY <1>14 DEF Report
  <2>3. QED
    BY <1>14, <1>a, <1>b, <2>1, <2>2 DEF Report, VerdictInv
<1>15. CASE SetupFails \/ MonitorsFail \/ SweepFails
  BY <1>15, <1>b DEF SetupFails, MonitorsFail, SweepFails, VerdictInv
<1>16. CASE SpawnFails \/ Interrupt
  BY <1>16, <1>b DEF SpawnFails, Interrupt, Escape, VerdictInv
<1>17. CASE GiveReason \/ MonitorEnds \/ TripGuard
  BY <1>17, <1>a, <1>b DEF GiveReason, MonitorEnds, TripGuard, VerdictInv, hostVars
<1>18. ASSUME NEW v \in VMs, Launch(v)
       PROVE  VerdictInv'
  <2>1. /\ UNCHANGED <<main, next, raising, report, guard>>
        /\ launcher' = [launcher EXCEPT ![v] = "ended"]
        /\ proc'[v] # "none" \/ v \in errors'
    BY <1>18 DEF Launch, Start, Popen, StageTypeOK, hostVars, monitorVars
  <2>2. \A w \in VMs : launcher'[w] = "ended" => proc'[w] # "none" \/ w \in errors'
    BY <1>b, <2>1 DEF VerdictInv, StageTypeOK
  <2>3. QED
    BY <1>b, <2>1, <2>2 DEF VerdictInv
<1>19. ASSUME NEW v \in VMs, GuestStep(v) \/ Crash(v) \/ Reaped(v)
       PROVE  VerdictInv'
  <2>1. UNCHANGED <<main, next, launcher, errors, raising, report, guard>>
    BY <1>19 DEF GuestStep, GuestReady, GuestDone, GuestFails, SerialSays, PowerOff, Crash,
                 Reaped, Exit, hostVars, monitorVars
  <2>2. QED
    BY <1>b, <2>1 DEF VerdictInv
<1>20. CASE UNCHANGED vars
  BY <1>20 DEF vars, VerdictInv, vmVars, hostVars, monitorVars
<1>21. QED
  BY <1>1, <1>2, <1>3, <1>4, <1>5, <1>6, <1>7, <1>8, <1>9, <1>10, <1>11, <1>12, <1>13,
     <1>14, <1>15, <1>16, <1>17, <1>18, <1>19, <1>20
     DEF Next, MainStep, MainFault, MonitorStep

(* When a stage begins, the monitor is off and the guard is not set.       *)
LEMMA GuardInit == Init => GuardInv
  BY DEF Init, GuardInv, Setup

(* Once the monitor has ended, nobody sets the guard any more.             *)
LEMMA GuardStep ==
  ASSUME GuardInv, [Next]_vars
  PROVE  GuardInv'
<1> USE DEF Setup
<1>0. met \subseteq met'
  BY StepFacts
<1>1. CASE PrepareCgroup \/ SpawnLauncher \/ Evict \/ Sweep
  <2>1. /\ UNCHANGED monitorVars /\ UNCHANGED report
        /\ \/ main = "prepare" /\ main' \in {"prepare", "network"}
           \/ main = "spawn" /\ main' \in {"spawn", "join"}
           \/ main = "evict" /\ main' \in {"evict", "validate"}
           \/ main = "sweep" /\ main' \in {"sweep", "close"}
    BY <1>1 DEF PrepareCgroup, SpawnLauncher, Evict, Sweep, Advance, hostVars, monitorVars
  <2>2. QED
    BY <1>0, <2>1 DEF GuardInv, monitorVars
<1>2. CASE SetupNetwork
  BY <1>2 DEF SetupNetwork, GuardInv
<1>3. CASE JoinLaunchers \/ AdmitNext \/ AdmitStart \/ AdmitDone \/ CheckErrors \/ AllDone
           \/ SeeGuard \/ Validate \/ StopMonitors
  BY <1>3 DEF JoinLaunchers, AdmitNext, AdmitStart, AdmitDone, CheckErrors, AllDone, SeeGuard,
              Validate, StopMonitors, Escape, GuardInv, monitorVars
<1>4. CASE JoinMonitor
  BY <1>4 DEF JoinMonitor, Fault, GuardInv, monitorVars
<1>5. CASE CloseNetwork
  BY <1>0, <1>5 DEF CloseNetwork, GuardInv, monitorVars
<1>6. CASE Report
  BY <1>6 DEF Report, GuardInv, monitorVars
<1>7. CASE MainFault
  BY <1>7 DEF MainFault, SetupFails, MonitorsFail, SpawnFails, Interrupt, SweepFails, Escape, GuardInv,
              monitorVars
<1>8. CASE MonitorStep \/ TripGuard
  BY <1>8 DEF MonitorStep, GiveReason, MonitorEnds, TripGuard, GuardInv, hostVars
<1>9. ASSUME NEW v \in VMs, Launch(v) \/ GuestStep(v) \/ Crash(v) \/ Reaped(v)
      PROVE  GuardInv'
  <2>1. UNCHANGED monitorVars /\ UNCHANGED <<main, report>>
    BY <1>9 DEF Launch, GuestStep, GuestReady, GuestDone, GuestFails, SerialSays, PowerOff,
                Crash, Reaped, Exit, hostVars
  <2>2. QED
    BY <1>0, <2>1 DEF GuardInv, monitorVars
<1>10. CASE UNCHANGED vars
  BY <1>10 DEF vars, GuardInv, hostVars, monitorVars
<1>11. QED
  BY <1>1, <1>2, <1>3, <1>4, <1>5, <1>6, <1>7, <1>8, <1>9, <1>10 DEF Next, MainStep

(* A result counts every session as done, or reports the guard with its    *)
(* reason (but for a monitor that outlived its join).                      *)
THEOREM ResultComplete == Spec => []ResultIsComplete
<1>1. VerdictInv /\ GuardInv => ResultIsComplete
  BY DEF VerdictInv, GuardInv, ResultIsComplete
<1>2. QED
  BY <1>1, StageTypes, LaunchHolds, VerdictInit, VerdictStep, GuardInit, GuardStep, PTL
     DEF Spec

-----------------------------------------------------------------------------
(* When a stage begins, no process was created under the guard.            *)
LEMMA LateInit == Init => LateInv
<1>1. 1 \in VMs
  BY StageAssumption DEF VMs
<1>2. QED
  BY <1>1 DEF Init, LateInv

(* Only AdmitStart creates a process in staggered admission, and between   *)
(* its check of the guard and the launch nothing of main's happens.        *)
LEMMA LateStep ==
  ASSUME StageTypeOK, LaunchInv, LateInv, [Next]_vars
  PROVE  LateInv'
<1> SUFFICES ASSUME staggered
             PROVE  /\ \E v \in VMs : late' \subseteq {v}
                    /\ late' # {} => guard'
                    /\ main' = "start" => late' = {}
  BY StepFacts DEF LateInv
<1>0. (guard => guard') /\ next \in VMs
  BY StepFacts DEF StageTypeOK
<1>1. CASE AdmitNext
  BY <1>1 DEF AdmitNext, LateInv, monitorVars
<1>2. CASE AdmitStart
  <2>1. main' \in {"started", "cleanup"} /\ late = {}
    BY <1>2 DEF AdmitStart, Escape, LateInv
  <2>2. late' = {} \/ (late' = {next} /\ guard)
    BY <1>2, <2>1 DEF AdmitStart, Start, Popen
  <2>3. QED
    BY <1>0, <2>1, <2>2
<1>3. CASE late' = late /\ (main' = "start" => main = "start")
  BY <1>0, <1>3 DEF LateInv
<1>4. CASE MainStep
  <2>1. CASE PrepareCgroup \/ SpawnLauncher \/ Evict \/ Sweep
    <3>1. /\ late' = late
          /\ \/ main = "prepare" /\ main' \in {"prepare", "network"}
             \/ main = "spawn" /\ main' \in {"spawn", "join"}
             \/ main = "evict" /\ main' \in {"evict", "validate"}
             \/ main = "sweep" /\ main' \in {"sweep", "close"}
      BY <2>1 DEF PrepareCgroup, SpawnLauncher, Evict, Sweep, Advance
    <3>2. QED
      BY <1>3, <3>1
  <2>2. CASE \/ SetupNetwork \/ JoinLaunchers \/ AdmitDone \/ CheckErrors \/ AllDone \/ SeeGuard
             \/ Validate \/ StopMonitors \/ JoinMonitor \/ CloseNetwork \/ Report
    BY <1>3, <2>2
       DEF SetupNetwork, JoinLaunchers, AdmitDone, CheckErrors, AllDone, SeeGuard, Validate,
           StopMonitors, JoinMonitor, CloseNetwork, Report, Escape
  <2>3. QED
    BY <1>1, <1>2, <1>4, <2>1, <2>2 DEF MainStep
<1>5. CASE MainFault
  BY <1>3, <1>5 DEF MainFault, SetupFails, MonitorsFail, SpawnFails, Interrupt, SweepFails, Escape
<1>6. CASE MonitorStep \/ TripGuard
  BY <1>3, <1>6 DEF MonitorStep, GiveReason, MonitorEnds, TripGuard
<1>7. ASSUME NEW v \in VMs, Launch(v)
      PROVE  FALSE
  BY <1>7, LateLaunch
<1>8. ASSUME NEW v \in VMs, GuestStep(v) \/ Crash(v) \/ Reaped(v)
      PROVE  UNCHANGED <<main, late>>
  BY <1>8 DEF GuestStep, GuestReady, GuestDone, GuestFails, SerialSays, PowerOff, Crash,
              Reaped, Exit
<1>9. CASE UNCHANGED vars
  BY <1>3, <1>9 DEF vars
<1>10. QED
  BY <1>3, <1>4, <1>5, <1>6, <1>7, <1>8, <1>9 DEF Next

(* Staggered admission creates at most one VM after the guard was set.     *)
THEOREM AtMostOneLate == Spec => []GuardStopsAdmission
<1>1. LateInv => GuardStopsAdmission
  <2> SUFFICES ASSUME LateInv, staggered
               PROVE  Cardinality(late) <= 1
    BY DEF GuardStopsAdmission
  <2>1. PICK v \in VMs : late \subseteq {v}
    BY DEF LateInv
  <2>2. late = {} \/ late = {v}
    BY <2>1
  <2>3. QED
    BY <2>2, FS_EmptySet, FS_Singleton
<1>2. QED
  BY <1>1, StageTypes, LaunchHolds, LateInit, LateStep, PTL DEF Spec
=============================================================================
