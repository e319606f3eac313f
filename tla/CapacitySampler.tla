--------------------------- MODULE CapacitySampler ---------------------------
(***************************************************************************)
(* The sampling loop of colocate_openhands_docker_replays.py: it reads the *)
(* process table, then asks Docker for the containers, adds up the CPU     *)
(* time of the processes below the replays and the containers, and stops   *)
(* when the chosen CPUs have been busy for enough samples in a row or the  *)
(* containers' memory reaches a limit.  Processes start, work and end, and *)
(* pids are used again, all the while.                                     *)
(***************************************************************************)
EXTENDS Naturals, FiniteSets, FiniteSetsExt

CONSTANTS
  Pids,       (* process ids                                               *)
  Replay,     (* the pid of a replay; it is not reaped during the loop     *)
  MaxForks,   (* bound: processes started                                  *)
  MaxTicks,   (* bound: ticks of the chosen CPUs                           *)
  CpuLimit,   (* --cpu-stop-percent                                        *)
  Sustain,    (* --sustain-samples                                         *)
  MemoryLimit (* --memory-stop-percent of the capacity, in pages           *)

VARIABLES
  proc,       (* /proc: parent, start_ticks and CPU time of each process   *)
  inits,      (* the pids of the running containers                        *)
  forks,
  total,      (* ticks of the chosen CPUs so far                           *)
  busy,       (* those of them that were not idle                          *)
  charged,    (* memory.current of the containers, together                *)
  loop,       (* "read", "account" or "over"                               *)
  processes,  (* process_table, empty between the rounds                   *)
  previousCpu,       (* previous_cpu: the CPU time of each (pid, start)    *)
  previousCapacity,  (* previous_capacity_cpu, an empty set before the first *)
  sustained,
  stopReason,
  counted,    (* for each (pid, start) the sum of its shares of cpu_ms     *)
  first,      (* for each (pid, start) its CPU time when it was first seen *)
  calm        (* the host's counters when sustained was last 0             *)

machine == <<proc, inits, forks, total, busy, charged>>
counters == <<previousCpu, previousCapacity, sustained, counted, first, calm>>
capacityVars == <<machine, loop, processes, counters, stopReason>>

Nothing == [k \in {} |-> 0]

CapacityInit ==
  /\ proc = [p \in {Replay} |-> [parent |-> 0, start |-> 1, ticks |-> 0]]
  /\ inits = {}
  /\ forks = 0
  /\ total = 0 /\ busy = 0 /\ charged = 0
  /\ loop = "read"
  /\ processes = Nothing
  /\ previousCpu = Nothing
  /\ previousCapacity = {}
  /\ sustained = 0
  /\ stopReason = "none"
  /\ counted = Nothing
  /\ first = Nothing
  /\ calm = <<0, 0>>

(***************************************************************************)
(* The host.                                                               *)
(***************************************************************************)

Living == DOMAIN proc

Machine(step) == loop # "over" /\ step /\ UNCHANGED <<loop, processes, counters, stopReason>>

\* A process starts a child; the Docker daemon (0) starts a container's.
Fork(p, child) ==
  /\ forks < MaxForks
  /\ p \in Living \cup {0}
  /\ child \in Pids \ Living
  /\ forks' = forks + 1
  /\ proc' = [q \in Living \cup {child} |->
                IF q = child THEN [parent |-> p, start |-> forks' + 1, ticks |-> 0] ELSE proc[q]]
  /\ inits' = IF p = 0 THEN inits \cup {child} ELSE inits
  /\ UNCHANGED <<total, busy, charged>>

\* Its children go to init.
Exit(p) ==
  /\ p \in Living \ {Replay}
  /\ proc' = [q \in Living \ {p} |-> IF proc[q].parent = p THEN [proc[q] EXCEPT !.parent = 0] ELSE proc[q]]
  /\ inits' = inits \ {p}
  /\ UNCHANGED <<forks, total, busy, charged>>

\* A tick of one of the CPUs: for a process, or for nobody.
Tick(p) ==
  /\ total < MaxTicks
  /\ total' = total + 1
  /\ \/ /\ p \in Living
        /\ proc' = [proc EXCEPT ![p].ticks = @ + 1]
        /\ busy' = busy + 1
     \/ p = 0 /\ UNCHANGED <<proc, busy>>
  /\ UNCHANGED <<inits, forks, charged>>

Charge ==
  /\ charged' = IF inits = {} THEN 0 ELSE 1 - charged
  /\ charged' # charged
  /\ UNCHANGED <<proc, inits, forks, total, busy>>

(***************************************************************************)
(* One sample.                                                             *)
(***************************************************************************)

\* all_procs
ReadTable ==
  /\ loop = "read"
  /\ processes' = proc
  /\ loop' = "account"
  /\ UNCHANGED <<machine, counters, stopReason>>

\* The loop ends: a signal, or no replay is left.
LoopEnds ==
  /\ loop = "read"
  /\ loop' = "over"
  /\ UNCHANGED <<machine, processes, counters, stopReason>>

\* descendants: the least set with the roots, of the table or not, and the
\* children of its members.
Descendants(roots) ==
  LET closed(pids) == \A q \in DOMAIN processes : processes[q].parent \in pids => q \in pids
      closures == {pids \in SUBSET Pids : roots \subseteq pids /\ closed(pids)}
  IN CHOOSE pids \in closures : \A other \in closures : pids \subseteq other

\* docker_containers: those that run by now, and that inspect still finds.
DockerContainers == SUBSET inits

Key(p) == <<p, processes[p].start>>

\* Mutant of CpuOf: what a process used before it was first seen counts too.
CpuOfFromZero(key, current) ==
  current - (IF key \in DOMAIN previousCpu THEN previousCpu[key] ELSE 0)

\* The share of cpu_ms of one process, and what previous_cpu keeps of it.
CpuOf(key, current) == IF key \in DOMAIN previousCpu THEN current - previousCpu[key] ELSE 0

Account(containers) ==
  LET pids == (Descendants({Replay}) \cup Descendants(containers)) \cap DOMAIN processes
      keys == {Key(p) : p \in pids}
      ticks(key) == processes[key[1]].ticks
      known == keys \cup DOMAIN previousCpu
  IN /\ counted' = [k \in known |-> (IF k \in DOMAIN counted THEN counted[k] ELSE 0)
                                    + IF k \in keys THEN CpuOf(k, ticks(k)) ELSE 0]
     /\ previousCpu' = [k \in known |-> IF k \in keys THEN ticks(k) ELSE previousCpu[k]]
     /\ first' = [k \in known |-> IF k \in DOMAIN first THEN first[k] ELSE ticks(k)]

\* selected_cpu_ticks since the sample before: at the limit or over it.  With
\* no tick in between the share is taken to be 0.
Saturated ==
  \E p \in previousCapacity :
    /\ total > p[1]
    /\ (busy - p[2]) * 100 >= CpuLimit * (total - p[1])

CountSustained ==
  /\ sustained' = IF Saturated THEN sustained + 1 ELSE 0
  /\ calm' = IF Saturated THEN calm ELSE <<total, busy>>
  /\ previousCapacity' = {<<total, busy>>}

\* The end of the round: the CPUs are looked at first, then the memory, which
\* is not read in every round.
Sample ==
  /\ loop = "account"
  /\ \E containers \in DockerContainers : Account(containers)
  /\ CountSustained
  /\ \/ /\ sustained' >= Sustain
        /\ stopReason' = "sustained_host_cpu" /\ loop' = "over"
     \/ /\ sustained' < Sustain /\ charged >= MemoryLimit
        /\ stopReason' = "docker_cgroup_memory_limit" /\ loop' = "over"
     \/ /\ sustained' < Sustain
        /\ stopReason' = "none" /\ loop' = "read"
  /\ processes' = Nothing
  /\ UNCHANGED machine

CapacityNext ==
  \/ \E p \in Pids \cup {0}, child \in Pids : Machine(Fork(p, child))
  \/ \E p \in Pids : Machine(Exit(p))
  \/ \E p \in Pids \cup {0} : Machine(Tick(p))
  \/ Machine(Charge)
  \/ ReadTable \/ LoopEnds \/ Sample

(***************************************************************************)
(* Properties.                                                             *)
(***************************************************************************)

\* The shares of cpu_ms of a process add up to the time it used between the
\* first and the last sample that saw it, also when it was not seen in
\* between or its pid has been used again; and the CPUs were busy to the limit
\* over all of the samples that sustained counts, taken together.
SamplesAddUp ==
  /\ \A k \in DOMAIN counted :
       /\ counted[k] = previousCpu[k] - first[k]
       /\ k[1] \in Living /\ proc[k[1]].start = k[2] => previousCpu[k] <= proc[k[1]].ticks
  /\ sustained > 0 => \E p \in previousCapacity :
       /\ p[1] >= calm[1] + sustained
       /\ (p[2] - calm[2]) * 100 >= CpuLimit * (p[1] - calm[1])
  /\ stopReason = "sustained_host_cpu" => sustained = Sustain

=============================================================================
