--------------------------- MODULE ProcessSampler ---------------------------
(***************************************************************************)
(* process_sampler.py: a loop that finds the descendants of the root       *)
(* processes and writes start, sample and exit_observed events for them,   *)
(* while processes start, exit and take over the pids of dead ones.        *)
(***************************************************************************)
EXTENDS Naturals, Sequences, Functions

CONSTANTS
  Pids,     (* process ids                                                 *)
  Root,     (* --root-pid                                                  *)
  MaxForks  (* bound: processes started                                    *)

VARIABLES
  born,      (* /proc: each pid's start_ticks, 0 when there is no process  *)
  parent,    (* its ppid                                                   *)
  forks,     (* processes started so far                                   *)
  known,     (* known_pids                                                 *)
  seen,      (* seen: keys (pid, start_ticks)                              *)
  activeKeys,(* active                                                     *)
  events,    (* the events written for each key; samples in a row are one  *)
  sampling   (* running                                                    *)

proc == <<born, parent, forks>>
samplerVars == <<proc, known, seen, activeKeys, events, sampling>>

Keys == Pids \X (1 .. MaxForks + 1)

SamplerInit ==
  /\ born = [p \in Pids |-> IF p = Root THEN 1 ELSE 0]
  /\ parent = [p \in Pids |-> 0]
  /\ forks = 0
  /\ known = {Root}
  /\ seen = {}
  /\ activeKeys = {}
  /\ events = [k \in Keys |-> <<>>]
  /\ sampling = TRUE

Living == {p \in Pids : born[p] > 0}

\* A process starts another one; a daemon of the host (0) may as well.
Fork(p, child) ==
  /\ forks < MaxForks
  /\ p \in Living \cup {0}
  /\ child \notin Living
  /\ forks' = forks + 1
  /\ born' = [born EXCEPT ![child] = forks' + 1]
  /\ parent' = [parent EXCEPT ![child] = p]
  /\ UNCHANGED <<known, seen, activeKeys, events, sampling>>

\* The children of a process that exits go to init.
Exit(p) ==
  /\ p \in Living
  /\ born' = [born EXCEPT ![p] = 0]
  /\ parent' = [q \in Pids |-> IF parent[q] = p \/ q = p THEN 0 ELSE parent[q]]
  /\ UNCHANGED <<forks, known, seen, activeKeys, events, sampling>>

\* discover_descendants: the least set that has the known pids, dead ones too,
\* and every child of its members.
Discover ==
  /\ sampling
  /\ known' = CHOOSE found \in SUBSET Pids :
                /\ known \subseteq found
                /\ \A p \in Living : parent[p] \in found => p \in found
                /\ \A other \in SUBSET found :
                     known \subseteq other /\ (\A p \in Living : parent[p] \in other => p \in other)
                       => other = found
  /\ UNCHANGED <<proc, seen, activeKeys, events, sampling>>

KeysOf(pids) == {<<p, born[p]>> : p \in pids}

Add(key, kind, log) == IF log # <<>> /\ log[Len(log)] = kind THEN log ELSE Append(log, kind)

\* Mutant of Round: keys that were not read are taken out of seen as well, as if
\* to keep it small.
RoundForgets(unreadable) ==
  LET current == KeysOf((known \cap Living) \ unreadable)
      new == current \ seen
  IN /\ sampling
     /\ seen' = current
     /\ activeKeys' = current
     /\ events' = [k \in Keys |->
          CASE k \in new -> events[k] \o <<"start", "sample">>
            [] k \in current \ new -> Add(k, "sample", events[k])
            [] k \in activeKeys \ current -> Append(events[k], "exit")
            [] OTHER -> events[k]]
     /\ UNCHANGED <<proc, known, sampling>>

\* One round: read_process for every known pid (it fails for some that live,
\* when they may not be inspected), a start for each new key and a sample for
\* each key, then exit_observed for each active key that was not read.
Round(unreadable) ==
  LET current == KeysOf((known \cap Living) \ unreadable)
      new == current \ seen
  IN /\ sampling
     /\ seen' = seen \cup new
     /\ activeKeys' = (activeKeys \cup new) \cap current
     /\ events' = [k \in Keys |->
          CASE k \in new -> events[k] \o <<"start", "sample">>
            [] k \in current \ new -> Add(k, "sample", events[k])
            [] k \in activeKeys \ current -> Append(events[k], "exit")
            [] OTHER -> events[k]]
     /\ UNCHANGED <<proc, known, sampling>>

\* SIGTERM or SIGINT: the processes that are still active get no more events.
Stop ==
  /\ sampling
  /\ sampling' = FALSE
  /\ UNCHANGED <<proc, known, seen, activeKeys, events>>

SamplerNext ==
  \/ \E p \in Pids \cup {0}, child \in Pids : Fork(p, child)
  \/ \E p \in Pids : Exit(p)
  \/ Discover
  \/ \E unreadable \in SUBSET Living : Round(unreadable)
  \/ Stop

(***************************************************************************)
(* Properties.                                                             *)
(***************************************************************************)

\* Each process, told from an earlier one with its pid by its start time, gets
\* one start, before its first sample, and at most one exit; it is active
\* exactly between the two.  (After a round that could not read it, samples
\* follow its exit, and no second exit.)
EventsPaired ==
  /\ \A k \in Keys :
       /\ events[k] \in {<<>>, <<"start", "sample">>, <<"start", "sample", "exit">>,
                         <<"start", "sample", "exit", "sample">>}
       /\ k \in activeKeys <=> Len(events[k]) = 2
  /\ \A j, k \in activeKeys : j[1] = k[1] => j = k

=============================================================================
