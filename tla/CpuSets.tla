------------------------------- MODULE CpuSets -------------------------------
(***************************************************************************)
(* CPU lists such as "0-3,8".  The experiment finds the CPUs it may use    *)
(* (cpuset), writes them as a list (format_cpu_list) and pins VMMs and     *)
(* servers with it; three other scripts read such lists with readers of    *)
(* their own.  A list is a sequence of parts, each the pair of its bounds. *)
(***************************************************************************)
EXTENDS Naturals, Sequences, SequencesExt, FiniteSets

CONSTANT Cpus   (* numbers of CPUs                                         *)

VARIABLE input  (* what the host has: override, online, affinity           *)

\* An online list may be missing; the affinity of a process never is.
CpuInit ==
  input \in [override : {<<>>, << <<1, 2>>, <<2, 2>> >>}, online : SUBSET Cpus,
             affinity : SUBSET Cpus \ {{}}]

Ascending(cpus) ==
  CHOOSE o \in [1 .. Cardinality(cpus) -> cpus] : \A i, j \in DOMAIN o : i < j => o[i] < o[j]

\* The list that every reader extends part by part, before it sorts its set.
Expanded(parts) ==
  FlattenSeq([n \in DOMAIN parts |-> [k \in 1 .. parts[n][2] - parts[n][1] + 1 |->
                                        parts[n][1] + k - 1]])

ParseCpuList(parts) == Ascending(Range(Expanded(parts)))

\* The readers of the other scripts.
Node0ParseCpus(parts) == Ascending(Range(Expanded(parts)))

ColocateParseCpuList(parts) == IF parts = <<>> THEN <<>> ELSE Ascending(Range(Expanded(parts)))

YigCpusetCpus(parts) == Ascending(Range(Expanded(parts)))

\* The CPUs of the experiment: MICROVM_CPUSET, or those that are online and in
\* its affinity.
Cpuset(host) ==
  IF host.override # <<>> THEN ParseCpuList(host.override)
  ELSE IF host.online = {} THEN Ascending(host.affinity)
  ELSE Ascending(host.online \cap host.affinity)

\* The loop of format_cpu_list: the ranges so far, the last of them the one it
\* is in.  It raises when there is no CPU.
FormatCpuList(cpus) ==
  LET extend(ranges, cpu) ==
        LET last == ranges[Len(ranges)]
        IN IF cpu = last[2] + 1
           THEN [ranges EXCEPT ![Len(ranges)] = <<last[1], cpu>>]
           ELSE Append(ranges, <<cpu, cpu>>)
      ranges[n \in 1 .. Len(cpus)] ==
        IF n = 1 THEN << <<cpus[1], cpus[1]>> >> ELSE extend(ranges[n - 1], cpus[n])
  IN ranges[Len(cpus)]

(***************************************************************************)
(* Properties.                                                             *)
(***************************************************************************)

\* Whatever CPUs the host has, the list that is written names exactly those to
\* each of the four readers, in as few parts as there can be, and no CPU that
\* the process may not use unless MICROVM_CPUSET names it.
ListsRoundTrip ==
  LET cpus == Cpuset(input)
      parts == FormatCpuList(cpus)
      starts == {c \in Range(cpus) : c - 1 \notin Range(cpus)}
  IN cpus # <<>> =>
       /\ ParseCpuList(parts) = cpus /\ Node0ParseCpus(parts) = cpus
       /\ ColocateParseCpuList(parts) = cpus /\ YigCpusetCpus(parts) = cpus
       /\ Len(parts) = Cardinality(starts)
       /\ input.override = <<>> => Range(cpus) \subseteq input.affinity

=============================================================================
