------------------------------- MODULE Tools --------------------------------
(***************************************************************************)
(* The tools beside the experiments, which share no state: a behaviour is  *)
(* a run of one of them, the others stay as they begin.                    *)
(***************************************************************************)
EXTENDS SandboxTpp, FiniteSets

CONSTANTS
  SpanIds, MaxRss,                                                     \* NodeTrace
  Pids, Root, MaxForks,                                                \* ProcessSampler
  FewPids, MaxTicks, CpuLimit, Sustain, MemoryLimit,                   \* CapacitySampler
  Listed, TraceLength, ProfileMaxTurns                                 \* SingleInstance

\* What the parsers demand of their arguments, and that a percentage to be
\* reached, a number of samples and a bound are what they are called; a catalog
\* lists something.
ASSUME ToolsAssumption ==
  /\ MaxRss \in Nat /\ MaxForks \in Nat
  /\ CpuLimit \in Nat \ {0} /\ Sustain \in Nat
  /\ Listed \in Nat \ {0} /\ TraceLength \in Nat

VARIABLES
  program,
  span, own, sampled, peak, samplerStarted, samplers, reading, rss, highest, early, late, starts,
  ends,
  born, parent, forks, known, seen, activeKeys, events, sampling,
  proc, inits, capacityForks, total, busy, charged, loop, processes, previousCpu,
  previousCapacity, sustained, stopReason, counted, first, calm,
  trace, catalog, turn, seconds, profiles, failures, representative, lent, stageDir, exit

nodeVars == <<span, own, sampled, peak, samplerStarted, samplers, reading, rss, highest, early,
              late, starts, ends>>
samplerVars == <<born, parent, forks, known, seen, activeKeys, events, sampling>>
capacityVars == <<proc, inits, capacityForks, total, busy, charged, loop, processes, previousCpu,
                  previousCapacity, sustained, stopReason, counted, first, calm>>
singleVars == <<trace, catalog, turn, seconds, profiles, failures, representative, lent, stageDir,
                exit>>

Node == INSTANCE NodeTrace
Sampler == INSTANCE ProcessSampler
Capacity == INSTANCE CapacitySampler WITH forks <- capacityForks, Pids <- FewPids, Replay <- Root
Single == INSTANCE SingleInstance WITH chosen <- representative

Machines == {"sandboxes", "node_trace", "sampler", "capacity", "single"}

ToolsInit ==
  /\ program \in Machines \cup {"none"}
  /\ SandboxInit
  /\ Node!NodeInit
  /\ Sampler!SamplerInit
  /\ Capacity!CapacityInit
  /\ Single!SingleInit
  /\ program # "single" => exit = "catalog" /\ trace = [i \in 1 .. Listed |-> <<0>>]

ToolsNext ==
  \/ /\ program = "sandboxes" /\ SandboxNext
     /\ UNCHANGED <<program, nodeVars, samplerVars, capacityVars, singleVars>>
  \/ /\ program = "node_trace" /\ Node!NodeNext
     /\ UNCHANGED <<program, tppVars, samplerVars, capacityVars, singleVars>>
  \/ /\ program = "sampler" /\ Sampler!SamplerNext
     /\ UNCHANGED <<program, tppVars, nodeVars, capacityVars, singleVars>>
  \/ /\ program = "capacity" /\ Capacity!CapacityNext
     /\ UNCHANGED <<program, tppVars, nodeVars, samplerVars, singleVars>>
  \/ /\ program = "single" /\ Single!SingleNext
     /\ UNCHANGED <<program, tppVars, nodeVars, samplerVars, capacityVars>>

toolsVars == <<program, tppVars, nodeVars, samplerVars, capacityVars, singleVars>>

ToolsSpec == ToolsInit /\ [][ToolsNext]_toolsVars

(***************************************************************************)
(* Properties (and DemotesIdle of SandboxTpp).                             *)
(***************************************************************************)

\* What node_trace.py tells of a span's memory was seen while it was open, but
\* for one reading at either side.
PeaksAreSeen == Node!SpansAreSampled

\* What process_sampler.py writes is one start and one exit of each process that
\* it saw.
ProcessesArePaired == Sampler!EventsPaired

\* The CPU time that colocate_openhands_docker_replays.py samples is what each
\* process used between the first and the last sample of it.
CpuTimeAddsUp == Capacity!SamplesAddUp

\* Of what swebench_single_instance_experiment.py profiled, each trace of its
\* catalog once, it runs the instance nearest to the means.
NearestIsRun == Single!RepresentativeIsRun
=============================================================================
