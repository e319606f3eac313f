# A verification project for the microVM trace-replay experiments

The repository profiles agentic workflows by replaying recorded trajectories in
microVMs: a trace server hands out each trajectory turn by turn, guests run the
saved commands, a host program starts stages of more and more VMs under a memory
guard, and controllers (or a patched kernel) move guest memory between a fast and
a slow NUMA node. This directory holds TLA+ modules for the parts of it that keep
state, the TLC configurations that check them on small instances, and proofs that
TLAPS checks for every value of the constants.

Everything is checked from inside this directory:

    tlc -config MCTraceService.cfg MCTraceService      # one line per run below
    tlapm TieringProofs.tla                            # and the other *Proofs.tla

## 1. The system

`F` is `swebench_microvm_scale_experiment.py`.

| component | state | operations | talks to | what is hard |
|---|---|---|---|---|
| Trace server, `F` `TraceService`, `TraceRequestHandler` | `sessions`: per session id its instance, `next_turn`, cached responses | `inference`, one lock around it | guests, by HTTP, one thread per request | retries, late and duplicate requests, sessions shared and reused, memory lost at a restart |
| Guest, `F` `GUEST_INIT`, `GUEST_INFERENCE` | turn, attempt, serial log | fetch the artifact, `request_turn` with retries, run the turn, report | trace server; the host reads its serial log | timeouts racing answers, which status is retried, the turn limit |
| Experiment, `F` `main`, `sessions_for_stage` | stage, results | admit, run, record, skip stages | `run_stage`; the one trace server | sessions that outlive a stage |
| Stage, `F` `run_stage`, `VM`, `admit_staggered` | VM processes, cgroups, network, `launch_errors`, `oom_guard`, `guard_reason` | prepare, launch (at once or staggered), wait, guard, clean up | launcher threads, monitor threads, guests | threads and exceptions in the `finally` clause; the guard between check and launch |
| Stage network, `F` `StageNetwork` | bridge, taps, iptables rules, `ip_forward` | `setup`, `close` | `sudo` | a call failing half way |
| Tiering controllers, `microvm_lru_tiering.py`, `microvm_phase_lru_tiering.py`, `microvm_phase_lru_tiering_proactive.py` | per VM: tier, `last_move` | discover, `choose_move`, `move` | kernel (`numa_migrate_pages`), the VMs' phase files | decisions on memory that goes on changing; demotion against promotion |
| Kernel tiering, `enable_kernel_tpp.py` | three control files | `enable` with rollback | kernel | partial failure, write order |
| Its session script, `run_kernel_tpp_100.sh`, with `record_tpp_migrations.py` | saved controls, two background jobs | enable, run, sample, restore in the EXIT trap | all of the above | signals at any command |
| Request-driven tiering, `sandbox_tpp.py` | per sandbox: last request, what its logs were read up to, `last_move` | discover, read activity, promote, demote | kernel, serial logs, prompt log | requests during the migrations of a pass |
| Phase-priority scripts, `run_phase_priority_100.sh`, `run_phase_priority_proactive_100.sh` | saved settings, pids of up to three children | switch off, start, wait, restore in traps | controller, experiment, recorder | signals at any command; one script's trap goes on |
| Artifact path, `F` `stream_artifact`, `HostVsockTcpForwarder`, the guest's proxy, `GUEST_FETCH` | pipes, sockets, the unpacked image | export, compress, relay, unpack | docker, guests | a stream cut in the middle looks like its end |
| Workflow start gate, `F` `WorkflowStartGate` | `arrived`, `started_at`, `released` | wait, release, close | guests, `test_azure_admission.py` | release racing timeouts and close |
| Multi-tenant driver, `sdebench_mt/driver.py`, `tenant.py` | two queues, one process per tenant | start, admit, run, record, join | microVMs, the host's memory | a tenant that dies, a deadline, a wait for memory |
| Multi-tenant microVM, `vmm.py`, `replay-agent`, `init` | one connection, requests under way | request, time out, reconnect, restart | tenants | a reply that comes after its request was given up |
| Docker replays, `run_node0_trace_replay_capacity.py`, `colocate_openhands_docker_replays.py`, `replay_openhands_trace.py` | replay processes, containers, step files | launch in batches, wait, sample, clean up | docker | a driver or a replay that ends at any point; pids used again |
| Earlier microVM experiment, `run_yig_microvm_replay.py` | `active`, `completed`, cgroups, a monitor thread | admit, build, start, collect | cloud-hypervisor | a start that raises half way |
| Captures, `run_openhands_multiturn.py`, `trace_proxy.py` | conversation, known events, stream, spans | post a turn, wait, recover | agent server, model | events of an earlier turn or conversation |
| Single instance, `swebench_single_instance_experiment.py` | profiles, lent `argv` and defaults | profile, choose, run | trace server, `F` `main` | options the callee does not define |
| Samplers, `node_trace.py`, `process_sampler.py` | open spans, known pids | open, close, sample | threads, `/proc` | a sampler that ends as a span opens; pids used again |
| Planners, `build_azure_launch_schedule.py`, `swebench_verified_microvm_plan.py`, `build_multi_prompt_plan.py` | none | functions of recorded files | `load_admission_schedule` | duplicates, too few turns |
| Trace readers, CPU lists, `critical_path.py` | none | functions | each other's files | readers that disagree |
| Other analysis, plots, exports | none | pure functions | recorded files | |

What makes each modelled component correct:

- *Trace server*: a session's cache is exactly a prefix of its trajectory, the same
  turn is always answered in the same way, nobody gets another instance's
  commands, and a repeat of a served request is never refused.
- *Guest*: it runs its own trajectory's turns, each once and in order, and says
  `REPLAY_DONE` after the last one only; it always ends; retries hide what they
  are there to hide.
- *Experiment*: an old session never shows a guest someone else's trajectory, a
  recorded stage is a whole one, and without faults all stages complete.
- *Stage*: nothing outlives it, its result is complete or says it was guarded, the
  guard stops admission and empties the stage, and it ends.
- *Network*: whole while it is used, gone afterwards (the first is proved only).
- *Tiering*: a move leaves the headroom it was decided with, the controller comes
  to rest, stubborn VMs do not block the others while the cooldown outlasts a try of
  each, a cooldown is kept.
- *Kernel tiering and its session*: a failed enable restores or confesses; the
  host gets its controls back however the session ends; no experiment runs under
  other controls than it is meant to measure. The phase-priority scripts promise
  the same for theirs.
- *Request-driven tiering*: nothing that was asked for lately is demoted, however
  long a pass takes.
- *Artifact path and gate*: no guest takes a part of its image for the whole, but for
  the four ways the protocol leaves open; nobody passes a simultaneous gate early.
- *Multi-tenant*: a reply belongs to the request it is returned for; every run is done
  once and accounted for; the driver ends.
- *Docker and yig replays*: what was started is stopped, collected or explained; what
  is sampled is resident.
- *Captures, samplers*: nothing is attributed to another turn, process or span.
- *Planners and readers*: a plan loses and repeats nothing, and a schedule is accepted
  where it is read; programs that read one trace agree on it.

`PROJECT.json` lists the hazards by source line with the properties that watch each,
and for every definition the lines it stands for.

## 2. The modules

    TraceReplay          what a replay promises
        ^ implemented by
    TraceService  <-- GuestReplay  <-- ScaleExperiment  <-- ScaleExperimentProofs

    ScaleStage    <-- ScaleStageProofs
    StageNetwork  <-- StageNetworkProofs

    Tiering       <------------------+
    KernelTpp     <-- TppSession  <--+- TieringProofs

    GuestChannel  <-- MCReplays  <-- ReplaysProofs
                       - - - - - -> TenantReplay  DockerReplays  YigReplay  Conversation
                                    ArtifactStream  StartGate  PhaseSession

    SandboxTpp    <-- Tools  <-- ToolsProofs
                       - - - - - -> NodeTrace  ProcessSampler  CapacitySampler
                                    SingleInstance

                      Plans  <-- PlansProofs
                       - - - - - -> LaunchSchedule  PromptPlan  TraceSteps  Trajectories
                                    CpuSets  CriticalPath

    Tools, Plans  <-- MCTools

    SumsAndOrders <-- TieringProofs, ToolsProofs, PlansProofs

An arrow is EXTENDS, a broken one INSTANCE. An `MC...` module brings a
specification to TLC, and its `.cfg` gives the constants of the small instance;
`MCTppSession.cfg` is for TppSession itself. `SumsAndOrders` holds the lemmas about sums,
folds, orders and sequences that know nothing of the programs.
Definitions whose comment begins "Mutant of" are wrong variants kept for checking
the properties: replacing the definition by the variant makes the property that
`PROJECT.json` pairs with it fail.

**TraceService.** `sessions` is the table; `requests` is what arrived and was not
handled, in no order; `replies` is everything sent. `inference` holds the lock from
end to end, so handling a request is one step; there is one action for each way out
of it (`RejectMalformed`, `RejectUnknown`, `RejectRebind`, `ServeCached`,
`RejectTurn`, `ServeNext`). `RejectTurn` keeps the session it opened, as the code
does. A turn's commands are one opaque value.

**GuestReplay.** The table above with guests in front of it. An HTTP exchange is a
request with a tag of its own (stage and attempt), so that an attempt the guest gave
up on can reach the server after newer ones; the guest reads the reply to its current
attempt only. `RetryAfterError`, `TimeoutOnLoss` and `TimeoutTooEarly` are the three
ways into the retry of `request_turn`. Faults are drawn from a set with a bound, and
the variable `met` records their kinds so that properties can speak of them.

**TraceReplay** is the abstract specification: a guest executes its trajectory's
turns one by one, may stop, and may report completion after the last.
`GuestReplay!ReplayIsExact` is the refinement, with `ran` for `executed` and a
verdict read off the serial log.

**ScaleExperiment** runs stage after stage of these guests against one server.
`Assignments` is `sessions_for_stage`: the pool in order and then repeats.
`StageRaises`, `StageGuarded`, `StageReturns` and `StageSkipped` are what `main` does
with the outcome of `run_stage`.

**ScaleStage** is `run_stage` seen from the host. `main` steps through prepare,
network, launch, wait, evict, validate and the `finally` clause; launcher threads,
the host monitor and VM processes interleave with it. `Popen` and the recording
after it are separate outcomes of `Start`, `TripGuard` and `GiveReason` are separate
steps of the monitor, as in the code. An exception is `Escape`: main goes to
`cleanup` with `raising` set. `Stop` is `VM.stop` including the process that outlives
SIGTERM and is not waited for after SIGKILL. Ctrl-C can also fall between the network's
`setup` and the `try` (`MonitorsFail`) and into the `finally` clause (`SweepFails`); main
is then "cut", as nothing of the clause is done after it.

**StageNetwork** is the list of `sudo` calls of `setup` and `close`, each of which may
fail, over consecutive stages.

**Tiering** is the controllers' loop: `Poll` is discovery plus `choose_move`,
`Migrate` is the move, and VMs boot, grow, exit and publish phases in between. The
variable `policy` says which of the three scripts runs, `Most` how many VMs it is given. `Elapsed` has their clocks:
the phase variants subtract a monotonic `last_move` from the wall clock.

**KernelTpp** is `enable`: inspect, three writes read back, the check of the
watermark, the rollback in reverse. A write may fail before it, instead of it, or
after it took effect. The kernel's part (`Stored`) is modelled from what
`enable_kernel_tpp.py` says of it: the watermark is computed when the scale is written
while tiered promotion is on.

**TppSession** is the shell script around it. `set -e` and the traps are explicit:
`pending` is a signal bash has not acted upon, `Trap` its `exit`, `TrapAgain` a
second one during the EXIT trap. The background jobs ignore SIGINT (a shell without
job control starts them so, Python keeps it, and the experiment installs no handler),
so `StopRunner` waits for the experiment's own end. Starting a job and noting its pid
are two steps.

**GuestChannel** is `MicroVM.request` against `replay-agent`: per connection one
line in, one command running, replies out, with a thread of the agent at its end. The
host knows a reply by nothing but its connection; `Close` drops it after a timeout,
and the command whose reply nobody will read runs on beside the next one.

**TenantReplay**: `queue` and `results` are the two `multiprocessing` queues;
`CheckDeadline`, `Take`, `Admit`, `Boot`, `RunAgent`, `Evaluate`, `StopVM`, `Record`
are the lines of `run_tenant` between which another process can act; `WriteFails` is
the exception in its `finally` clause that ends a tenant. What happens inside the VM
is an outcome here and `GuestChannel` there.

**DockerReplays** is one fleet under two drivers (variable `script`). A replay is a
process which runs its container between `ContainerStarts` and `ReplayEnds`, and enters
its `try` only when the manifest is written (`WriteManifest`, `ManifestFails`). `docker
run` and `docker rm` have a time of their own (`starting`, `removing`), so that a container
can appear after it was looked for, and any `docker rm` may fail unnoticed.
**CapacitySampler** is the sampling loop of the second driver, with processes that
fork, exit and reuse pids between its reads of `/proc` and of docker's list, and
**TraceSteps** the two ways of counting a trace's steps.

**YigReplay** has `main`'s calls one by one, since each can raise between
`Popen`, the cgroup and the entry in `active`, between `collect` and `stop`, and from one
VM of the `finally` clause to the next (`StopVM`, `CutShort`); SIGTERM, which nothing
handles, ends it anywhere (`Killed`). The monitor thread only sets `stopping`, or dies
of a process that is gone.

**Conversation** is the script's view of a conversation (`before`, `Visible`,
`Current`) beside what the agent server and the proxy do; the agent server is not in
the repository and modelled from its use: it emits a message, actions and an answer,
or stalls, or fails. One action for each reply is assumed of it. A recovery makes a new
conversation and does not stop the old one's agent, whose calls still pass through the
proxy (`orphans`): it adds spans, and its events are not read any more.

**ArtifactStream** moves an image member by member through the handler's pipe, the
forwarder and the guest's proxy; any stage may close, break or stall, the server may die
and any connection be reset under a relay. **StartGate** has
one action for each way out of `do_GET`. **PhaseSession** is both scripts command by
command (variable `variant`), with bash's rule that a trap runs after the foreground
command and without job control children ignore SIGINT until they install a handler.
Starting a child and noting its pid are two steps, each write of the restore is one that
can fail, and signals come any number of times, in the traps too.

**SandboxTpp** splits a pass where time passes: `Survey`, `PromoteNext`, `DemoteNext`
(with `Recheck`) and `MoveSandbox`. Serial logs are read up to the present, the
prompt log only in `Survey`.

**NodeTrace** has one action for each critical section of `_lock` and one for each reading of
the memory, which is outside it: a round of the sampler is `ReadRss` and then `Credit` or
`SamplerEnds`. A sampler thread that cannot be started is a way out of `OpenSpan`.
**ProcessSampler**
is one round per step over a process table that changes between rounds.
**SingleInstance** walks the catalog, chooses, and calls the experiment's `main`, of
which it says only how it returns.

**Tools** joins SandboxTpp and the four machines before; a behaviour is a run of one of
them (variable `program`).

**LaunchSchedule, PromptPlan, TraceSteps, Trajectories, CpuSets, CriticalPath**,
joined in **Plans**, have no actions. An input is an initial state (variable `planner`
says whose), the code is a set of operators on it, and the reference is stated in the
property: a set of all chains for the longest path, the flattened archives for the
merged ones, each reader for the other. Floating-point times are integers in them, and
strings model values or numbers: rounding of times is left out, `round` of an index
(to the even neighbour) is not. What the code sorts is the list that its order
determines, where the order leaves no choice, and a loop is a recursive function over
the elements it has passed.

## 3. The runs

| run | instance | what it asks |
|---|---|---|
| `MCTraceService` | 2 sessions, 2 trajectories (2 turns, 1 turn), an unknown instance, turns 0..3, any 3 requests | `SessionsArePrefixes`, `RepliesAgree`, `AnswersNamedInstance`, `RetriesAreServed` |
| `MCGuestReplay` | 2 guests, trajectories of 3 and 2 turns, at most 2 turns run, 3 attempts, any 2 faults of 7 kinds | `ReplayIsExact` (refinement), `ServerOneAhead`, `GuestsEnd`, `RetriesMaskFaults` |
| `MCScaleExperiment` | stages of 1, 2, 2 VMs, pool of 2, 2 attempts, any 2 faults of 5 kinds | `RunsOwnTrace`, `EveryStageCompletes` |
| `MCScaleExperimentRepeats` | two stages of 3 VMs, pool of 2, no fault | `EveryStageCompletes` is violated: finding 1 |
| `MCScaleStage` | 2 VMs, both admission modes, any 2 of 8 kinds of fault | `NothingOutlivesStage`, `ResultIsComplete`, `GuardStopsAdmission`, `GuardEmptiesStage`, `StageEnds` |
| `MCStageNetwork` | 2 stages of 2 VMs, any 2 failing calls | `HostRestored` |
| `MCTiering` | 3 VMs under the launch-order script, 2 under the others, of up to 3 pages, nodes of 4, a cooldown of 3 passes, any set of VMs that cannot be moved, partial moves | `HeadroomKept`, `Settles`, `FailureDoesNotBlock` |
| `MCTieringPhaseCooldown` | the phase script | `CooldownRespected` is violated: finding 2 |
| `MCTieringRunsLow` | the launch-order script, 3 VMs | `DemotesWhenLow` is violated: finding 3 |
| `MCTppSession` | every state of the controls, any 2 failing writes, any 2 signals | `SessionRestores`, `RunnerKeepsTiering`, `FailureRestores`, `EnableSucceeds`, `SessionEnds` |
| `MCReplays` | see below | `ReplyIsOwn`, `RunsAccountedFor`, `DriverEnds`, `FleetAccountedFor`, `NoGuestForgotten`, `CaptureIsWhole`, `GuestsBeginWhole`, `PolicyRestored` |
| `MCTools` | see below | `DemotesIdle`, `PeaksAreSeen`, `ProcessesArePaired`, `CpuTimeAddsUp`, `NearestIsRun`, `ResultsAreUsable`, `TracesReadAlike` |

`MCTraceService` also checks the table's `TypeOK`. The other machines are written so
that a value of a wrong kind makes TLC stop at an operator that does not apply to it,
or shows in one of the properties.

`MCReplays` and `MCTools` hold programs that share no state with one another. A
behaviour is a run of one of them (variable `program`) from every way it can begin,
while the others stay as they are, so that the states add up and do not multiply. The
`Spec` of MCTools implies the `ToolsSpec` and the `PlansSpec` that the proofs are about. An
invariant that joins several of these programs is the conjunction of theirs, each
named in its own module:

| program | instance | named part |
|---|---|---|
| guest channel | 4 requests, 2 timeouts or crashes | `ReplyIsOwn` |
| tenants | 2 tenants, 3 runs, 1 death, memory low or not, deadline at any time | `RunsAccountedFor`, `DriverEnds` |
| Docker fleets | both drivers, 3 replicas in batches of 2, Ctrl-C or SIGTERM anywhere, any `docker` call and the manifest failing | `ContainersExplained`, `SampledWhenResident` |
| yig | 3 guests in batches of 2, any call of a start raises, Ctrl-C or SIGTERM anywhere | `NoGuestForgotten` |
| capture | 2 turns of 2 iterations, 1 recovery, a page of 5 events | `FinishedTurnsAnswered`, `SpansCoverActions` |
| artifact | 2 members, 2 relays, the server dying and connections reset at any time | `ReadyIsWhole` |
| gate | 2 sessions, a stranger, both kinds | `GateHolds` |
| phase scripts | both, signals at any command, any write failing | `PolicyRestored` |
| sandboxes | 2 of 3 pages, nodes of 5 and 3, clock up to 2 | `DemotesIdle` |
| node trace | 2 spans of 2 threads, memory up to 3 | `PeaksAreSeen` (`SpansAreSampled`) |
| process sampler | 3 pids, 2 forks | `ProcessesArePaired` (`EventsPaired`) |
| capacity sampler | 2 pids, 2 forks, 2 ticks | `CpuTimeAddsUp` (`SamplesAddUp`) |
| single instance | 3 instances of up to 2 turns | `NearestIsRun` (`RepresentativeIsRun`) |
| planners | 2 sessions and turns over 2 archives; lists of up to 3 of 2 instances; one baseline of up to 5 turns or two of up to 3 equal ones, up to 4 prompts | `ScheduleAccepted`, `GapsObserved`, `BatchesInOrder`, `PlanKeepsDuration` |
| readers | 2 user turns with 2 events and a span; 2 trajectories of 2 messages | `StepsAwaited`, `ReadersAgree` |
| CPU lists, critical path | 5 CPUs; 3 spans of the times 0 to 3 | `ListsRoundTrip`, `PathIsLongest` |

**Why the bounds are enough.** Three requests suffice for the shortest way to break
each server property (serve, advance, repeat; or open, rebind, ask), and the proofs
remove the bound. Two guests are independent except through the session table, which
keys by session; two of them show that, and one of their trajectories is longer than
the turn limit. Two faults against three attempts is the largest number the retries
promise to hide, and enough for a late request to meet a restarted server. Three
stages give one that repeats the sessions of its predecessor and one that grows.
Two VMs are enough for "the loop had passed one and not the other", which is what
every property of a stage is about; the stage was also explored once with three VMs
(1.27 million states) with the same outcome. In `Tiering` the reserves are one page
apart, so that every comparison has its boundary case. Three VMs and a cooldown of three
passes let two VMs that cannot be moved stand before a third, the most that leave it a
pass; with a cooldown of two passes TLC finds the third one starved, as it is on a host
with more such VMs than its five seconds have passes. MaxFaults and MaxSignals of
two let a second failure strike during the recovery from the first.

Four requests let two commands that were given up run beside a third, and the proof
removes the bound. Three runs for two tenants give a tenant a second one, so that a
death can come with work waiting; three replicas or guests in batches of two give a
whole batch and a partial one, which is where a driver's lists and its stages differ.
A page of five events holds a conversation of two turns with its recovery, so that a
page that is full is met, but not one that is overrun. Two members are the least for
which a cut between members exists, two relays the longest path. Two spans let one open
while the sampler decides to end after another, and three values of memory tell a reading
from before a span from the span's own and from a later one; three pids and two forks let a
child outlive its parent and a pid be used again. A turn of the planners' trace can
be missing, tie with another, or lie in both archives; two baselines can be of one
instance or of two, unfinished, empty or of different lengths, so that what is kept of
them, its order and the copies' names are all exercised. Three spans of four times give
every way in which spans touch, nest, coincide or overlap. Deadlock is not
checked anywhere: every one of these systems stops when its work is over.

**Named exceptions.** Each is what the code does, listed as a hazard; without the
exception TLC finds it.

- `NothingOutlivesStage` excepts `SweepUndone`: the `finally` clause is left half way,
  because sampling a dying VM raises or Ctrl-C comes within it, or not reached, because a
  monitor thread cannot be started before the `try`; and Ctrl-C during the join lets
  launcher threads run on after the sweep. It also allows a cgroup that a failed setup or
  a process which had to be killed leaves.
- `RunnerKeepsTiering` excepts a runner whose pid was not noted when the signal came, and
  `SessionRestores` a sampler (`SamplerUnknown`); the latter also a restore that a second
  signal or a failing write cut short. The value of the kernel's own watermark is not
  restored by the session either, when it was not zero before: the scale is written back
  while promotion is off.
- `FailureDoesNotBlock` speaks of a VM with fewer immovable VMs before it than a cooldown
  has passes.
- `ReadyIsWhole` excepts an export that docker itself cut short, which only the server
  knows, a server that died, a relay that gave up an idle connection, and a connection that
  was reset under a relay. Neither a length nor a checksum is sent, so that the guest takes
  each of them for the end of the archive when it falls between two members.
- `ContainersExplained` speaks of a driver whose `main` reached its end. Under both drivers
  it excepts containers that docker failed to remove (`check=False`), under node0 one that
  appeared after it listed them, under colocate one whose replay was ended by a signal
  outside its `try` or could not write its manifest between `docker run` and the `try`.
- `NoGuestForgotten` excepts the one VM whose `start` raised; when the `finally` clause was
  cut short by Ctrl-C, or left out by SIGTERM, it promises no more than that what runs on
  was in the script's hands.
- `PolicyRestored` excepts a controller or recorder that was started and whose pid was not
  noted when the signal came, a restore that was cut short (a write that fails, under
  `set -e`, or a second signal in the second script's exit trap), and the experiment after
  a signal was taken.
- `SpansAreSampled` allows a peak one reading at either side of its span, since the sampler
  reads outside the lock, and excepts the time after a sampler thread that could not be
  started: `_sampler_started` stays set and no span is sampled any more.
- `StepsAwaited` says for which traces node0's count is right, and what happens for the
  others. `BatchesInOrder` says that the experiment refuses the file of
  `swebench_verified_microvm_plan.py` as an admission schedule (no `format`, other keys); no
  document says that it is meant for it.

**Fairness.** `TraceService`, `StageNetwork`, `TraceReplay`: none, they have safety
properties only. `GuestReplay` and `ScaleExperiment`: a guest's process runs, a
request that arrived gets its handler thread's answer (`ThreadingHTTPServer`), and
urlopen's timeout ends a wait that nothing else ends; no fault is fair. `ScaleStage`:
the host's threads run, and a killed process is reaped; nothing is assumed of guests,
which is why `StageEnds` allows one that runs for ever, and `GuardEmptiesStage` does
not depend on them. `Tiering`: the controller's loop runs; nothing is assumed of VMs.
`MCReplays`: the driver and each tenant are processes of their own, and every call
they make returns or times out (the timeouts are in the code); `DriverEnds` moreover
supposes that the host's memory does not stay low for ever, since that wait has no
bound. `GuestsEnd` supposes that a recorded command ends: the guest runs it without a
timeout. The other programs of `MCReplays` and `MCTools` have safety properties only.
`TppSession`: the script, `enable` and the sampler run; the experiment may not end.

## 4. Findings

A run that expects a violation shows each of these.

1. *Repeats meet old sessions* (`MCScaleExperimentRepeats`). The docs promise
   seeded repeats when a stage is larger than the trace pool. The repeats are drawn
   anew for every stage while a session id is the VM's number and the server keeps
   each session's instance; in a second such stage a VM with another trace than its
   predecessor is refused with 409 and the stage raises.
2. *The phase scripts' cooldown never applies* (`MCTieringPhaseCooldown`): wall
   clock minus monotonic clock.
3. *A demoted VM is never demoted again* (`MCTieringRunsLow`): its label is the target
   of its last move, so pages it allocates on node 0 afterwards stay there however
   low the node runs.

`PROJECT.json` quotes the lines on both sides.

Smaller things met while modelling, which the models contain and no document
contradicts: `swebench_single_instance_experiment.py` (lines 156 to 165) can pass five
options that `main` of `F` does not define, and is then refused after the whole
profile; a guest refused with 504 at the start gate stays in `arrived`; the trap of
`run_phase_priority_100.sh` does not exit, so the script goes on and starts the
experiment on the restored host; under a conversation of more than 100 events the
capture does not see a turn's answer; node0 leaves its containers when the summary
cannot be written; a `yig` VM whose cgroup could not be written runs on after the
script; a controller that gets SIGINT before Python has installed its handler
ignores it, and the trap waits for it; the plan of
`swebench_verified_microvm_plan.py` is not a file that `--admission-schedule` takes; the
monitor threads and the network are set up before the `try` that would close them.

## 5. The proofs

Seven modules hold the theorems, and `SumsAndOrders` the lemmas they share.

**ScaleExperimentProofs** begins with the table alone. It proves about `Spec` of
TraceService, for any sets of sessions, instances, commands, tags and turns, and any
number of requests, from `WorkflowsAssumption` (a loaded trajectory is a non-empty
sequence, which `trace_workflow` enforces) and `IdsAssumption`:

| theorem | property |
|---|---|
| `TypeCorrect` | `TypeOK` |
| `PrefixCorrect` | `SessionsArePrefixes` |
| `RepliesAgreeHolds` | `RepliesAgree` |
| `AnswersNamedInstanceHolds` | `AnswersNamedInstance` |
| `RetriesAreServedHolds` | `RetriesAreServed` |
| `TurnsServedInOrderHolds` | `TurnsServedInOrder` (proved only) |

`SessionsArePrefixes` is inductive once an unbound session is known to be untouched
(`TableInv`): `OpenedFacts` says that the state `inference` works on has the prefix
property whether it was found or just made, `AdvanceFacts` that storing the next
response extends the prefix by one. That says nothing of what clients saw, so
`ReplyBacked` ties the two together: every successful reply is still in its session's
cache and every cached response was sent. Agreement, order and the naming property
then follow from the two invariants without looking at a step again.

It goes on with GuestReplay and ScaleExperiment, for any number of guests, stages,
attempts and faults and any trajectories, from the assumptions of TraceService and
`GuestAssumption`, `StagesAssumption` (the shape of turns, tags and session ids; the
arguments that `main` accepts):

| theorem | of | property |
|---|---|---|
| `GuestInvariant` | `GuestSpec` | `GuestInv` (proved only) |
| `ReplayImplemented` | `GuestSpec` | `ReplayIsExact`, the refinement of TraceReplay |
| `OneAhead` | `GuestSpec` | `ServerOneAhead` |
| `OwnTraceAlways` | `ExperimentSpec` | `RunsOwnTrace` |
| `StagesAreWhole` | `ExperimentSpec` | `RecordsWholeStages` (proved only) |

`TableInv` is kept by every step of the table that a guest can
cause. `WireInv` adds what a reply tells: a successful one holds the turn that was asked
for, of the instance that was named, and stays true when a restart empties the table;
this is why the guest may read an answer the server no longer knows of. `OwnTrace` is
then about one guest: what it ran is an initial part of its own trajectory, the command
it is about to run is the next, and it reports completion only at the end. The
refinement takes one step per action of a guest (`ToolsExecuteTurn`,
`FinishCompletes`, `LeavingStops`); everything else is a stutter. `AheadInv` is the
converse, from the guest back to the server (`AskedInTurn`, `AnsweredIsKnown`, `InStep`),
and is claimed only while the server was not restarted, as the property is. An
experiment is the same guests begun again at each stage with the table left as it is
(`BootingFacts`, `LaunchKeeps`).

**ScaleStageProofs** proves about `Spec` of ScaleStage, for any number of VMs and of
faults, from `StageAssumption`:

| theorem | property |
|---|---|
| `NothingOutlives` | `NothingOutlivesStage` |
| `ResultComplete` | `ResultIsComplete` |
| `AtMostOneLate` | `GuardStopsAdmission` |
| `StageTypes`, `LaunchHolds` | types, `LaunchInv` (proved only) |

What is true depends on where `main` is. `LaunchInv` says which launchers can still be
running there: none when the `finally` clause begins, unless Ctrl-C came during the
join (or one was never spawned). `SweepInv` is the loop invariant of the
clean-up: no process of a VM that the loop has passed runs, and a later start is
impossible by `LaunchInv` (`LateLaunch`). `VerdictInv` carries "every VM was launched or
its launch is an error" from the launch to the validation and "every session is done"
from there to the result. `GuardInv` and `LateInv` are about the monitor: flag before
reason, and in staggered admission at most one process is made after the flag.

**StageNetworkProofs** proves about `Spec` of StageNetwork, for any number of stages,
sessions and failing calls, from `NetworkAssumption`:

| theorem | property |
|---|---|
| `GuestsHaveNetwork` | `NetworkWhole` (proved only) |
| `HostIsRestored` | `HostRestored` |

`setup` and `close` are lists of calls, made of parts for the bridge, the taps and the
rules. `SetupFacts` and `CloseFacts` say where in the lists each call lies, for any
number of taps; `MadeSoFar` that the calls of `setup` before the current one have
taken effect; `CleanSoFar` that, as long as no call of `close` failed, what is left on
the host is named by the part of the list that is still ahead. A `setup` that failed
half way is covered because the code sets `ready` before the first change that `close`
would have to take back, the bridge excepted: before it the host has nothing but that.

**TieringProofs** proves about `TieringSpec`, for any number of VMs, sizes of the
nodes and thresholds that `main` accepts (`TieringAssumption`):

| theorem | property |
|---|---|
| `MovesLeaveHeadroom` | `HeadroomKept` |
| `DecisionsFit` | `TieringInv` (proved only) |

and about `SessionSpec` of TppSession, for any number of failing writes and signals
(`FaultsAssumption`, `SignalsAssumption`):

| theorem | property |
|---|---|
| `ControlsComeBack` | `SessionRestores` |
| `TieringStaysOn` | `RunnerKeepsTiering` |
| `FailedEnableRestores` | `FailureRestores` |
| `EnabledIsReal` | `EnabledIsActive` (proved only) |

*Tiering.* `DecisionInv` says that as long as no VM took memory since the decision,
the target node has room for all of the VM's pages and the reserve. `ChoiceFits` shows
it of the decision itself, the first VM to demote or the last one to promote that the
code's order gives, `FreeStays` of the steps in between (a VM that exits or publishes
a phase), and `MoveTakes` that a move, whole or partial, takes no more than what the
VM had on the source. Free memory is a node's size minus a sum over the VMs. That a
sum over a finite set follows one changed term is `SumChanges`.

*The session.* `FailureRestores` says something about one step only; what makes it true is
`EnableInv`, that a control not among the attempted ones is as it was, and `RollBack`
shortens the attempted list by the control it dealt with. The lists are only ever
initial segments of `Changes` (`UpcomingFacts`, `LastFacts`). `SessionInv` adds where
the script is: all controls are on from a successful enable until the trap writes,
the trap writes only when no experiment it knows of runs, and each of its lines has
put one more control back. The invariant has to carry `EnableEnded` along, since the
trap changes the controls that `EnableInv` speaks about.

**ReplaysProofs** proves about `ReplaysSpec`, for any numbers of tenants, runs,
deaths, replicas, guests, batches, image members, relays, sessions and strangers, from
`ReplaysAssumption` and `ChannelAssumption` (at least one tenant, session and place in
a batch; the others, and the page of a capture, are natural numbers):

| theorem | property |
|---|---|
| `RepliesAreOwn` | `ReplyIsOwn` |
| `RunsAreAccountedFor` | `RunsAccountedFor` |
| `FleetIsAccountedFor` | `FleetAccountedFor` |
| `GuestsAreCollected` | `NoGuestForgotten` |
| `GuestsAreWhole` | `GuestsBeginWhole` |
| `PolicyIsRestored` | `PolicyRestored` |
| `CapturesAreWhole` | `CaptureIsWhole` |

A behaviour is a run of one program, so an invariant of one on its own variables is
kept by the steps of the others (`OneProgram`). *Guest channel* (`ChannelInv`):
`ReplyIsOwn` speaks of the reply that was read last and is not inductive. It follows
from what is on the connection the host keeps: between two requests nothing
(`KeptIsQuiet`), during one exactly one of the request, the thread that handles it and
its reply, or nothing after a crash (`CarriesOwn`). A timeout preserves that only
because `Close` drops the connection on which the command is still running. A new
connection is quiet because its number was never used (`FreshIsEmpty`, with `conn <=
opened <= asked`). One lemma for each of `Request`, `Answered`, `Take` and `Reply`
shows the invariant kept; the other actions are cases of `StepKeeps`.  *Tenants*
(`TenantInv`): what was taken off the queue is an initial part of the runs
(`QueueInv`); every taken run is at exactly one tenant, in the results, with the
driver or lost, which takes a count beside the set because a run could otherwise be
recorded twice (`CountInv`); and a tenant exits for an end of work, the deadline or a
lost run only (`EndInv`). *Fleets* (`FleetInv`): a replay that has not ended holds its
container, waits for it or waits for its removal, and the container of one that has ended
is there because a signal cut it off or nobody could remove it; node0 begins a batch when the one before is written, which is
arithmetic on quotients (`WholeBatches`). *yig* (`YigInv`): the launched VMs are the
active and the completed ones, and at most the last, whose start raised; what was
collected has ended, and keeps its cgroup only until it is stopped, or while it is still in
`active` for the `finally` clause; that clause has stopped what it has come past. *Artifact*
(`ArtifactInv`): while the export is whole, the server alive and no relay gave up or was
reset (`Sound`), what entered a
link is what left it plus what is still in it, and whoever closed one had put in the
whole archive, or nothing. *Gate* (`GateInv`): only the owner releases, when all have
arrived. *Phase scripts* (`PhaseInv`): until a signal is taken each line has the
settings of the lines before it in force; afterwards the first script may come back to
any line and the second one only exits; a controller or recorder whose pid is noted is
stopped or waited for before the first setting is written back (`RecorderWaited`,
`RestoreInOrder`). *Captures* (`CaptureInv`): an event is known
by its conversation and its number, and what was written to the stream lies at or
before `before` (`Unread`), so that nothing is written twice; between two turns the
agent has nothing left to answer, so that an answer behind `before` is the turn's own
(`WorkInv`). For the spans the events of the log and of the stream are counted as one
set (`Acts`): it grows only with a reply, and the reply is counted as long as it is
under way (`SpansInv`). The agent of a conversation that was given up adds to the spans
only (`OrphanKeeps`).

**ToolsProofs** proves about `ToolsSpec`, for any number of sandboxes, spans, processes,
forks, samples and catalog entries, from `SandboxAssumption` and `ToolsAssumption` (what
the parsers demand; a catalog lists something):

| theorem | property |
|---|---|
| `OnlyIdleAreDemoted` | `DemotesIdle` |
| `PeaksAreReported` | `PeaksAreSeen` |
| `ProcessesAreReported` | `ProcessesArePaired` |
| `CpuTimeIsReported` | `CpuTimeAddsUp` |
| `TheNearestIsRun` | `NearestIsRun` |

Again each program has an invariant over its own variables (`OneTool`). *Sandboxes*
(`TppInv`): what the controller knows of a request was asked or prompted, so that a
second look that finds a sandbox idle finds it idle in fact, although time passed
since the survey. *Node trace* (`NodeInv`): there is one sampler as long as
`samplerStarted` holds, and it holds as long as a span is sampled; the sampler's
decision to end and the opening of a span exclude each other by that. What the sampler has
in its hands is no higher than what was read for a span since it opened, or was in its hands
before (`OpenIsTold`); nothing is missing in the record but the span's own last reading and
the one in the sampler's hands, which `_stop_sampling` and `late` account for. *Process
sampler* (`SamplerInv`): what is written of a key begins with one start and a sample
and has at most one exit; a process that was missed for a round is sampled again,
without a second start, and of two keys with the same pid at most one is active.
*Sampling loop* (`CapacityInv`): what was charged to a process is what it used between
its first and its last sample, however pids are used again; and before it stops for
CPU the machine was as busy as the limit for the samples asked for, which is
arithmetic on products. *Single instance* (`SingleInv`): the profiles are of whole
traces and every instance is profiled, failed or still to come, so that the minimum is
over all of them; nothing is lent any more when the run has ended.

**PlansProofs** proves about `PlansSpec`, for every input, of any length, from
`PlansAssumption` (sessions, turns and CPUs are known by numbers, finitely many of them;
bounds are numbers, and the limit is not 0; the interval of a batch may be):

| theorem | property |
|---|---|
| `ResultsHold` | `ResultsAreUsable` |
| `TracesHold` | `TracesReadAlike`, but for the prompt planner |
| `SchedulesAreAccepted` | what `ScheduleAccepted` is made of (proved only) |

The specification has no step to speak of, so that these are theorems about functions,
and what needs an invariant are the loops of the code. *Schedules*: the offsets
of `make_schedule` are the sums of the gaps drawn so far (`OffsetsExist`), which only grow;
that the pool holds natural numbers (`PoolIs`) is because each session's turns are sorted
before gaps are taken. *Gaps*: the turns read from the archives are a map that has, for
each turn, the least readable start of its records (`HasTurns`); there is only one such map
(`LeastUnique`), reading a record and merging an archive keep it (`KeepLeast`,
`MergeLeast`), and so it cannot matter how the records are spread. The sum of a session's
gaps telescopes (`GapsSpan`). *Batches*: the quotients of the positions (`Divided`,
`MoreMultiples`) tell which rows share a batch (`BatchIs`); a batch is a stretch of rows, as
long as its size unless it is the last (`BatchHas`, `WholeBatch`), and its time is its
number times the interval, which may be 0. *CPU lists*: the loop invariant `Formats` says that the
ranges are the maximal runs of the CPUs passed so far; the four readers then agree because
they expand to the same set, and a set has one ascending list. *Steps*: the sort of
`replay_openhands_trace.py` is by a lexicographic rank that tells any two steps apart
(`RanksAre`), so that the sorted list exists; steps are matched one to one with the events
and spans they come from (`CountedByValue`), turn by turn, and node0's count is the size
of the same sets. *Trajectories*: the first file of each id is what one reader keeps and
the other lists, with the same commands in it. *Critical path*: `Best` and `Walk` are
recursive functions (`BestIs`, `WalkIs`, by `AllFromBelow`); by induction over the parts of
the candidates no chain is longer than the best of the candidate it ends with
(`ChainsAreShorter`); and each span that is left out as containing others contains a
candidate (`CandidateInside`), for the shortest of those inside it is one.

**SumsAndOrders** is about data. A function defined by recursion, and so every fold of
the community modules, is a CHOOSE until it is shown to exist (`RecursionExists`,
`FoldExists`, `LoopExists`); a sum over a finite set can be taken apart at any element
and is the only function that can (`SumsUnique`), so that a fold that adds is a sum
whatever it takes first (`FoldIsSum`); a finite set with a total order has one list in
that order (`ListExists`, `SortedList`); joined sequences list what was in their parts
(`FlatMembers`). The library's induction theorems take an operator as a parameter and
cannot be used here. Induction is stated for sets instead: a set of numbers with 0 and
every successor has them all (`AllNumbers`, `AllFromBelow`), and so has a set of parts
of a finite set that holds each part whose smaller parts it holds (`AllParts`).

**Only model-checked**:

- Liveness (`GuestsEnd`, `RetriesMaskFaults`, `EveryStageCompletes`, `GuardEmptiesStage`,
  `StageEnds`, `Settles`, `FailureDoesNotBlock`, `EnableSucceeds`, `SessionEnds`, `DriverEnds`),
  which needs fairness and is out of TLAPS's reach here.
- `PlanKeepsDuration`, the part of `TracesReadAlike` for `build_multi_prompt_plan.py`. Its
  plan is made with the sorts and selections of SequencesExt, whose definitions by local
  recursive operators tlapm does not open, and with `round` of a product of a position and
  a ratio, which is neither linear nor exact. TLC checks it over every baseline of up to
  five turns and every two of up to three equal turns, and up to four prompts.

## 6. What is not modelled

Time as such (latencies, intervals, `--replay-inference-latency`) except where two
clocks or ages are compared; samples, measurements and the files they go to; building
the guest image; GET routes of the server that return constants; `--dry-run` and CPU
affinity of the controllers; two experiments at once on one host; SIGKILL of the host
programs, but for SIGTERM and its like where section 3 names them. The lock of `inference` is
taken as it is (line 610): handling a request is one step, so that a version without the lock
is not explored. A tenant that dies before its
first run (`tenant.py`, lines 67 to 74), or in the wait for memory (line 81), is left out.

- `serve_multi_prompt_from_upstream.py`: at this commit it cannot serve anything. It
  fetches every turn and then calls `TraceService(workflows, plan)`, while
  `TraceService.__init__` (`F`, line 584) takes the workflows only, so that it ends with
  a TypeError; there is no behaviour of the adapted plans to model yet.
- `replay_mini_swe_session.py`, `run.py`, `boot_kernel_tpp_once.sh`, `setup.sh`: one
  command after the other, an error ends them.
- `process_graph.py`, `turn_hardware_profile.py`, the `numa_*` scripts,
  `model_persistent_session_capacity.py`, `recompute.py`, `analyze.py`, `metrics.py`: sums and
  quotients over the columns of recorded files.
- Plots and exports: layout.
- The agent server of the captures, docker, the kernel and cloud-hypervisor are not
  in the repository: they are modelled from how the code uses them, as marked in
  `PROJECT.json`.

## 7. Plan

The order was: what decides whether a measurement is right (server, guests,
experiment), what decides whether the host survives it (stage, network), what moves
memory (tiering, kernel tiering, sandboxes), then the other replays, the captures,
samplers and planners around them; and every safety invariant and action property that
the runs check is proved, but for the one part named in section 5. What could come next:

1. A common abstract specification of a fleet (start, watch, collect, clean up) that
   ScaleStage, DockerReplays and YigReplay implement with their exceptions.
2. TenantReplay over GuestChannel: `execute`'s timeouts as the channel's.
3. `PlanKeepsDuration` with the turns of PromptPlan sorted by a unique order and `round`
   replaced by a relation that bounds it, so that it can be proved.
