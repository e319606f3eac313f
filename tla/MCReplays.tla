----------------------------- MODULE MCReplays ------------------------------
(***************************************************************************)
(* The programs around a replay that share no state with one another: a    *)
(* behaviour is a run of one of them, the others stay as they begin.       *)
(***************************************************************************)
EXTENDS GuestChannel

CONSTANTS
  Tenants, Jobs, MaxDeaths,                \* TenantReplay
  Sessions, Batch,                         \* DockerReplays
  Guests, GuestBatch,                      \* YigReplay
  Turns, MaxRecoveries, Page, Iterations,  \* Conversation
  Members, Relays,                         \* ArtifactStream
  Expected, Strangers                      \* StartGate

\* What the scripts check of their arguments, and that a benchmark has a tenant.
ASSUME ReplaysAssumption ==
  /\ Tenants \in Nat \ {0} /\ Jobs \in Nat
  /\ Sessions \in Nat \ {0} /\ Batch \in Nat \ {0}
  /\ Members \in Nat /\ Relays \in Nat
  /\ Page \in Nat

VARIABLES
  program,
  queue, results, done, driver, pc, job, vm, lost, late, low,
  script, active, fleet, started, fleetRunning, stopReason, replay, starting, removing,
  container, written, cut, left, missed,
  main, built, launched, guestsActive, seen, ended, completed, vmm, cgroup, monitor, stopping,
  loaded, raised,
  capture, index, attempt, chat, before, status, recorded, stream, log, worker, calls, spans,
  orphans,
  origin, exportContainer, exported, export, link, open, relay, listening, port, fetch,
  unpacked, stalled, reset,
  independent, arrived, startedAt, waits, answer, released, releasedBy, serves,
  variant, command, balancing, demotion, controller, controllerPid, experiment, recorder,
  recorderPid, pending, taken, resume, restoreCut

tenantVars == <<queue, results, done, driver, pc, job, vm, lost, late, low>>
dockerVars == <<script, active, fleet, started, fleetRunning, stopReason, replay, starting,
                removing, container, written, cut, left, missed>>
yigVars == <<main, built, launched, guestsActive, seen, ended, completed, vmm, cgroup, monitor,
             stopping, loaded, raised>>
captureVars == <<capture, index, attempt, chat, before, status, recorded, stream, log, worker,
                 calls, spans, orphans>>
artifactVars == <<origin, exportContainer, exported, export, link, open, relay, listening, port,
                  fetch, unpacked, stalled, reset>>
gateVars == <<independent, arrived, startedAt, waits, answer, released, releasedBy, serves>>
phaseVars == <<variant, command, balancing, demotion, controller, controllerPid, experiment,
               recorder, recorderPid, pending, taken, resume, restoreCut>>

Tenancy == INSTANCE TenantReplay WITH MaxFaults <- MaxDeaths
Docker == INSTANCE DockerReplays WITH running <- fleetRunning
Yig == INSTANCE YigReplay WITH active <- guestsActive
Multiturn == INSTANCE Conversation
Artifact == INSTANCE ArtifactStream WITH container <- exportContainer
Gate == INSTANCE StartGate
Phase == INSTANCE PhaseSession WITH line <- command, cut <- restoreCut

Programs == {"channel", "tenants", "docker", "yig", "multiturn", "artifact", "gate", "phase"}

\* One program is begun in every way it can be, the others in one.
ReplaysInit ==
  /\ program \in Programs
  /\ Init
  /\ Tenancy!Init /\ (program # "tenants" => ~low)
  /\ Docker!FleetInit /\ (program # "docker" => script = "node0" /\ ~active)
  /\ Yig!YigInit
  /\ Multiturn!CaptureInit
  /\ Artifact!ArtifactInit /\ (program # "artifact" => port = "inference")
  /\ Gate!GateInit /\ (program # "gate" => independent)
  /\ Phase!PhaseInit /\ (program # "phase" => variant = "priority")

ByTenants(step) ==
  /\ program = "tenants"
  /\ step
  /\ UNCHANGED <<program, vars, dockerVars, yigVars, captureVars,
                 artifactVars, gateVars, phaseVars>>

ReplaysNext ==
  \/ /\ program = "channel" /\ Next
     /\ UNCHANGED <<program, tenantVars, dockerVars, yigVars, captureVars,
                    artifactVars, gateVars, phaseVars>>
  \/ ByTenants(Tenancy!Next)
  \/ /\ program = "docker" /\ Docker!FleetNext
     /\ UNCHANGED <<program, vars, tenantVars, yigVars, captureVars,
                    artifactVars, gateVars, phaseVars>>
  \/ /\ program = "yig" /\ Yig!YigNext
     /\ UNCHANGED <<program, vars, tenantVars, dockerVars, captureVars,
                    artifactVars, gateVars, phaseVars>>
  \/ /\ program = "multiturn" /\ Multiturn!CaptureNext
     /\ UNCHANGED <<program, vars, tenantVars, dockerVars, yigVars,
                    artifactVars, gateVars, phaseVars>>
  \/ /\ program = "artifact" /\ Artifact!ArtifactNext
     /\ UNCHANGED <<program, vars, tenantVars, dockerVars, yigVars,
                    captureVars, gateVars, phaseVars>>
  \/ /\ program = "gate" /\ Gate!GateNext
     /\ UNCHANGED <<program, vars, tenantVars, dockerVars, yigVars,
                    captureVars, artifactVars, phaseVars>>
  \/ /\ program = "phase" /\ Phase!PhaseNext
     /\ UNCHANGED <<program, vars, tenantVars, dockerVars, yigVars,
                    captureVars, artifactVars, gateVars>>

replaysVars ==
  <<program, vars, tenantVars, dockerVars, yigVars, captureVars,
    artifactVars, gateVars, phaseVars>>

\* The driver and every tenant are processes of their own; each of their calls
\* returns or times out, but for the waits that the model makes explicit.
ReplaysSpec ==
  /\ ReplaysInit
  /\ [][ReplaysNext]_replaysVars
  /\ WF_replaysVars(ByTenants(Tenancy!Driver))
  /\ \A t \in 1 .. Tenants : WF_replaysVars(ByTenants(Tenancy!Tenant(t)))

(***************************************************************************)
(* Properties.                                                             *)
(***************************************************************************)

\* driver.py and tenant.py: no run is lost or done twice; what has no result
\* was cut off by the deadline or died with its tenant.
RunsAccountedFor == Tenancy!RunsAccountedFor

\* main of driver.py ends, whatever its tenants do, if the host's memory does
\* not stay low: each tenant finds an end of work or a deadline, and the loop
\* that collects does not wait for a dead one.
DriverEnds ==
  program = "tenants" => (<>[]~low => <>(driver = Tenancy!Over))

\* run_node0_trace_replay_capacity.py and
\* colocate_openhands_docker_replays.py: a container is left behind only in
\* the ways that ContainersExplained names, and node0 measures only whole
\* batches whose sessions are all resident.
FleetAccountedFor == Docker!ContainersExplained /\ Docker!SampledWhenResident

\* run_yig_microvm_replay.py: every VM that was started is collected or stopped
\* when main ends, and only one whose start raised is forgotten, unless a signal
\* keeps the finally clause from its end.
NoGuestForgotten == Yig!NoGuestForgotten

\* run_openhands_multiturn.py and trace_proxy.py: a turn that is recorded as
\* finished was answered, nothing is recorded twice, and every action recorded
\* has the span of the call it came from.
CaptureIsWhole == Multiturn!FinishedTurnsAnswered /\ Multiturn!SpansCoverActions

\* What a guest begins with: ARTIFACT_READY is reported for a part of an image
\* only in the four cases that ReadyIsWhole names, and a simultaneous gate lets
\* nobody through before all have come (or it was closed).
GuestsBeginWhole == Artifact!ReadyIsWhole /\ Gate!GateHolds

\* The phase-priority scripts leave the host as they found it, and measure the
\* experiment under their policy, with the exceptions that PolicyRestored names.
PolicyRestored == Phase!PolicyRestored
=============================================================================
