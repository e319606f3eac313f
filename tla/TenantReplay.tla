---------------------------- MODULE TenantReplay ----------------------------
(***************************************************************************)
(* The multi-tenant benchmark: main (sdebench_mt/driver.py) fills a shared *)
(* queue, starts one process per tenant and collects their results;        *)
(* run_tenant (sdebench_mt/tenant.py) takes an instance, waits for memory, *)
(* boots a microVM, runs the agent in it and evaluates its patch.  What a  *)
(* command in the VM does is GuestChannel's: here it works or raises.      *)
(***************************************************************************)
EXTENDS Naturals, Sequences, SequencesExt, FiniteSets

CONSTANTS
  Tenants,     (* --tenants                                                *)
  Jobs,        (* --jobs                                                   *)
  MaxFaults    (* bound: tenants that die on a write to the output folder  *)

None == 0

VARIABLES
  queue,    (* q: the runs 1 .. Jobs, then None once for each tenant       *)
  results,  (* results                                                     *)
  done,     (* done, also the lines of results.jsonl                       *)
  driver,   (* tenants started, then Joining, then Over                    *)
  pc,       (* where each tenant is                                        *)
  job,      (* iid: the run in a tenant's hands, None                      *)
  vm,       (* the tenant's VMM process is alive                           *)
  lost,     (* runs whose tenant died before their result was put          *)
  late,     (* time.time() > dispatch_deadline                             *)
  low       (* mem_available_frac() < min_mem_frac                         *)

collecting == <<results, done>>
hostVars == <<late, low>>
vars == <<queue, collecting, driver, pc, job, vm, lost, hostVars>>

Procs == 1 .. Tenants

Joining == Tenants + 1

Over == Tenants + 2

\* Mutant of FillQueue: one end of work too few.
FillQueueShort == [n \in 1 .. Jobs |-> n] \o [t \in 1 .. Tenants - 1 |-> None]

\* The runs, then an end of work for each tenant.
FillQueue == [n \in 1 .. Jobs |-> n] \o [t \in Procs |-> None]

Init ==
  /\ queue = FillQueue
  /\ results = <<>>
  /\ done = <<>>
  /\ driver = 0
  /\ pc = [t \in Procs |-> "unborn"]
  /\ job = [t \in Procs |-> None]
  /\ vm = [t \in Procs |-> FALSE]
  /\ lost = {}
  /\ late = FALSE
  /\ low \in BOOLEAN

(***************************************************************************)
(* The driver.                                                             *)
(***************************************************************************)

Alive(t) == pc[t] \notin {"unborn", "exited"}

\* The next tenant starts, stagger_s after the one before it.
StartTenant ==
  /\ driver < Tenants
  /\ driver' = driver + 1
  /\ pc' = [pc EXCEPT ![driver'] = "check"]
  /\ UNCHANGED <<queue, collecting, job, vm, lost, hostVars>>

\* results.get returns; when it times out the loop's condition is read again.
Collect ==
  /\ driver = Tenants
  /\ results # <<>>
  /\ done' = Append(done, Head(results))
  /\ results' = Tail(results)
  /\ UNCHANGED <<queue, driver, pc, job, vm, lost, hostVars>>

\* Mutant of StopCollecting: the loop ends with its tenants, and what they put
\* last is not read.
StopWithTenants ==
  /\ driver = Tenants
  /\ Len(done) >= Jobs \/ \A t \in Procs : ~Alive(t)
  /\ driver' = Joining
  /\ UNCHANGED <<queue, collecting, pc, job, vm, lost, hostVars>>

\* The condition of the loop is false.
StopCollecting ==
  /\ driver = Tenants
  /\ results = <<>>
  /\ Len(done) >= Jobs \/ \A t \in Procs : ~Alive(t)
  /\ driver' = Joining
  /\ UNCHANGED <<queue, collecting, pc, job, vm, lost, hostVars>>

\* Every p.join() returns, and the summary is written.
Join ==
  /\ driver = Joining
  /\ \A t \in Procs : pc[t] = "exited"
  /\ driver' = Over
  /\ UNCHANGED <<queue, collecting, pc, job, vm, lost, hostVars>>

(***************************************************************************)
(* A tenant.                                                               *)
(***************************************************************************)

Goto(t, from, to) ==
  /\ pc[t] = from
  /\ pc' = [pc EXCEPT ![t] = to]

\* The deadline is looked at before the queue, and nowhere else.
CheckDeadline(t) ==
  /\ Goto(t, "check", IF late THEN "exited" ELSE "get")
  /\ UNCHANGED <<queue, collecting, driver, job, vm, lost, hostVars>>

\* queue.get(), which blocks while the queue is empty.
Take(t) ==
  /\ queue # <<>>
  /\ Goto(t, "get", IF Head(queue) = None THEN "exited" ELSE "admit")
  /\ job' = [job EXCEPT ![t] = Head(queue)]
  /\ queue' = Tail(queue)
  /\ UNCHANGED <<collecting, driver, vm, lost, hostVars>>

\* The wait for memory ends; it has no timeout.
Admit(t) ==
  /\ ~low
  /\ Goto(t, "admit", "boot")
  /\ UNCHANGED <<queue, collecting, driver, job, vm, lost, hostVars>>

\* vm.start: the guest answers a ping; or the VMM has exited, or it does not
\* answer in time and is left running.
Boot(t) ==
  /\ \/ Goto(t, "boot", "agent") /\ vm' = [vm EXCEPT ![t] = TRUE]
     \/ Goto(t, "boot", "stop after an error") /\ vm' \in {vm, [vm EXCEPT ![t] = TRUE]}
  /\ UNCHANGED <<queue, collecting, driver, job, lost, hostVars>>

\* agent.run, then collect_patch when the agent submitted nothing.  A command
\* that fails is an observation of the agent (execute returns it as output),
\* a failed request of collect_patch an error of the run.  An empty patch
\* needs no evaluation.
RunAgent(t) ==
  /\ \E next \in {"evaluate", "stop after empty_patch", "stop after an error"} :
       Goto(t, "agent", next)
  /\ UNCHANGED <<queue, collecting, driver, job, vm, lost, hostVars>>

\* evaluate: the tree is reset, the patch applied by the first command that
\* works, and eval.sh run and graded.
Evaluate(t) ==
  /\ \E next \in {"stop after grading", "stop after patch_apply_failed", "stop after an error"} :
       Goto(t, "evaluate", next)
  /\ UNCHANGED <<queue, collecting, driver, job, vm, lost, hostVars>>

Outcomes == [s \in {"stop after grading", "stop after patch_apply_failed",
                    "stop after empty_patch", "stop after an error"} |->
               IF s = "stop after an error" THEN "record error" ELSE "record"]

\* vm.stop in the finally clause: terminate, wait, kill, wait.
StopVM(t) ==
  /\ \E s \in DOMAIN Outcomes : Goto(t, s, Outcomes[s])
  /\ vm' = [vm EXCEPT ![t] = FALSE]
  /\ UNCHANGED <<queue, collecting, driver, job, lost, hostVars>>

\* The rest of the finally clause: the result's file, then results_q.put.
Record(t) ==
  /\ Goto(t, "record", "check") \/ Goto(t, "record error", "check")
  /\ results' = Append(results, [run |-> job[t], error |-> pc[t] = "record error"])
  /\ job' = [job EXCEPT ![t] = None]
  /\ UNCHANGED <<queue, done, driver, vm, lost, hostVars>>

\* The run's log cannot be opened, or its result not be written: neither is
\* caught, and the tenant ends before the put.
WriteFails(t) ==
  /\ Cardinality(lost) < MaxFaults
  /\ \E at \in {"boot", "record", "record error"} : Goto(t, at, "exited")
  /\ lost' = lost \cup {job[t]}
  /\ job' = [job EXCEPT ![t] = None]
  /\ UNCHANGED <<queue, collecting, driver, vm, hostVars>>

(***************************************************************************)
(* The host.                                                               *)
(***************************************************************************)

Outside(step) == step /\ UNCHANGED <<queue, collecting, driver, pc, job, vm, lost>>

DeadlinePasses == Outside(~late /\ late' = TRUE /\ UNCHANGED low)

MemoryFalls == Outside(~low /\ low' = TRUE /\ UNCHANGED late)

MemoryRises == Outside(low /\ low' = FALSE /\ UNCHANGED late)

Driver == StartTenant \/ Collect \/ StopCollecting \/ Join

Tenant(t) ==
  \/ CheckDeadline(t) \/ Take(t) \/ Admit(t) \/ Boot(t) \/ RunAgent(t)
  \/ Evaluate(t) \/ StopVM(t) \/ Record(t) \/ WriteFails(t)

Next ==
  \/ Driver
  \/ \E t \in Procs : Tenant(t)
  \/ DeadlinePasses
  \/ MemoryFalls
  \/ MemoryRises

(***************************************************************************)
(* Properties.                                                             *)
(***************************************************************************)

Recorded == {done[n].run : n \in DOMAIN done} \cup {results[n].run : n \in DOMAIN results}

\* The runs that tenants hold, that wait in the queue, whose results are on
\* their way or written, and that died with their tenant are 1 .. Jobs, each
\* in one place only: no run is started twice, and when the driver is over
\* only a deadline or the death of a tenant explains a missing result.  A
\* result is put only when its VM is gone.
RunsAccountedFor ==
  LET held == {job[t] : t \in Procs} \ {None}
      waiting == ToSet(queue) \ {None}
  IN /\ Recorded \cup held \cup waiting \cup lost = 1 .. Jobs
     /\ Len(done) + Len(results) + Cardinality(held) + Cardinality(waiting) + Cardinality(lost)
          = Jobs
     /\ \A t \in Procs : job[t] = None => ~vm[t]
     /\ driver = Over => /\ held = {} /\ results = <<>>
                         /\ waiting # {} => late \/ lost # {}

=============================================================================
