------------------------------ MODULE Tiering -------------------------------
(***************************************************************************)
(* The whole-VM memory tiering controllers: microvm_lru_tiering.py and its *)
(* two variants microvm_phase_lru_tiering.py and                           *)
(* microvm_phase_lru_tiering_proactive.py, next to the virtual machines    *)
(* whose memory they move between a fast and a slow NUMA node.             *)
(*                                                                         *)
(* A VM's number is its launch order.  Memory is counted in pages.  One    *)
(* iteration of the loop is a Poll (discover, drop the exited, choose) and *)
(* a Migrate; the VMs go on allocating between the two.                    *)
(***************************************************************************)
EXTENDS Naturals, FiniteSetsExt

CONSTANTS
  N,             (* bound: virtual machines in the experiment              *)
  Policies,      (* which scripts: "lru", "phase", "proactive"             *)
  Most,          (* bound: VMs that a run of each script launches          *)
  FastSize, SlowSize,         (* pages of the nodes                        *)
  MaxPages,      (* bound: pages a VM ever touches                         *)
  DemoteBelow, PromoteAbove, SlowReserve,      (* the --...-gib options    *)
  SystemLimit,   (* --system-memory-demote-percent, as pages in use        *)
  Cooldown,      (* --cooldown-seconds, in iterations of --interval        *)
  WallOffset,    (* time.time() - time.monotonic(), the same unit          *)
  Partial        (* a migration may leave pages behind that had room       *)

\* What main refuses of its arguments, and the sizes of the machine.
ASSUME TieringAssumption ==
  /\ N \in Nat /\ FastSize \in Nat /\ SlowSize \in Nat
  /\ Policies \subseteq {"lru", "phase", "proactive"}
  /\ Most \in [Policies -> 0 .. N]
  /\ DemoteBelow \in Nat /\ PromoteAbove \in Nat /\ DemoteBelow < PromoteAbove
  /\ SlowReserve \in Nat /\ Cooldown \in Nat /\ WallOffset \in Nat
  /\ WallOffset > Cooldown
  /\ Partial \in BOOLEAN

VMs == 1 .. N

VARIABLES
  policy,    (* the script that runs                                       *)
  stuck,     (* VMs whose migration raises OSError every time              *)
  life,      (* "new", "running" or "exited"                               *)
  pages,     (* each VM's resident pages on each node                      *)
  tier,      (* VM.tier; "unknown" before discovery                        *)
  age,       (* iterations since VM.last_move, up to Cooldown              *)
  phase,     (* what the VM's phase file says, "none" when it is unusable  *)
  decision,  (* what choose_move returned                                  *)
  grown      (* memory was taken since then                                *)

tieringVars == <<policy, stuck, life, pages, tier, age, phase, decision, grown>>

Nodes == {"fast", "slow"}

\* PHASE_PRIORITY, most demotable first.
Priority == [waiting_user_input |-> 0, waiting_llm_inference |-> 1,
             running_tool |-> 2]

Phases == DOMAIN Priority

NoMove == [vm |-> 0]

TieringInit ==
  /\ policy \in Policies /\ stuck \in SUBSET (1 .. Most[policy])
  /\ life = [v \in VMs |-> "new"]
  /\ pages = [v \in VMs |-> [fast |-> 0, slow |-> 0]]
  /\ tier = [v \in VMs |-> "unknown"]
  /\ age = [v \in VMs |-> Cooldown]
  /\ phase = [v \in VMs |-> "none"]
  /\ decision = NoMove
  /\ grown = FALSE

Used(node) == MapThenSumSet(LAMBDA v : pages[v][node], VMs)

\* MemFree of the node.
Free(node) == (IF node = "fast" THEN FastSize ELSE SlowSize) - Used(node)

-----------------------------------------------------------------------------
(* choose_move.                                                            *)

Discovered(v) == life[v] = "running"

\* VM.tier once discover has seen the VM: what it was, or where most of the
\* VM's pages are; an exited VM is dropped.
Label(v) ==
  IF ~Discovered(v) THEN "unknown"
  ELSE IF tier[v] # "unknown" THEN tier[v]
  ELSE IF pages[v]["slow"] > pages[v]["fast"] THEN "slow" ELSE "fast"

\* now - vm.last_move.  The phase variants pass time.time() as now, and set
\* last_move from time.monotonic() like the first script.
Elapsed(v) == age[v] + 1 + (IF policy = "lru" THEN 0 ELSE WallOffset)

Eligible(v) == Elapsed(v) >= Cooldown

\* Mutant of Pressure: demotion starts where promotion stops.
PressureBelowPromotion == Free("fast") <= PromoteAbove

Pressure ==
  \/ Free("fast") < DemoteBelow
  \/ policy = "proactive" /\ Used("fast") + Used("slow") >= SystemLimit

\* Mutant of Fits: the whole of the target's free memory may be filled.
FitsBarely(v, source, target, headroom) ==
  /\ pages[v][source] > 0
  /\ Free(target) >= pages[v][source]

Fits(v, source, target, headroom) ==
  /\ pages[v][source] > 0
  /\ Free(target) >= pages[v][source] + headroom

Demotable ==
  {v \in VMs : /\ Eligible(v)
               /\ Label(v) = "fast"
               /\ policy # "lru" => phase[v] # "none"
               /\ Fits(v, "fast", "slow", SlowReserve)}

Promotable ==
  {v \in VMs : /\ Eligible(v)
               /\ Label(v) = "slow"
               /\ Fits(v, "slow", "fast", PromoteAbove)}

DemotedBefore(v, w) ==
  IF policy = "lru" \/ phase[v] = phase[w] THEN v <= w
  ELSE Priority[phase[v]] < Priority[phase[w]]

Demotion ==
  [vm |-> CHOOSE v \in Demotable : \A w \in Demotable : DemotedBefore(v, w),
   source |-> "fast", target |-> "slow"]

Promotion ==
  [vm |-> CHOOSE v \in Promotable : \A w \in Promotable : v >= w,
   source |-> "slow", target |-> "fast"]

Choice ==
  IF Pressure
  THEN IF Demotable # {} THEN Demotion ELSE NoMove
  ELSE IF Free("fast") > PromoteAbove /\ Promotable # {} THEN Promotion
  ELSE NoMove

-----------------------------------------------------------------------------
(* The loop of main.                                                       *)

Older(a) == IF a < Cooldown THEN a + 1 ELSE Cooldown

Poll ==
  /\ decision = NoMove
  /\ tier' = [v \in VMs |-> Label(v)]
  /\ age' = [v \in VMs |-> Older(age[v])]
  /\ decision' = Choice
  /\ grown' = FALSE
  /\ UNCHANGED <<policy, stuck, life, pages, phase>>

\* numa_migrate_pages moves what it can; the VM's tier is the target's even
\* when pages stay behind.
Moved(v, n) ==
  /\ pages' = [pages EXCEPT ![v][decision.source] = @ - n,
                            ![v][decision.target] = @ + n]
  /\ tier' = [tier EXCEPT ![v] = decision.target]
  /\ age' = [age EXCEPT ![v] = 0]

\* Mutant of Refused: a move that raised does not start the cooldown.
RefusedAtOnce(v) == UNCHANGED <<age, tier, pages>>

Refused(v) == age' = [age EXCEPT ![v] = 0] /\ UNCHANGED <<tier, pages>>

Migrate ==
  /\ decision # NoMove
  /\ LET v == decision.vm
     IN IF life[v] # "running" THEN UNCHANGED <<pages, tier, age>>
        ELSE IF v \in stuck THEN Refused(v)
        ELSE \E n \in 0 .. pages[v][decision.source] :
               /\ n <= Free(decision.target)
               /\ Partial \/ n \in {pages[v][decision.source], Free(decision.target)}
               /\ Moved(v, n)
  /\ decision' = NoMove
  /\ UNCHANGED <<policy, stuck, life, phase, grown>>

-----------------------------------------------------------------------------
(* The virtual machines and the publisher of their phases.                 *)

\* Memory is taken on the node of the VM's CPUs, the fast one, while it has
\* any, and on the other after that.
Allocate(v) ==
  /\ \E node \in Nodes :
       /\ Free(node) > 0
       /\ node = "slow" => Free("fast") = 0
       /\ pages' = [pages EXCEPT ![v][node] = @ + 1]
  /\ grown' = TRUE

Boot(v) ==
  /\ life[v] = "new"
  /\ v <= Most[policy]
  /\ \A w \in VMs : w < v => life[w] # "new"
  /\ life' = [life EXCEPT ![v] = "running"]
  /\ Allocate(v)
  /\ UNCHANGED <<policy, stuck, tier, age, phase, decision>>

Grow(v) ==
  /\ life[v] = "running"
  /\ pages[v]["fast"] + pages[v]["slow"] < MaxPages
  /\ Allocate(v)
  /\ UNCHANGED <<policy, stuck, life, tier, age, phase, decision>>

Exit(v) ==
  /\ life[v] = "running"
  /\ life' = [life EXCEPT ![v] = "exited"]
  /\ pages' = [pages EXCEPT ![v] = [fast |-> 0, slow |-> 0]]
  /\ phase' = [phase EXCEPT ![v] = "none"]
  /\ UNCHANGED <<policy, stuck, tier, age, decision, grown>>

\* publish_phases writes the file again every second; a file that is too old
\* counts as none.
Publish(v) ==
  /\ policy # "lru"
  /\ life[v] = "running"
  /\ \E p \in {"none", "waiting_llm_inference", "running_tool"} :
       phase' = [phase EXCEPT ![v] = p]
  /\ UNCHANGED <<policy, stuck, life, pages, tier, age, decision, grown>>

TieringNext ==
  \/ Poll
  \/ Migrate
  \/ \E v \in VMs : Boot(v) \/ Grow(v) \/ Exit(v) \/ Publish(v)

\* The controller's loop goes on; nothing is assumed of the VMs.
TieringSpec ==
  /\ TieringInit /\ [][TieringNext]_tieringVars
  /\ WF_tieringVars(Poll) /\ WF_tieringVars(Migrate)

-----------------------------------------------------------------------------
(* Properties.                                                             *)

\* This step tries to move v.
Tries(v) ==
  /\ decision # NoMove /\ decision' = NoMove
  /\ decision.vm = v /\ life[v] = "running"

\* A VM is not moved again before its cooldown is over.
CooldownRespected ==
  [][\A v \in VMs : Tries(v) => age[v] >= Cooldown]_tieringVars

\* When no memory was taken since the decision, a demotion leaves the slow node
\* its reserve, and a promotion leaves the fast node above the promotion mark,
\* so that a move never sets off the opposite one.
HeadroomKept ==
  [][(decision # NoMove /\ decision' = NoMove /\ ~grown) =>
       IF decision.target = "slow" THEN Free("slow")' >= SlowReserve
       ELSE Free("fast")' >= PromoteAbove]_tieringVars

\* Once the VMs stop changing, the controller comes to rest: no VM is sent to
\* and fro for ever, with any mix of whole and partial moves.
Settles ==
  <>[][\A v \in VMs : (life[v] = "running" /\ tier[v] # "unknown") =>
                         tier'[v] = tier[v]]_tieringVars

\* A VM the controller itself takes for demotable.
Waiting(v) ==
  /\ life[v] = "running" /\ tier[v] = "fast"
  /\ Pressure /\ Fits(v, "fast", "slow", SlowReserve)

\* VMs whose migration keeps failing do not keep a later one on the fast node as
\* long as a cooldown outlasts a try of each: the pass that is left over falls to
\* the later VM.  With as many of them before it as a cooldown has passes the
\* controller tries them in turn and never comes to the VM; and the variants
\* have lost the cooldown, see Elapsed, and this with it.
StuckBefore(v) == {w \in stuck : w < v}

FailureDoesNotBlock ==
  \A v \in VMs :
    (/\ policy = "lru" /\ v \notin stuck
     /\ Cardinality(StuckBefore(v)) < Cooldown
     /\ Waiting(v)) ~> ~Waiting(v)

\* "When node 0 runs low, demote the VM whose session was launched earliest":
\* with low memory on the fast node, and a VM there for which the slow node has
\* room, it does not stay like that.
RunsLow ==
  /\ Free("fast") < DemoteBelow
  /\ \E v \in VMs : /\ life[v] = "running"
                    /\ Fits(v, "fast", "slow", SlowReserve)

DemotesWhenLow == (stuck = {} /\ RunsLow) ~> ~RunsLow
=============================================================================
