--------------------------- MODULE TieringProofs ----------------------------
(***************************************************************************)
(* Proofs about the two ways in which guest memory is tiered.              *)
(*                                                                         *)
(* Tiering, for any number of virtual machines, any sizes of nodes and     *)
(* VMs, all three scripts and any thresholds main accepts: what a node has *)
(* free is its size less a sum over the VMs, which follows a change of one *)
(* summand (SumChanges of SumsAndOrders).  The rest is an invariant about  *)
(* the decision that is waiting (DecisionInv), and that choose_move's      *)
(* order always has a first VM.                                            *)
(*                                                                         *)
(* TppSession and the KernelTpp inside it, for any number of failing       *)
(* writes and of signals: EnableInv says of enable_kernel_tpp.py what its  *)
(* rollback rests on: a control that is not among the attempted ones is as *)
(* it was.  SessionInv follows the script: until the EXIT trap touches a   *)
(* control, an experiment that runs has all of them on, and every line of  *)
(* the trap puts one back.                                                 *)
(***************************************************************************)
EXTENDS Tiering, TppSession, SumsAndOrders, SequenceTheorems, TLAPS

-----------------------------------------------------------------------------
(***************************************************************************)
(* Tiering.                                                                *)
(***************************************************************************)

(* The state of the controller and of its VMs.                             *)

TieringTypeOK ==
  /\ policy \in {"lru", "phase", "proactive"}
  /\ stuck \subseteq VMs
  /\ life \in [VMs -> {"new", "running", "exited"}]
  /\ pages \in [VMs -> [fast : Nat, slow : Nat]]
  /\ tier \in [VMs -> {"unknown", "fast", "slow"}]
  /\ age \in [VMs -> Nat]
  /\ phase \in [VMs -> {"none"} \cup Phases]
  /\ grown \in BOOLEAN

(* A decision that was made moves a VM from one node to the other, and as  *)
(* long as no memory was taken the other has room for all of it.           *)
DecisionInv ==
  decision # NoMove =>
    /\ decision.vm \in VMs
    /\ \/ /\ decision.source = "fast" /\ decision.target = "slow"
          /\ ~grown => Free("slow") >= pages[decision.vm]["fast"] + SlowReserve
       \/ /\ decision.source = "slow" /\ decision.target = "fast"
          /\ ~grown => Free("fast") >= pages[decision.vm]["slow"] + PromoteAbove

TieringInv == TieringTypeOK /\ DecisionInv

(* The virtual machines are a finite set.                                  *)
LEMMA FleetIsFinite == IsFiniteSet(VMs) /\ VMs \subseteq Nat /\ \A v \in VMs : v <= N
  BY TieringAssumption, FS_Interval DEF VMs

(* Used is a sum over the VMs.                                             *)
LEMMA UsedIsSum ==
  ASSUME NEW node \in Nodes
  PROVE  Used(node) = Sums([v \in VMs |-> pages[v][node]], VMs)[VMs]
  BY DEF Used, MapThenSumSet, MapThenFoldSet, Sums, SumsOf, SumStep, First

(* And so it is after a step.                                              *)
LEMMA UsedIsSumThen ==
  ASSUME NEW node \in Nodes
  PROVE  Used(node)' = Sums([v \in VMs |-> pages'[v][node]], VMs)[VMs]
  BY DEF Used, MapThenSumSet, MapThenFoldSet, Sums, SumsOf, SumStep, First

(* When the pages of one VM change, the free memory changes with them.     *)
LEMMA FreeFollows ==
  ASSUME TieringTypeOK, NEW now \in [VMs -> [fast : Nat, slow : Nat]], pages' = now,
         NEW node \in Nodes, NEW v \in VMs,
         \A w \in VMs : w # v => now[w][node] = pages[w][node]
  PROVE  /\ Free(node) \in Int
         /\ Free(node)' = Free(node) + pages[v][node] - now[v][node]
<1> DEFINE p == [w \in VMs |-> pages[w][node]]
           q == [w \in VMs |-> now[w][node]]
<1>1. p \in [VMs -> Nat] /\ q \in [VMs -> Nat]
  BY DEF TieringTypeOK, Nodes
<1>2. /\ p[v] = pages[v][node] /\ q[v] = now[v][node]
      /\ \A w \in VMs : w # v => q[w] = p[w]
  OBVIOUS
<1>3. Used(node) = Sums(p, VMs)[VMs] /\ Used(node)' = Sums(q, VMs)[VMs]
  <2>1. Used(node) = Sums(p, VMs)[VMs]
    BY UsedIsSum
  <2>2. Used(node)' = Sums([w \in VMs |-> pages'[w][node]], VMs)[VMs]
    BY UsedIsSumThen
  <2>3. QED
    BY <2>1, <2>2
<1> HIDE DEF p, q
<1>4. /\ Sums(p, VMs)[VMs] \in Nat
      /\ Sums(q, VMs)[VMs] = Sums(p, VMs)[VMs] + q[v] - p[v]
  <2>1. IsFiniteSet(VMs) /\ \A w \in VMs : w # v => q[w] = p[w]
    BY <1>2, FleetIsFinite
  <2>2. QED
    BY <1>1, <2>1, SumChanges
<1>5. p[v] \in Nat /\ q[v] \in Nat
  BY <1>1
<1>6. QED
  BY <1>2, <1>3, <1>4, <1>5, TieringAssumption DEF Free

-----------------------------------------------------------------------------
(* What choose_move returns.                                               *)

(* Some demotable VM comes before all others: the one of the least         *)
(* priority, and among these the one that was launched first.              *)
LEMMA FirstToDemote ==
  ASSUME TieringTypeOK, Demotable # {}
  PROVE  \E v \in Demotable : \A w \in Demotable : DemotedBefore(v, w)
<1>1. Demotable \in SUBSET Nat /\ Demotable \subseteq VMs
  BY FleetIsFinite DEF Demotable
<1>2. CASE policy = "lru"
  <2>1. PICK v \in Demotable : \A w \in Demotable : v <= w
    BY <1>1, LeastNumber
  <2>2. QED
    BY <1>2, <2>1 DEF DemotedBefore
<1>3. CASE policy # "lru"
  <2>1. \A v \in Demotable : phase[v] \in Phases
    BY <1>1, <1>3 DEF Demotable, TieringTypeOK
  <2>2. /\ \A p \in Phases : Priority[p] \in Nat
        /\ \A p, q \in Phases : Priority[p] = Priority[q] => p = q
    BY DEF Phases, Priority
  <2> DEFINE Ranks == {Priority[phase[v]] : v \in Demotable}
  <2>3. Ranks \in SUBSET Nat /\ Ranks # {}
    BY <2>1, <2>2
  <2> HIDE DEF Ranks
  <2>4. PICK rank \in Ranks : \A n \in Ranks : rank <= n
    BY <2>3, LeastNumber
  <2> DEFINE Ranked == {v \in Demotable : Priority[phase[v]] = rank}
  <2>5. Ranked \in SUBSET Nat /\ Ranked # {}
    BY <1>1, <2>4 DEF Ranks
  <2> HIDE DEF Ranked
  <2>6. PICK v \in Ranked : \A w \in Ranked : v <= w
    BY <2>5, LeastNumber
  <2>7. v \in Demotable /\ Priority[phase[v]] = rank
    BY <2>6 DEF Ranked
  <2>8. ASSUME NEW w \in Demotable
        PROVE  DemotedBefore(v, w)
    <3>1. Priority[phase[w]] \in Ranks
      BY DEF Ranks
    <3>2. CASE phase[v] = phase[w]
      <4>1. w \in Ranked
        BY <2>7, <3>2 DEF Ranked
      <4>2. QED
        BY <2>6, <3>2, <4>1 DEF DemotedBefore
    <3>3. CASE phase[v] # phase[w]
      <4>1. /\ Priority[phase[v]] <= Priority[phase[w]]
            /\ Priority[phase[v]] # Priority[phase[w]]
            /\ Priority[phase[v]] \in Nat /\ Priority[phase[w]] \in Nat
        BY <2>1, <2>2, <2>4, <2>7, <3>1, <3>3
      <4>2. Priority[phase[v]] < Priority[phase[w]]
        BY <4>1
      <4>3. QED
        BY <1>3, <3>3, <4>2 DEF DemotedBefore
    <3>4. QED
      BY <3>2, <3>3
  <2>9. QED
    BY <2>7, <2>8
<1>4. QED
  BY <1>2, <1>3

(* Some promotable VM was launched last.                                   *)
LEMMA LastToPromote ==
  ASSUME Promotable # {}
  PROVE  \E v \in Promotable : \A w \in Promotable : v >= w
<1>1. N \in Nat /\ \A v \in Promotable : v \in Nat /\ v <= N
  BY FleetIsFinite, TieringAssumption DEF Promotable
<1> DEFINE After == {N - v : v \in Promotable}
<1>2. After \in SUBSET Nat /\ After # {}
  BY <1>1
<1> HIDE DEF After
<1>3. PICK d \in After : \A n \in After : d <= n
  BY <1>2, LeastNumber
<1>4. PICK v \in Promotable : d = N - v
  BY <1>3 DEF After
<1>5. ASSUME NEW w \in Promotable  PROVE v >= w
  <2>1. N - w \in After
    BY DEF After
  <2>2. N - v <= N - w
    BY <1>3, <1>4, <2>1
  <2>3. QED
    BY <1>1, <2>2
<1>6. QED
  BY <1>5

(* A decision is a VM that fits where it is to go.                         *)
LEMMA ChoiceFits ==
  ASSUME TieringTypeOK, Choice # NoMove
  PROVE  \/ /\ Choice.source = "fast" /\ Choice.target = "slow"
            /\ Choice.vm \in VMs /\ Fits(Choice.vm, "fast", "slow", SlowReserve)
         \/ /\ Choice.source = "slow" /\ Choice.target = "fast"
            /\ Choice.vm \in VMs /\ Fits(Choice.vm, "slow", "fast", PromoteAbove)
<1>1. CASE Choice = Demotion /\ Demotable # {}
  <2>1. Demotion.vm \in Demotable /\ Demotion.source = "fast" /\ Demotion.target = "slow"
    BY <1>1, FirstToDemote DEF Demotion
  <2>2. QED
    BY <1>1, <2>1 DEF Demotable
<1>2. CASE Choice = Promotion /\ Promotable # {}
  <2>1. Promotion.vm \in Promotable /\ Promotion.source = "slow" /\ Promotion.target = "fast"
    BY <1>2, LastToPromote DEF Promotion
  <2>2. QED
    BY <1>2, <2>1 DEF Promotable
<1>3. QED
  BY <1>1, <1>2 DEF Choice

-----------------------------------------------------------------------------
(* The steps.                                                              *)

(* The controller starts without a decision.                               *)
LEMMA TieringStarts == TieringInit => TieringInv
<1> SUFFICES ASSUME TieringInit
             PROVE  TieringInv
  OBVIOUS
<1>1. TieringTypeOK
  <2>1. \A v \in VMs : [fast |-> 0, slow |-> 0] \in [fast : Nat, slow : Nat]
    OBVIOUS
  <2>2. /\ pages \in [VMs -> [fast : Nat, slow : Nat]]
        /\ life \in [VMs -> {"new", "running", "exited"}]
        /\ tier \in [VMs -> {"unknown", "fast", "slow"}]
        /\ age \in [VMs -> Nat] /\ phase \in [VMs -> {"none"} \cup Phases]
    BY <2>1, TieringAssumption DEF TieringInit
  <2>3. policy \in Policies /\ stuck \subseteq 1 .. Most[policy] /\ grown = FALSE
    BY DEF TieringInit
  <2>4. Most[policy] \in 0 .. N
    BY <2>3, TieringAssumption
  <2>5. 1 .. Most[policy] \subseteq VMs
    BY <2>4, TieringAssumption DEF VMs
  <2>6. policy \in {"lru", "phase", "proactive"}
    BY <2>3, TieringAssumption
  <2>7. QED
    BY <2>2, <2>3, <2>5, <2>6 DEF TieringTypeOK
<1>2. DecisionInv
  BY DEF TieringInit, DecisionInv
<1>3. QED
  BY <1>1, <1>2 DEF TieringInv

(* What is free depends on the pages alone.                                *)
LEMMA FreeStays ==
  ASSUME pages' = pages, NEW node \in Nodes
  PROVE  Free(node)' = Free(node)
<1>1. [v \in VMs |-> pages'[v][node]] = [v \in VMs |-> pages[v][node]]
  OBVIOUS
<1>2. Used(node)' = Used(node)
  BY <1>1, UsedIsSum, UsedIsSumThen
<1>3. QED
  BY <1>2 DEF Free

(* A poll decides for a VM that fits now.                                  *)
LEMMA PollKeeps ==
  ASSUME TieringInv, Poll
  PROVE  TieringInv'
<1>0. TieringTypeOK /\ UNCHANGED <<policy, stuck, life, pages, phase>>
  BY DEF TieringInv, Poll
<1>1. TieringTypeOK'
  <2>1. tier' \in [VMs -> {"unknown", "fast", "slow"}]
    <3>1. \A v \in VMs : Label(v) \in {"unknown", "fast", "slow"}
      BY <1>0 DEF Label, TieringTypeOK
    <3>2. QED
      BY <3>1 DEF Poll
  <2>2. age' \in [VMs -> Nat]
    BY <1>0, TieringAssumption DEF Poll, Older, TieringTypeOK
  <2>3. QED
    BY <1>0, <2>1, <2>2 DEF Poll, TieringTypeOK
<1>2. DecisionInv'
  <2>1. /\ decision' = Choice /\ pages' = pages
        /\ Free("fast")' = Free("fast") /\ Free("slow")' = Free("slow")
    BY FreeStays DEF Poll, Nodes
  <2>2. CASE /\ Choice.source = "fast" /\ Choice.target = "slow"
             /\ Choice.vm \in VMs /\ Fits(Choice.vm, "fast", "slow", SlowReserve)
    BY <2>1, <2>2 DEF Fits, DecisionInv
  <2>3. CASE /\ Choice.source = "slow" /\ Choice.target = "fast"
             /\ Choice.vm \in VMs /\ Fits(Choice.vm, "slow", "fast", PromoteAbove)
    BY <2>1, <2>3 DEF Fits, DecisionInv
  <2>4. CASE Choice = NoMove
    BY <2>1, <2>4 DEF DecisionInv
  <2>5. QED
    BY <1>0, <2>2, <2>3, <2>4, ChoiceFits
<1>3. QED
  BY <1>1, <1>2 DEF TieringInv

(* A move takes at most what was on the source node.                       *)
LEMMA MoveTakes ==
  ASSUME TieringTypeOK, Migrate, NEW v \in VMs, NEW source \in Nodes, NEW target \in Nodes,
         source # target, decision.vm = v, decision.source = source, decision.target = target
  PROVE  /\ TieringTypeOK' /\ pages[v][source] \in Nat
         /\ Free(target) \in Int /\ Free(target)' \in Int
         /\ Free(target)' >= Free(target) - pages[v][source]
<1>0. /\ pages[v][source] \in Nat /\ pages[v][target] \in Nat
      /\ pages \in [VMs -> [fast : Nat, slow : Nat]]
      /\ UNCHANGED <<policy, stuck, life, phase, grown>>
  BY DEF TieringTypeOK, Nodes, Migrate
<1>1. CASE pages' = pages /\ age' \in [VMs -> Nat] /\ tier' = tier
  <2>1. TieringTypeOK'
    BY <1>0, <1>1 DEF TieringTypeOK
  <2>2. Free(target) \in Int
    BY <1>0, <1>1, FreeFollows
  <2>3. Free(target)' = Free(target)
    BY <1>1, FreeStays
  <2>4. QED
    BY <1>0, <2>1, <2>2, <2>3
<1>2. CASE life[v] # "running"
  BY <1>1, <1>2 DEF Migrate, TieringTypeOK
<1>3. CASE life[v] = "running" /\ v \in stuck
  BY <1>1, <1>3 DEF Migrate, Refused, TieringTypeOK
<1>4. CASE life[v] = "running" /\ v \notin stuck
  <2>1. PICK n \in 0 .. pages[v][source] : Moved(v, n)
    BY <1>4 DEF Migrate
  <2>2. pages[v][source] - n \in Nat /\ pages[v][target] + n \in Nat /\ n \in Nat
    BY <1>0
  <2>3. /\ pages' \in [VMs -> [fast : Nat, slow : Nat]]
        /\ pages'[v][target] = pages[v][target] + n
        /\ \A w \in VMs : w # v => pages'[w] = pages[w]
    <3>1. CASE source = "fast" /\ target = "slow"
      BY <1>0, <2>1, <2>2, <3>1 DEF Moved
    <3>2. CASE source = "slow" /\ target = "fast"
      BY <1>0, <2>1, <2>2, <3>2 DEF Moved
    <3>3. QED
      BY <3>1, <3>2 DEF Nodes
  <2>4. /\ Free(target) \in Int
        /\ Free(target)' = Free(target) + pages[v][target] - pages'[v][target]
    BY <2>3, FreeFollows
  <2>5. tier' \in [VMs -> {"unknown", "fast", "slow"}] /\ age' \in [VMs -> Nat]
    BY <2>1 DEF Moved, TieringTypeOK, Nodes
  <2>6. TieringTypeOK'
    BY <1>0, <2>3, <2>5 DEF TieringTypeOK
  <2>7. QED
    BY <1>0, <2>2, <2>3, <2>4, <2>6
<1>5. QED
  BY <1>2, <1>3, <1>4

(* It leaves the target its headroom, unless memory was taken before.      *)
LEMMA MigrateKeeps ==
  ASSUME TieringInv, Migrate
  PROVE  /\ TieringInv'
         /\ ~grown => IF decision.target = "slow" THEN Free("slow")' >= SlowReserve
                      ELSE Free("fast")' >= PromoteAbove
<1>0. /\ TieringTypeOK /\ DecisionInv /\ decision # NoMove /\ decision' = NoMove
      /\ "fast" \in Nodes /\ "slow" \in Nodes
  BY DEF TieringInv, Migrate, Nodes
<1>1. DecisionInv'
  BY <1>0 DEF DecisionInv
<1>2. PICK v \in VMs : decision.vm = v
  BY <1>0 DEF DecisionInv
<1>3. CASE decision.source = "fast" /\ decision.target = "slow"
  <2>1. /\ TieringTypeOK' /\ pages[v]["fast"] \in Nat
        /\ Free("slow") \in Int /\ Free("slow")' \in Int
        /\ Free("slow")' >= Free("slow") - pages[v]["fast"]
    BY <1>0, <1>2, <1>3, MoveTakes
  <2>2. ~grown => Free("slow") >= pages[v]["fast"] + SlowReserve
    BY <1>0, <1>2, <1>3 DEF DecisionInv
  <2>3. QED
    BY <1>1, <1>3, <2>1, <2>2, TieringAssumption DEF TieringInv
<1>4. CASE decision.source = "slow" /\ decision.target = "fast"
  <2>1. /\ TieringTypeOK' /\ pages[v]["slow"] \in Nat
        /\ Free("fast") \in Int /\ Free("fast")' \in Int
        /\ Free("fast")' >= Free("fast") - pages[v]["slow"]
    BY <1>0, <1>2, <1>4, MoveTakes
  <2>2. ~grown => Free("fast") >= pages[v]["slow"] + PromoteAbove
    BY <1>0, <1>2, <1>4 DEF DecisionInv
  <2>3. QED
    BY <1>1, <1>4, <2>1, <2>2, TieringAssumption DEF TieringInv
<1>5. QED
  BY <1>0, <1>3, <1>4 DEF DecisionInv

(* A VM that takes memory is noted.                                        *)
LEMMA AllocateKeeps ==
  ASSUME TieringInv, NEW v \in VMs, Boot(v) \/ Grow(v)
  PROVE  TieringInv'
<1>0. /\ TieringTypeOK /\ Allocate(v)
      /\ UNCHANGED <<policy, stuck, tier, age, phase, decision>>
      /\ life' \in [VMs -> {"new", "running", "exited"}]
  BY DEF TieringInv, TieringTypeOK, Boot, Grow
<1>1. pages' \in [VMs -> [fast : Nat, slow : Nat]] /\ grown' = TRUE
  BY <1>0 DEF Allocate, Nodes, TieringTypeOK
<1>2. TieringTypeOK'
  BY <1>0, <1>1 DEF TieringTypeOK
<1>3. DecisionInv'
  BY <1>0, <1>1 DEF TieringInv, DecisionInv
<1>4. QED
  BY <1>2, <1>3 DEF TieringInv

(* A VM that exits gives its memory back.                                  *)
LEMMA ExitKeeps ==
  ASSUME TieringInv, NEW v \in VMs, Exit(v)
  PROVE  TieringInv'
<1>0. /\ TieringTypeOK /\ DecisionInv
      /\ pages' = [pages EXCEPT ![v] = [fast |-> 0, slow |-> 0]]
      /\ UNCHANGED <<policy, stuck, tier, age, decision, grown>>
  BY DEF TieringInv, Exit
<1>1. /\ pages' \in [VMs -> [fast : Nat, slow : Nat]]
      /\ pages \in [VMs -> [fast : Nat, slow : Nat]]
      /\ \A w \in VMs : w # v => pages'[w] = pages[w]
      /\ \A node \in Nodes : pages'[v][node] = 0
  BY <1>0 DEF TieringTypeOK, Nodes
<1>2. TieringTypeOK'
  BY <1>0, <1>1 DEF TieringTypeOK, Exit
<1>3. ASSUME NEW node \in Nodes
      PROVE  /\ Free(node) \in Int /\ Free(node)' \in Int /\ Free(node)' >= Free(node)
             /\ \A w \in VMs : /\ pages[w][node] \in Nat /\ pages'[w][node] \in Nat
                               /\ pages'[w][node] <= pages[w][node]
  <2>1. /\ Free(node) \in Int
        /\ Free(node)' = Free(node) + pages[v][node] - pages'[v][node]
    BY <1>0, <1>1, FreeFollows
  <2>2. \A w \in VMs : pages[w][node] \in Nat /\ pages'[w][node] \in Nat
    BY <1>1 DEF Nodes
  <2>3. QED
    BY <1>1, <2>1, <2>2
<1>4. /\ Free("fast") \in Int /\ Free("fast")' \in Int /\ Free("fast")' >= Free("fast")
      /\ Free("slow") \in Int /\ Free("slow")' \in Int /\ Free("slow")' >= Free("slow")
      /\ \A w \in VMs : /\ pages[w]["fast"] \in Nat /\ pages'[w]["fast"] \in Nat
                        /\ pages'[w]["fast"] <= pages[w]["fast"]
                        /\ pages[w]["slow"] \in Nat /\ pages'[w]["slow"] \in Nat
                        /\ pages'[w]["slow"] <= pages[w]["slow"]
  BY <1>3 DEF Nodes
<1>5. DecisionInv'
  BY <1>0, <1>4, TieringAssumption DEF DecisionInv
<1>6. QED
  BY <1>2, <1>5 DEF TieringInv

(* The rest leaves memory alone.                                           *)
LEMMA QuietKeeps ==
  ASSUME TieringInv, UNCHANGED tieringVars \/ \E v \in VMs : Publish(v)
  PROVE  TieringInv'
<1>0. /\ UNCHANGED <<policy, stuck, life, pages, tier, age, decision, grown>>
      /\ phase' \in [VMs -> {"none"} \cup Phases]
  BY DEF TieringInv, TieringTypeOK, Publish, Phases, Priority, tieringVars
<1>1. TieringTypeOK'
  BY <1>0 DEF TieringInv, TieringTypeOK
<1>2. DecisionInv'
  <2>1. Free("fast")' = Free("fast") /\ Free("slow")' = Free("slow")
    BY <1>0, FreeStays DEF Nodes
  <2>2. QED
    BY <1>0, <2>1 DEF TieringInv, DecisionInv
<1>3. QED
  BY <1>1, <1>2 DEF TieringInv

(* Every step keeps the invariant.                                         *)
LEMMA TieringStep == TieringInv /\ [TieringNext]_tieringVars => TieringInv'
  BY PollKeeps, MigrateKeeps, AllocateKeeps, ExitKeeps, QuietKeeps DEF TieringNext

-----------------------------------------------------------------------------
(* The theorems.                                                           *)

(* A decision always speaks of a VM that was there, from one node to the   *)
(* other, and that fits unless memory was taken since.                     *)
THEOREM DecisionsFit == TieringSpec => []TieringInv
  BY TieringStarts, TieringStep, PTL DEF TieringSpec

(* No move leaves its target with less than the headroom it was decided    *)
(* with, unless a VM took memory in between.                               *)
THEOREM MovesLeaveHeadroom == TieringSpec => HeadroomKept
<1>1. ASSUME TieringInv, [TieringNext]_tieringVars, decision # NoMove, decision' = NoMove, ~grown
      PROVE  IF decision.target = "slow" THEN Free("slow")' >= SlowReserve
             ELSE Free("fast")' >= PromoteAbove
  <2>1. Migrate
    BY <1>1 DEF TieringNext, tieringVars, Poll, Boot, Grow, Exit, Publish
  <2>2. QED
    BY <1>1, <2>1, MigrateKeeps
<1>2. QED
  BY <1>1, DecisionsFit, PTL DEF TieringSpec, HeadroomKept

-----------------------------------------------------------------------------
(***************************************************************************)
(* TppSession.                                                             *)
(***************************************************************************)

Values == {"off", "on", "odd"}

Place(c) ==
  IF c = "demotion" THEN 1 ELSE IF c = "balancing" THEN 2 ELSE 3

(* The control is among the first Len(attempted) of Changes.               *)
Tried(c) == Place(c) <= Len(attempted)

Shapes ==
  /\ control \in [Controls -> Values]
  /\ prior \in [Controls -> Values]
  /\ capable \in BOOLEAN /\ computes \in BOOLEAN /\ demote \in BOOLEAN
  /\ pc \in {"inspect", "write", "verify", "rollback", "enabled", "refused",
             "failed", "interrupted"}
  /\ attempted \in Seq(Controls) /\ Len(attempted) <= 3
  /\ \A k \in 1 .. Len(attempted) : attempted[k] = Changes[k]
  /\ failures \subseteq Controls

EnableInv ==
  /\ Shapes
  /\ pc = "inspect" => Len(attempted) = 0
  /\ pc = "write" => Len(attempted) < 3
  /\ pc = "verify" => Len(attempted) = 3
  /\ pc = "rollback" => Len(attempted) > 0
  /\ pc \in {"write", "verify"} =>
       \A c \in Controls : IF Tried(c) THEN control[c] = "on"
                           ELSE control[c] = prior[c]
  /\ pc = "rollback" =>
       \A c \in Controls : Tried(c) \/ control[c] = prior[c] \/ c \in failures

Active == demote /\ \A c \in Controls : control[c] = "on"

Enabling == Inspect \/ WriteControl \/ WriteFails \/ Verify \/ RollBack

(* enable_tpp makes three changes, in this order.                          *)
LEMMA ChangesFacts ==
  /\ Len(Changes) = 3
  /\ Changes[1] = "demotion" /\ Changes[2] = "balancing"
  /\ Changes[3] = "watermark"
  BY DEF Changes

(* The numbers of changes that can have been made.                         *)
LEMMA SmallNumbers ==
  \A n \in Nat : /\ n < 3 => n = 0 \/ n = 1 \/ n = 2
                /\ n <= 3 /\ n > 0 => n = 1 \/ n = 2 \/ n = 3
  OBVIOUS

(* The control upcoming is the first that was not tried yet.               *)
LEMMA UpcomingFacts ==
  ASSUME Shapes, NEW n \in Nat, n = Len(attempted), n < 3
  PROVE  /\ Upcoming \in Controls
         /\ Append(attempted, Upcoming) \in Seq(Controls)
         /\ Len(Append(attempted, Upcoming)) = n + 1
         /\ \A k \in 1 .. n + 1 : Append(attempted, Upcoming)[k] = Changes[k]
         /\ \A c \in Controls :
              Place(c) <= n + 1 <=> Tried(c) \/ c = Upcoming
<1>1. n = 0 \/ n = 1 \/ n = 2
  BY SmallNumbers
<1>2. Upcoming = Changes[n + 1]
  BY DEF Upcoming
<1>3. Upcoming \in Controls
  BY <1>1, <1>2, ChangesFacts DEF Controls
<1>4. /\ Append(attempted, Upcoming) \in Seq(Controls)
      /\ Len(Append(attempted, Upcoming)) = n + 1
      /\ \A k \in 1 .. n : Append(attempted, Upcoming)[k] = attempted[k]
      /\ Append(attempted, Upcoming)[n + 1] = Upcoming
  BY <1>3, AppendProperties DEF Shapes
<1>5. \A k \in 1 .. n + 1 : Append(attempted, Upcoming)[k] = Changes[k]
  BY <1>2, <1>4 DEF Shapes
<1>6. \A c \in Controls : Place(c) <= n + 1 <=> Tried(c) \/ c = Upcoming
  BY <1>1, <1>2, ChangesFacts DEF Tried, Place, Controls
<1>7. QED
  BY <1>3, <1>4, <1>5, <1>6

(* The control put back is the last that was tried.                        *)
LEMMA LastFacts ==
  ASSUME Shapes, NEW n \in Nat, n = Len(attempted), n > 0
  PROVE  /\ Last \in Controls /\ Tried(Last)
         /\ SubSeq(attempted, 1, n - 1) \in Seq(Controls)
         /\ Len(SubSeq(attempted, 1, n - 1)) = n - 1
         /\ \A k \in 1 .. n - 1 : SubSeq(attempted, 1, n - 1)[k] = Changes[k]
         /\ \A c \in Controls :
              Place(c) <= n - 1 <=> Tried(c) /\ c # Last
<1>1. n = 1 \/ n = 2 \/ n = 3
  BY SmallNumbers DEF Shapes
<1>2. Last = Changes[n]
  BY <1>1 DEF Shapes, Last
<1>3. Last \in Controls /\ Tried(Last)
  <2>1. Last \in Controls /\ Place(Last) = n
    BY <1>1, <1>2, ChangesFacts DEF Controls, Place
  <2>2. QED
    BY <2>1 DEF Tried
<1>4. n - 1 \in 0 .. n
  OBVIOUS
<1>5. /\ SubSeq(attempted, 1, n - 1) \in Seq(Controls)
      /\ Len(SubSeq(attempted, 1, n - 1)) = n - 1
      /\ \A k \in 1 .. n - 1 : SubSeq(attempted, 1, n - 1)[k] = attempted[k]
  BY <1>4, SubSeqProperties DEF Shapes
<1>6. \A k \in 1 .. n - 1 : SubSeq(attempted, 1, n - 1)[k] = Changes[k]
  BY <1>5 DEF Shapes
<1>7. \A c \in Controls : Place(c) <= n - 1 <=> Tried(c) /\ c # Last
  <2>1. ASSUME NEW c \in Controls
        PROVE  Place(c) <= n - 1 <=> Place(c) <= n /\ c # Last
    <3>1. Place(c) \in 1 .. 3
      BY DEF Place
    <3>2. c = Last <=> Place(c) = n
      BY <1>1, <1>2, ChangesFacts DEF Place, Controls
    <3>3. QED
      BY <3>1, <3>2
  <2>2. QED
    BY <2>1 DEF Tried
<1>8. QED
  BY <1>3, <1>5, <1>6, <1>7

-----------------------------------------------------------------------------
(* enable_kernel_tpp.py.                                                   *)

(* What a write to a control leaves: that control has its value, the       *)
(* others theirs.                                                          *)
LEMMA StoredFacts ==
  ASSUME Shapes, NEW c \in Controls, NEW v \in Values, Stored(c, v)
  PROVE  /\ control' \in [Controls -> Values]
         /\ demote' \in BOOLEAN
         /\ control'[c] = v
         /\ \A d \in Controls : d # c => control'[d] = control[d]
  BY DEF Shapes, Stored

(* A write that raises leaves the other controls alone too.                *)
LEMMA RaisesFacts ==
  ASSUME Shapes, NEW c \in Controls, NEW v \in Values, WriteRaises(c, v)
  PROVE  /\ control' \in [Controls -> Values]
         /\ demote' \in BOOLEAN
         /\ \A d \in Controls : d # c => control'[d] = control[d]
  BY StoredFacts DEF Shapes, WriteRaises, Values

(* Inspect reads the controls and changes none.                            *)
LEMMA InspectKeeps ==
  ASSUME EnableInv, Inspect
  PROVE  EnableInv'
<1>1. Len(attempted) = 0 /\ UNCHANGED attempted
  BY DEF EnableInv, Inspect
<1>2. Shapes'
  BY DEF EnableInv, Shapes, Inspect
<1>3. \A c \in Controls : ~Tried(c)'
  BY <1>1 DEF Tried, Place
<1>4. QED
  BY <1>2, <1>3 DEF EnableInv, Inspect

(* A write adds its control to those that were tried, and sets it.         *)
LEMMA WriteControlKeeps ==
  ASSUME EnableInv, WriteControl
  PROVE  EnableInv'
<1> DEFINE n == Len(attempted)
<1>1. /\ Shapes /\ n \in Nat /\ n < 3 /\ pc = "write"
      /\ \A c \in Controls : IF Tried(c) THEN control[c] = "on"
                              ELSE control[c] = prior[c]
  BY LenProperties DEF EnableInv, Shapes, WriteControl
<1>2. /\ Upcoming \in Controls
      /\ attempted' \in Seq(Controls)
      /\ Len(attempted') = n + 1
      /\ \A k \in 1 .. n + 1 : attempted'[k] = Changes[k]
      /\ \A c \in Controls : Place(c) <= n + 1 <=> Tried(c) \/ c = Upcoming
  BY <1>1, UpcomingFacts DEF WriteControl
<1>3. /\ control' \in [Controls -> Values] /\ demote' \in BOOLEAN
      /\ control'[Upcoming] = "on"
      /\ \A d \in Controls : d # Upcoming => control'[d] = control[d]
  BY <1>1, <1>2, StoredFacts DEF WriteControl, Written, Values
<1>4. /\ pc' \in {"verify", "write"}
      /\ pc' = "verify" <=> n + 1 = 3
  BY <1>2, ChangesFacts DEF WriteControl
<1>5. Shapes'
  BY <1>1, <1>2, <1>3, <1>4 DEF Shapes, WriteControl
<1>6. \A c \in Controls : Tried(c)' <=> Tried(c) \/ c = Upcoming
  BY <1>2 DEF Tried
<1>7. \A c \in Controls : IF Tried(c)' THEN control'[c] = "on"
                          ELSE control'[c] = prior'[c]
  BY <1>1, <1>3, <1>6 DEF WriteControl
<1>8. /\ pc' = "write" => Len(attempted') < 3
      /\ pc' = "verify" => Len(attempted') = 3
  BY <1>1, <1>2, <1>4
<1>9. QED
  BY <1>4, <1>5, <1>7, <1>8 DEF EnableInv

(* A write that raises may have stored its value or not; its control was   *)
(* tried in either case.                                                   *)
LEMMA WriteFailsKeeps ==
  ASSUME EnableInv, WriteFails
  PROVE  EnableInv'
<1> DEFINE n == Len(attempted)
<1>1. /\ Shapes /\ n \in Nat /\ n < 3 /\ pc = "write"
      /\ \A c \in Controls : Tried(c) \/ control[c] = prior[c]
  BY LenProperties DEF EnableInv, Shapes, WriteFails
<1>2. /\ Upcoming \in Controls
      /\ attempted' \in Seq(Controls)
      /\ Len(attempted') = n + 1
      /\ \A k \in 1 .. n + 1 : attempted'[k] = Changes[k]
      /\ \A c \in Controls : Place(c) <= n + 1 <=> Tried(c) \/ c = Upcoming
  BY <1>1, UpcomingFacts DEF WriteFails
<1>3. /\ control' \in [Controls -> Values] /\ demote' \in BOOLEAN
      /\ \A d \in Controls : d # Upcoming => control'[d] = control[d]
  BY <1>1, <1>2, RaisesFacts DEF WriteFails, Values
<1>4. Shapes'
  BY <1>1, <1>2, <1>3 DEF Shapes, WriteFails
<1>5. \A c \in Controls : Tried(c)' <=> Tried(c) \/ c = Upcoming
  BY <1>2 DEF Tried
<1>6. \A c \in Controls : Tried(c)' \/ control'[c] = prior'[c]
  BY <1>1, <1>3, <1>5 DEF WriteFails
<1>7. pc' = "rollback" /\ Len(attempted') > 0
  BY <1>1, <1>2 DEF WriteFails
<1>8. QED
  BY <1>4, <1>6, <1>7 DEF EnableInv

(* The check after the last write changes no control.                      *)
LEMMA VerifyKeeps ==
  ASSUME EnableInv, Verify
  PROVE  EnableInv'
<1>1. /\ Shapes' /\ pc' \in {"enabled", "rollback"} /\ Len(attempted) = 3
      /\ UNCHANGED <<control, prior, attempted, failures>>
  BY DEF EnableInv, Shapes, Verify
<1>2. ASSUME NEW c \in Controls
      PROVE  Tried(c)'
  <2>1. Place(c) <= 3
    BY DEF Place, Controls
  <2>2. Len(attempted') = 3
    BY <1>1
  <2>3. QED
    BY <2>1, <2>2 DEF Tried
<1>3. QED
  BY <1>1, <1>2 DEF EnableInv

(* What a step of the rollback does to the control it is at.               *)
LEMMA RollBackFacts ==
  ASSUME EnableInv, RollBack, NEW n \in Nat, n = Len(attempted)
  PROVE  /\ n > 0 /\ Shapes' /\ Len(attempted') = n - 1
         /\ \A c \in Controls : Tried(c)' <=> Tried(c) /\ c # Last
         /\ \A c \in Controls :
              Tried(c)' \/ control'[c] = prior'[c] \/ c \in failures'
         /\ pc' = IF n = 1 THEN "failed" ELSE "rollback"
<1>1. /\ Shapes /\ n > 0
      /\ \A c \in Controls : Tried(c) \/ control[c] = prior[c] \/ c \in failures
  BY DEF EnableInv, RollBack
<1>2. /\ Last \in Controls
      /\ attempted' \in Seq(Controls)
      /\ Len(attempted') = n - 1
      /\ \A k \in 1 .. n - 1 : attempted'[k] = Changes[k]
      /\ \A c \in Controls : Place(c) <= n - 1 <=> Tried(c) /\ c # Last
  BY <1>1, LastFacts DEF RollBack, Undone
<1>3. prior[Last] \in Values
  BY <1>1, <1>2 DEF Shapes
<1>4. /\ control' \in [Controls -> Values] /\ demote' \in BOOLEAN
      /\ failures' \subseteq Controls /\ failures \subseteq failures'
      /\ control'[Last] = prior[Last] \/ Last \in failures'
      /\ \A d \in Controls : d # Last => control'[d] = control[d]
  <2>1. CASE Written(Last, prior[Last]) /\ UNCHANGED failures
    BY <1>1, <1>2, <1>3, <2>1, StoredFacts DEF Written, Shapes
  <2>2. CASE /\ WriteRaises(Last, prior[Last])
             /\ failures' = failures \cup {Last}
    BY <1>1, <1>2, <1>3, <2>2, RaisesFacts DEF Shapes
  <2>3. QED
    BY <2>1, <2>2 DEF RollBack
<1>5. pc' = IF n = 1 THEN "failed" ELSE "rollback"
  BY DEF RollBack, Undone
<1>6. n <= 3
  BY <1>1 DEF Shapes
<1>7. Shapes'
  BY <1>1, <1>2, <1>4, <1>5, <1>6 DEF Shapes, RollBack
<1>8. \A c \in Controls : Tried(c)' <=> Tried(c) /\ c # Last
  BY <1>2 DEF Tried
<1>9. \A c \in Controls :
        Tried(c)' \/ control'[c] = prior'[c] \/ c \in failures'
  BY <1>1, <1>4, <1>8 DEF RollBack
<1>10. QED
  BY <1>1, <1>2, <1>5, <1>7, <1>8, <1>9

(* Rollback undoes the last change that was tried.                         *)
LEMMA RollBackKeeps ==
  ASSUME EnableInv, RollBack
  PROVE  EnableInv'
<1> DEFINE n == Len(attempted)
<1>1. n \in Nat
  BY LenProperties DEF EnableInv, Shapes
<1>2. /\ Shapes' /\ n > 0 /\ Len(attempted') = n - 1
      /\ \A c \in Controls :
           Tried(c)' \/ control'[c] = prior'[c] \/ c \in failures'
      /\ pc' = IF n = 1 THEN "failed" ELSE "rollback"
  BY <1>1, RollBackFacts
<1>3. pc' = "rollback" => Len(attempted') > 0
  BY <1>1, <1>2
<1>4. QED
  BY <1>2, <1>3 DEF EnableInv

(* Every step of enable_tpp preserves the invariant.                       *)
LEMMA EnablingKeeps ==
  ASSUME EnableInv, Enabling
  PROVE  EnableInv'
  BY InspectKeeps, WriteControlKeeps, WriteFailsKeeps, VerifyKeeps,
     RollBackKeeps DEF Enabling

(* An enable that fails has put back, or named, every control: the last    *)
(* step of the rollback leaves no control among the attempted ones.        *)
LEMMA FailingRestores ==
  ASSUME EnableInv, Enabling, pc' # pc, pc' \in {"failed", "refused"}
  PROVE  \A c \in Controls : control'[c] = prior'[c] \/ c \in failures'
<1>1. CASE Inspect
  BY <1>1 DEF Inspect
<1>2. CASE RollBack
  <2> DEFINE n == Len(attempted)
  <2>1. n \in Nat
    BY LenProperties DEF EnableInv, Shapes
  <2>2. /\ Len(attempted') = n - 1
        /\ pc' = IF n = 1 THEN "failed" ELSE "rollback"
        /\ \A c \in Controls :
             Tried(c)' \/ control'[c] = prior'[c] \/ c \in failures'
    BY <1>2, <2>1, RollBackFacts
  <2>3. Len(attempted') = 0
    BY <2>1, <2>2
  <2>4. \A c \in Controls : ~Tried(c)'
    BY <2>3 DEF Tried, Place
  <2>5. QED
    BY <2>2, <2>4
<1>3. CASE WriteControl \/ WriteFails \/ Verify
  BY <1>3 DEF WriteControl, WriteFails, Verify
<1>4. QED
  BY <1>1, <1>2, <1>3 DEF Enabling

(* Only Verify enables, with all three controls tried.                     *)
LEMMA EnablingActivates ==
  ASSUME EnableInv, Enabling, pc' # pc, pc' = "enabled"
  PROVE  Active'
<1>1. Verify
  BY DEF Enabling, Inspect, WriteControl, WriteFails, RollBack, Undone
<1>2. /\ demote /\ UNCHANGED <<control, demote>>
      /\ Len(attempted) = 3
      /\ \A c \in Controls : IF Tried(c) THEN control[c] = "on"
                              ELSE control[c] = prior[c]
  BY <1>1 DEF Verify, EnableInv
<1>3. \A c \in Controls : Tried(c)
  BY <1>2 DEF Tried, Place
<1>4. QED
  BY <1>2, <1>3 DEF Active

-----------------------------------------------------------------------------
(* The script.                                                             *)

(* Between a successful enable and the EXIT trap.                          *)
Commands == {"launch", "note runner", "sample", "note sampler", "wait", "drain"}

Writing == {"still", "demotion", "scale", "balancing"}

RunnerInv ==
  /\ runner \in {"none", "running", "ended"} /\ runnerPid \in BOOLEAN
  /\ script \in {"check", "enable", "launch"} => runner = "none" /\ ~runnerPid
  /\ script \in Commands => Active
  /\ script \in Writing /\ runnerPid => runner # "running"
  /\ RunnerKeepsTiering

SamplerInv ==
  /\ sampler \in {"none", "running", "ended"} /\ samplerPid \in BOOLEAN
  /\ script \in {"check", "enable"} => ~samplerPid
  /\ script \in {"stop runner"} \cup Writing /\ samplerPid => sampler = "ended"

RestoreInv ==
  /\ saved \in [Controls -> Values]
  /\ script \in {"scale", "balancing"} => control["demotion"] = saved["demotion"]
  /\ script = "balancing" => control["watermark"] = saved["watermark"]
  /\ SessionRestores

SessionInv ==
  /\ EnableInv
  /\ script \in {"check", "enable", "exited"} \cup Commands \cup Restoring
  /\ cut \in BOOLEAN
  /\ script = "check" => pc = "inspect"
  /\ script = "enable" /\ pc = "enabled" => Active
  /\ script \in Commands \cup Restoring => EnableEnded
  /\ RunnerInv
  /\ SamplerInv
  /\ RestoreInv

(* The invariant holds when a session begins.                              *)
LEMMA SessionInitInv ==
  ASSUME SessionInit
  PROVE  SessionInv
<1>1. EnableInv
  <2>1. attempted \in Seq(Controls) /\ Len(attempted) = 0
    BY EmptySeq DEF SessionInit, Init
  <2>2. QED
    BY <2>1 DEF SessionInit, Init, EnableInv, Shapes, Values, Controls
<1>2. saved \in [Controls -> Values]
  BY DEF SessionInit, Init, Values
<1>3. QED
  BY <1>1, <1>2 DEF SessionInit, Init, SessionInv, RunnerInv, SamplerInv,
     RestoreInv, RunnerKeepsTiering, SessionRestores, SamplerUnknown, Commands, Writing,
     Restoring

(* Steps that leave enable_kernel_tpp.py's variables alone.                *)
LEMMA EnableInvStutters ==
  ASSUME EnableInv, UNCHANGED vars
  PROVE  EnableInv' /\ (Active' <=> Active) /\ (EnableEnded' <=> EnableEnded)
  BY DEF EnableInv, Shapes, Tried, Active, EnableEnded, vars

(* The steps of the script and of its jobs that touch no control.          *)
LEMMA QuietStepKeeps ==
  ASSUME SessionInv, UNCHANGED vars,
         \/ Check \/ EnableReturns
         \/ LaunchRunner \/ NoteRunner \/ LaunchSampler \/ NoteSampler
         \/ WaitRunner \/ WaitSampler \/ Trap \/ TrapAgain
         \/ StopSampler \/ StopRunner
         \/ Signal \/ RunnerEnds \/ SamplerEnds
  PROVE  SessionInv'
<1> EnableInv' /\ (Active' <=> Active) /\ (EnableEnded' <=> EnableEnded)
  BY EnableInvStutters DEF SessionInv
<1> UNCHANGED <<control, pc, demote>> /\ control \in [Controls -> Values]
  BY DEF vars, SessionInv, EnableInv, Shapes
<1> USE DEF SessionInv, RunnerInv, SamplerInv, RestoreInv, RunnerKeepsTiering,
            SessionRestores, SamplerUnknown, Commands, Writing, Restoring, Active
<1>1. CASE Check
  BY <1>1 DEF Check, jobVars, signalVars
<1>2. CASE EnableReturns
  BY <1>2 DEF EnableReturns, Goes, EnableEnded, jobVars, signalVars
<1>3. CASE LaunchRunner
  BY <1>3 DEF LaunchRunner, Goes, jobVars, signalVars
<1>4. CASE NoteRunner
  BY <1>4 DEF NoteRunner, Goes, jobVars, signalVars
<1>5. CASE LaunchSampler
  BY <1>5 DEF LaunchSampler, Goes, jobVars, signalVars
<1>6. CASE NoteSampler
  BY <1>6 DEF NoteSampler, Goes, jobVars, signalVars
<1>7. CASE WaitRunner
  BY <1>7 DEF WaitRunner, Goes, jobVars, signalVars
<1>8. CASE WaitSampler
  BY <1>8 DEF WaitSampler, Goes, jobVars, signalVars
<1>9. CASE Trap
  BY <1>9 DEF Trap, jobVars, signalVars
<1>10. CASE TrapAgain
  BY <1>10 DEF TrapAgain, jobVars, signalVars
<1>11. CASE StopSampler
  BY <1>11 DEF StopSampler, Goes, jobVars, signalVars
<1>12. CASE StopRunner
  BY <1>12 DEF StopRunner, Goes, jobVars, signalVars
<1>13. CASE Signal
  <2>1. UNCHANGED <<script, saved, runner, runnerPid, sampler, samplerPid, cut>>
    BY <1>13 DEF Signal, jobVars
  <2>2. RunnerInv'
    BY <2>1
  <2>3. SamplerInv' /\ RestoreInv'
    BY <2>1
  <2>4. QED
    BY <2>1, <2>2, <2>3
<1>14. CASE RunnerEnds
  BY <1>14 DEF RunnerEnds, jobVars, signalVars
<1>15. CASE SamplerEnds
  <2>1. /\ sampler = "running" /\ sampler' = "ended"
        /\ UNCHANGED <<script, saved, runner, runnerPid, samplerPid, signals, cut>>
    BY <1>15 DEF SamplerEnds, signalVars
  <2>2. RunnerInv'
    BY <2>1
  <2>3. SamplerInv' /\ RestoreInv'
    BY <2>1
  <2>4. QED
    BY <2>1, <2>2, <2>3
<1>16. QED
  BY <1>1, <1>2, <1>3, <1>4, <1>5, <1>6, <1>7, <1>8, <1>9, <1>10, <1>11, <1>12, <1>13, <1>14, <1>15

(* Enable and CtrlC: the script stays where it is, with no job running.    *)
LEMMA EnableStepKeeps ==
  ASSUME SessionInv, Enable \/ CtrlC
  PROVE  SessionInv'
<1>1. script = "enable" /\ runner = "none" /\ ~runnerPid /\ ~samplerPid
  BY DEF SessionInv, RunnerInv, SamplerInv, Enable, CtrlC
<1>2. /\ UNCHANGED <<script, saved, runner, runnerPid, sampler, samplerPid, cut>>
  BY DEF Enable, CtrlC, sessionVars, jobVars
<1>3. EnableInv' /\ (pc' = "enabled" => Active')
  <2>1. CASE Enable
    <3>1. EnableInv /\ Enabling
      BY <2>1 DEF SessionInv, Enable, Enabling
    <3>2. EnableInv'
      BY <3>1, EnablingKeeps
    <3>3. pc # "enabled"
      BY <3>1 DEF Enabling, Inspect, WriteControl, WriteFails, Verify, RollBack
    <3>4. QED
      BY <3>1, <3>2, <3>3, EnablingActivates
  <2>2. CASE CtrlC
    <3>1. /\ UNCHANGED <<capable, computes, control, prior, demote, attempted,
                        failures>>
          /\ pc' = "interrupted"
      BY <2>2 DEF CtrlC, Interrupt
    <3>2. QED
      BY <3>1 DEF SessionInv, EnableInv, Shapes
  <2>3. QED
    BY <2>1, <2>2
<1>4. QED
  BY <1>1, <1>2, <1>3
     DEF SessionInv, RunnerInv, SamplerInv, RestoreInv, RunnerKeepsTiering,
         SessionRestores, SamplerUnknown, Commands, Writing, Restoring

(* A write of the EXIT trap, which finds no experiment it knows of.        *)
LEMMA RestoreFacts ==
  ASSUME SessionInv, NEW from \in Writing, NEW to, NEW c \in Controls,
         NEW v \in Values, Restore(from, to, c, v)
  PROVE  /\ EnableInv' /\ EnableEnded' /\ script = from /\ script' = to
         /\ runnerPid => runner # "running"
         /\ samplerPid => sampler = "ended"
         /\ UNCHANGED <<saved, runner, runnerPid, sampler, samplerPid, cut>>
         /\ control' \in [Controls -> Values]
         /\ control'[c] = v
         /\ \A d \in Controls : d # c => control'[d] = control[d]
<1>1. /\ Shapes /\ EnableEnded /\ script = from /\ script' = to
      /\ runnerPid => runner # "running"
      /\ samplerPid => sampler = "ended"
  BY DEF Restore, Goes, SessionInv, EnableInv, RunnerInv, SamplerInv, Writing,
         Restoring
<1>2. /\ UNCHANGED <<capable, computes, prior, pc, attempted, failures>>
      /\ UNCHANGED <<saved, runner, runnerPid, sampler, samplerPid, cut>>
  BY DEF Restore, jobVars
<1>3. /\ control' \in [Controls -> Values] /\ demote' \in BOOLEAN
      /\ control'[c] = v
      /\ \A d \in Controls : d # c => control'[d] = control[d]
  BY <1>1, StoredFacts DEF Restore
<1>4. EnableEnded'
  BY <1>1, <1>2 DEF EnableEnded
<1>5. EnableInv'
  BY <1>1, <1>2, <1>3 DEF EnableInv, Shapes, EnableEnded
<1>6. QED
  BY <1>1, <1>2, <1>3, <1>4, <1>5

(* A step of the script's restore writes one of the saved values back.     *)
LEMMA RestoreStepKeeps ==
  ASSUME SessionInv,
         \/ RestoreStill \/ RestoreDemotion \/ RestoreScale
         \/ RestoreBalancing
  PROVE  SessionInv'
<1>1. /\ "off" \in Values /\ \A c \in Controls : saved[c] \in Values
      /\ Controls = {"demotion", "balancing", "watermark"}
      /\ Writing = {"still", "demotion", "scale", "balancing"}
      /\ control \in [Controls -> Values] /\ saved \in [Controls -> Values]
  BY DEF SessionInv, EnableInv, Shapes, RestoreInv, Values, Controls, Writing
<1>2. CASE RestoreStill
  <2>1. Restore("still", "demotion", "balancing", "off")
    BY <1>2 DEF RestoreStill
  <2>2. /\ EnableInv' /\ EnableEnded' /\ script = "still" /\ script' = "demotion"
        /\ runnerPid => runner # "running"
        /\ samplerPid => sampler = "ended"
        /\ UNCHANGED <<saved, runner, runnerPid, sampler, samplerPid, cut>>
        /\ control' \in [Controls -> Values]
        /\ control'["balancing"] = "off"
        /\ \A d \in Controls : d # "balancing" => control'[d] = control[d]
    BY <1>1, <2>1, RestoreFacts
  <2>3. RestoreInv'
    BY <1>1, <2>2 DEF SessionInv, RestoreInv, SessionRestores
  <2>4. RunnerInv' /\ SamplerInv'
    BY <2>2 DEF SessionInv, RunnerInv, SamplerInv, RunnerKeepsTiering, Commands,
       Writing
  <2>5. QED
    BY <2>2, <2>3, <2>4 DEF SessionInv, Restoring, Commands
<1>3. CASE RestoreDemotion
  <2>1. Restore("demotion", "scale", "demotion", saved["demotion"])
    BY <1>3 DEF RestoreDemotion
  <2>2. /\ EnableInv' /\ EnableEnded' /\ script = "demotion" /\ script' = "scale"
        /\ runnerPid => runner # "running"
        /\ samplerPid => sampler = "ended"
        /\ UNCHANGED <<saved, runner, runnerPid, sampler, samplerPid, cut>>
        /\ control' \in [Controls -> Values]
        /\ control'["demotion"] = saved["demotion"]
        /\ \A d \in Controls : d # "demotion" => control'[d] = control[d]
    BY <1>1, <2>1, RestoreFacts
  <2>3. RestoreInv'
    BY <1>1, <2>2 DEF SessionInv, RestoreInv, SessionRestores
  <2>4. RunnerInv' /\ SamplerInv'
    BY <2>2 DEF SessionInv, RunnerInv, SamplerInv, RunnerKeepsTiering, Commands,
       Writing
  <2>5. QED
    BY <2>2, <2>3, <2>4 DEF SessionInv, Restoring, Commands
<1>4. CASE RestoreScale
  <2>1. Restore("scale", "balancing", "watermark", saved["watermark"])
    BY <1>4 DEF RestoreScale
  <2>2. /\ EnableInv' /\ EnableEnded' /\ script = "scale" /\ script' = "balancing"
        /\ runnerPid => runner # "running"
        /\ samplerPid => sampler = "ended"
        /\ UNCHANGED <<saved, runner, runnerPid, sampler, samplerPid, cut>>
        /\ control' \in [Controls -> Values]
        /\ control'["watermark"] = saved["watermark"]
        /\ \A d \in Controls : d # "watermark" => control'[d] = control[d]
    BY <1>1, <2>1, RestoreFacts
  <2>3. RestoreInv'
    BY <1>1, <2>2 DEF SessionInv, RestoreInv, SessionRestores
  <2>4. RunnerInv' /\ SamplerInv'
    BY <2>2 DEF SessionInv, RunnerInv, SamplerInv, RunnerKeepsTiering, Commands,
       Writing
  <2>5. QED
    BY <2>2, <2>3, <2>4 DEF SessionInv, Restoring, Commands
<1>5. CASE RestoreBalancing
  <2>1. Restore("balancing", "exited", "balancing", saved["balancing"])
    BY <1>5 DEF RestoreBalancing
  <2>2. /\ EnableInv' /\ EnableEnded' /\ script = "balancing" /\ script' = "exited"
        /\ runnerPid => runner # "running"
        /\ samplerPid => sampler = "ended"
        /\ UNCHANGED <<saved, runner, runnerPid, sampler, samplerPid, cut>>
        /\ control' \in [Controls -> Values]
        /\ control'["balancing"] = saved["balancing"]
        /\ \A d \in Controls : d # "balancing" => control'[d] = control[d]
    BY <1>1, <2>1, RestoreFacts
  <2>3. control["demotion"] = saved["demotion"]
        /\ control["watermark"] = saved["watermark"]
    BY <2>2 DEF SessionInv, RestoreInv
  <2>4. control' = saved
    BY <1>1, <2>2, <2>3
  <2>5. RestoreInv'
    BY <1>1, <2>2, <2>4 DEF RestoreInv, SessionRestores, SamplerUnknown
  <2>6. RunnerInv' /\ SamplerInv'
    BY <2>2 DEF SessionInv, RunnerInv, SamplerInv, RunnerKeepsTiering, Commands,
       Writing
  <2>7. QED
    BY <2>2, <2>5, <2>6 DEF SessionInv, Restoring, Commands
<1>6. QED
  BY <1>2, <1>3, <1>4, <1>5

(* A restore that is cut off ends the script at once.                      *)
LEMMA RestoreFailsKeeps ==
  ASSUME SessionInv, RestoreFails
  PROVE  SessionInv'
<1>1. /\ UNCHANGED <<capable, computes, control, prior, demote, pc, attempted,
                    failures, saved, runner, runnerPid, sampler, samplerPid>>
      /\ script \in Writing /\ script' = "exited" /\ cut' = TRUE
  BY DEF RestoreFails, jobVars, Restoring, Writing
<1>2. EnableInv'
  BY <1>1 DEF SessionInv, EnableInv, Shapes, Tried
<1>3. RunnerInv' /\ SamplerInv' /\ RestoreInv'
  BY <1>1 DEF SessionInv, RunnerInv, SamplerInv, RestoreInv, RunnerKeepsTiering,
     SessionRestores, SamplerUnknown, Commands, Writing
<1>4. QED
  BY <1>1, <1>2, <1>3 DEF SessionInv, Commands, Restoring

(* Every step of the session preserves the invariant.                      *)
LEMMA SessionStepKeeps ==
  ASSUME SessionInv, [SessionNext]_allVars
  PROVE  SessionInv'
<1>1. CASE UNCHANGED allVars
  <2>1. UNCHANGED vars /\ UNCHANGED sessionVars
    BY <1>1 DEF allVars
  <2>2. UNCHANGED <<script, saved, runner, runnerPid, sampler, samplerPid, cut>>
    BY <2>1 DEF sessionVars, jobVars
  <2>3. /\ EnableInv' /\ (Active' <=> Active) /\ (EnableEnded' <=> EnableEnded)
        /\ UNCHANGED <<control, pc, demote>>
    BY <2>1, EnableInvStutters DEF SessionInv, vars
  <2>4. RunnerInv'
    BY <2>2, <2>3 DEF SessionInv, RunnerInv, RunnerKeepsTiering
  <2>5. SamplerInv' /\ RestoreInv'
    BY <2>2, <2>3 DEF SessionInv, SamplerInv, RestoreInv, SessionRestores, SamplerUnknown
  <2>6. QED
    BY <2>2, <2>3, <2>4, <2>5 DEF SessionInv
<1>2. CASE \/ Check \/ EnableReturns
           \/ LaunchRunner \/ NoteRunner \/ LaunchSampler \/ NoteSampler
           \/ WaitRunner \/ WaitSampler \/ Trap \/ TrapAgain
           \/ StopSampler \/ StopRunner
           \/ Signal \/ RunnerEnds \/ SamplerEnds
  <2>1. UNCHANGED vars
    BY <1>2 DEF Check, EnableReturns, LaunchRunner, NoteRunner, LaunchSampler,
       NoteSampler, WaitRunner, WaitSampler, Trap, TrapAgain, StopSampler,
       StopRunner, Signal, RunnerEnds, SamplerEnds
  <2>2. QED
    BY <1>2, <2>1, QuietStepKeeps
<1>3. CASE Enable \/ CtrlC
  BY <1>3, EnableStepKeeps
<1>4. CASE RestoreStill \/ RestoreDemotion \/ RestoreScale \/ RestoreBalancing
  BY <1>4, RestoreStepKeeps
<1>5. CASE RestoreFails
  BY <1>5, RestoreFailsKeeps
<1>6. QED
  BY <1>1, <1>2, <1>3, <1>4, <1>5 DEF SessionNext, ScriptStep

-----------------------------------------------------------------------------
(* The theorems.                                                           *)

(* The invariant of the kernel TPP session holds throughout.               *)
THEOREM SessionInvariant == SessionSpec => []SessionInv
<1>1. SessionInit => SessionInv
  BY SessionInitInv
<1>2. SessionInv /\ [SessionNext]_allVars => SessionInv'
  BY SessionStepKeeps
<1>3. QED
  BY <1>1, <1>2, PTL DEF SessionSpec

(* Every way out of run_kernel_tpp_100.sh whose EXIT trap was not cut      *)
(* short leaves the host's controls as they were.                          *)
THEOREM ControlsComeBack == SessionSpec => []SessionRestores
<1>1. SessionInv => SessionRestores
  BY DEF SessionInv, RestoreInv
<1>2. QED
  BY <1>1, SessionInvariant, PTL

(* No control is switched back under an experiment whose pid the script    *)
(* has noted.                                                              *)
THEOREM TieringStaysOn == SessionSpec => []RunnerKeepsTiering
<1>1. SessionInv => RunnerKeepsTiering
  BY DEF SessionInv, RunnerInv
<1>2. QED
  BY <1>1, SessionInvariant, PTL

(* A failed enable restores every control or names it, for any number of   *)
(* failing writes and wherever they strike.                                *)
THEOREM FailedEnableRestores == SessionSpec => FailureRestores
<1>1. SessionInv /\ [SessionNext]_allVars =>
        [(pc' # pc /\ pc' \in {"failed", "refused"}) =>
           \A c \in Controls : control'[c] = prior'[c] \/ c \in failures']_vars
  <2> SUFFICES ASSUME SessionInv, [SessionNext]_allVars,
                      pc' # pc, pc' \in {"failed", "refused"}
               PROVE  \A c \in Controls :
                        control'[c] = prior'[c] \/ c \in failures'
    OBVIOUS
  <2>1. Enabling
    BY DEF SessionNext, ScriptStep, allVars, vars, Enable, Enabling, CtrlC,
       Interrupt, Check, EnableReturns, LaunchRunner, NoteRunner, LaunchSampler,
       NoteSampler, WaitRunner, WaitSampler, Trap, TrapAgain, StopSampler,
       StopRunner, Signal, RunnerEnds, SamplerEnds, RestoreFails, Restore,
       RestoreStill, RestoreDemotion, RestoreScale, RestoreBalancing
  <2>2. QED
    BY <2>1, FailingRestores DEF SessionInv
<1>2. QED
  BY <1>1, SessionInvariant, PTL DEF SessionSpec, FailureRestores

(* An enable that reports success is one: its three controls are on and    *)
(* the kernel's demotion watermark is not zero.                            *)
THEOREM EnabledIsReal == SessionSpec => EnabledIsActive
<1>1. SessionInv /\ [SessionNext]_allVars =>
        [(pc' # pc /\ pc' = "enabled") =>
           demote' /\ \A c \in Controls : control'[c] = "on"]_vars
  <2> SUFFICES ASSUME SessionInv, [SessionNext]_allVars,
                      pc' # pc, pc' = "enabled"
               PROVE  demote' /\ \A c \in Controls : control'[c] = "on"
    OBVIOUS
  <2>1. Enabling
    BY DEF SessionNext, ScriptStep, allVars, vars, Enable, Enabling, CtrlC,
       Interrupt, Check, EnableReturns, LaunchRunner, NoteRunner, LaunchSampler,
       NoteSampler, WaitRunner, WaitSampler, Trap, TrapAgain, StopSampler,
       StopRunner, Signal, RunnerEnds, SamplerEnds, RestoreFails, Restore,
       RestoreStill, RestoreDemotion, RestoreScale, RestoreBalancing
  <2>2. QED
    BY <2>1, EnablingActivates DEF SessionInv, Active
<1>2. QED
  BY <1>1, SessionInvariant, PTL DEF SessionSpec, EnabledIsActive
=============================================================================
