----------------------------- MODULE SandboxTpp -----------------------------
(***************************************************************************)
(* sandbox_tpp.py: whole microVMs are moved between the NUMA nodes by the  *)
(* age of their last request.  A pass discovers VMs, reads their serial    *)
(* logs and the prompt log, promotes the recently active and demotes the   *)
(* idle while the fast node is short of memory.  VMs, requests and the     *)
(* clock go on during a pass, which migrations make long.                  *)
(***************************************************************************)
EXTENDS Integers, SequencesExt

CONSTANTS
  Sandboxes,     (* the microVMs of the experiment                         *)
  Size,          (* pages of one                                           *)
  FastSize,      (* pages of the fast node                                 *)
  SlowSize,      (* pages of the slow node                                 *)
  DemoteFree,    (* --demote-free-gib                                      *)
  PromoteFree,   (* --promote-free-gib                                     *)
  SlowReserve,   (* --slow-reserve-gib                                     *)
  IdleTime,      (* --idle-seconds                                         *)
  Cooldown,      (* --cooldown-seconds                                     *)
  Everything,    (* --offload-all-cold                                     *)
  MaxTime        (* bound of the clock                                     *)

Nobody == "nobody"

\* What main demands of its arguments, and that no microVM has the name that
\* stands for None.
ASSUME SandboxAssumption ==
  /\ IsFiniteSet(Sandboxes) /\ Nobody \notin Sandboxes
  /\ Size \in Nat \ {0} /\ FastSize \in Nat /\ SlowSize \in Nat /\ MaxTime \in Nat
  /\ IdleTime \in Nat \ {0} /\ Cooldown \in Nat
  /\ DemoteFree \in Nat /\ PromoteFree \in Nat /\ DemoteFree < PromoteFree
  /\ SlowReserve \in Nat /\ Everything \in BOOLEAN

VARIABLES
  clock,
  life,         (* "planned", "running", "gone"                            *)
  onFast,       (* each VM's resident pages on the fast node               *)
  onSlow,       (* and on the slow node                                    *)
  asked,        (* its last request in the serial log, 0 before the first  *)
  prompted,     (* its last event in the prompt log                        *)
  tracked,      (* tracked                                                 *)
  lastRequest,  (* Sandbox.last_request, 0 for None                        *)
  lastMove,     (* Sandbox.last_move                                       *)
  lastTarget,   (* Sandbox.last_target                                     *)
  pass,         (* where the loop of main is                               *)
  todo,         (* what is left of the loop over the eligible sandboxes    *)
  chosen        (* the sandbox move_sandbox has been called for            *)

tppHost == <<life, onFast, onSlow, asked, prompted>>
tppKnown == <<tracked, lastRequest>>
tppMoves == <<lastMove, lastTarget>>
tppVars == <<clock, tppHost, tppKnown, tppMoves, pass, todo, chosen>>

SandboxInit ==
  /\ clock = 1
  /\ life = [s \in Sandboxes |-> "planned"]
  /\ onFast = [s \in Sandboxes |-> 0]
  /\ onSlow = [s \in Sandboxes |-> 0]
  /\ asked = [s \in Sandboxes |-> 0]
  /\ prompted = [s \in Sandboxes |-> 0]
  /\ tracked = {}
  /\ lastRequest = [s \in Sandboxes |-> 0]
  /\ lastMove = [s \in Sandboxes |-> 0]
  /\ lastTarget = [s \in Sandboxes |-> "none"]
  /\ pass = "survey"
  /\ todo = <<>>
  /\ chosen = Nobody

SumOf(pages) == FoldFunctionOnSet(+, 0, pages, Sandboxes)

FastFree == FastSize - SumOf(onFast)

SlowFree == SlowSize - SumOf(onSlow)

(***************************************************************************)
(* The machine.                                                            *)
(***************************************************************************)

World == pass # "over" /\ UNCHANGED <<tppKnown, tppMoves, pass, todo, chosen>>

Tick ==
  /\ clock < MaxTime
  /\ clock' = clock + 1
  /\ World /\ UNCHANGED tppHost

\* A VM boots; its pages come from the fast node while that has some.
Boots(s) ==
  /\ life[s] = "planned"
  /\ LET fast == IF FastFree >= Size THEN Size ELSE FastFree
     IN /\ SlowFree >= Size - fast
        /\ onFast' = [onFast EXCEPT ![s] = fast]
        /\ onSlow' = [onSlow EXCEPT ![s] = Size - fast]
  /\ life' = [life EXCEPT ![s] = "running"]
  /\ World /\ UNCHANGED <<clock, asked, prompted>>

Asks(s) ==
  /\ life[s] = "running"
  /\ \/ asked' = [asked EXCEPT ![s] = clock] /\ prompted' = prompted
     \/ prompted' = [prompted EXCEPT ![s] = clock] /\ asked' = asked
  /\ World /\ UNCHANGED <<clock, life, onFast, onSlow>>

Exits(s) ==
  /\ life[s] = "running"
  /\ life' = [life EXCEPT ![s] = "gone"]
  /\ onFast' = [onFast EXCEPT ![s] = 0]
  /\ onSlow' = [onSlow EXCEPT ![s] = 0]
  /\ World /\ UNCHANGED <<clock, asked, prompted>>

(***************************************************************************)
(* The pass.                                                               *)
(***************************************************************************)

Later(a, b) == IF a > b THEN a ELSE b

\* Sandbox.alive: the process has the start time that sandbox.json names.
AliveNow == {s \in Sandboxes : life[s] = "running"}

\* Sandbox.activity: what the serial log holds by now.
Activity(s) == Later(lastRequest[s], asked[s])

Idle(request) == clock - request >= IdleTime

\* The sandboxes that are tracked and have been asked at least once, sorted by
\* their last request.
Sorted(before(_, _)) ==
  {order \in SetToSeqs({s \in tracked' : lastRequest'[s] > 0}) :
     \A i, j \in DOMAIN order : i < j => before(lastRequest'[order[i]], lastRequest'[order[j]])}

\* discover, the loop that drops the dead and tails the serial logs, and the
\* prompt log.  What was known of a VM goes with its Sandbox.
Survey ==
  /\ pass = "survey"
  /\ tracked' = AliveNow
  /\ lastRequest' = [s \in Sandboxes |->
                       IF s \in AliveNow THEN Later(Activity(s), prompted[s]) ELSE 0]
  /\ lastMove' = [s \in Sandboxes |-> IF s \in AliveNow THEN lastMove[s] ELSE 0]
  /\ lastTarget' = [s \in Sandboxes |-> IF s \in AliveNow THEN lastTarget[s] ELSE "none"]
  /\ todo' \in Sorted(LAMBDA a, b : a >= b)
  /\ pass' = "promote"
  /\ UNCHANGED <<clock, tppHost, chosen>>

Promotes(s) ==
  /\ ~Idle(lastRequest[s])
  /\ onSlow[s] > 0
  /\ FastFree >= onSlow[s] + PromoteFree

\* One step of the loop that promotes, newest request first.
PromoteNext ==
  /\ pass = "promote"
  /\ todo # <<>>
  /\ chosen = Nobody
  /\ IF Promotes(Head(todo))
     THEN chosen' = Head(todo) /\ todo' = todo
     ELSE chosen' = Nobody /\ todo' = Tail(todo)
  /\ UNCHANGED <<clock, tppHost, tppKnown, tppMoves, pass>>

\* Its end: the other loop sorts again, now by the oldest request.
PromoteEnds ==
  /\ pass = "promote"
  /\ todo = <<>>
  /\ UNCHANGED tppKnown
  /\ todo' \in Sorted(LAMBDA a, b : a <= b)
  /\ pass' = "demote"
  /\ UNCHANGED <<clock, tppHost, tppMoves, chosen>>

\* Mutant of Recheck: what was read at the start of the pass is used.
RecheckNothing(s) == UNCHANGED lastRequest

\* sandbox.activity() once more: a request may have come during the earlier
\* migrations.
Recheck(s) == lastRequest' = [lastRequest EXCEPT ![s] = Activity(s)]

\* One step of the loop that demotes.  It is left as soon as the fast node has
\* enough free memory.
DemoteNext ==
  /\ pass = "demote"
  /\ todo # <<>>
  /\ chosen = Nobody
  /\ LET s == Head(todo)
     IN /\ Recheck(s)
        /\ \/ /\ ~Idle(lastRequest'[s])
              /\ todo' = Tail(todo) /\ UNCHANGED <<pass, chosen>>
           \/ /\ Idle(lastRequest'[s])
              /\ ~Everything /\ FastFree >= DemoteFree
              /\ todo' = <<>> /\ pass' = "sleep" /\ UNCHANGED chosen
           \/ /\ Idle(lastRequest'[s])
              /\ Everything \/ FastFree < DemoteFree
              /\ UNCHANGED pass
              /\ IF onFast[s] > 0 /\ SlowFree >= onFast[s] + SlowReserve
                 THEN chosen' = s /\ todo' = todo
                 ELSE chosen' = Nobody /\ todo' = Tail(todo)
  /\ UNCHANGED <<clock, tppHost, tracked, tppMoves>>

Target == IF pass = "promote" THEN "fast" ELSE "slow"

Cooling(s) == lastTarget[s] = Target /\ clock - lastMove[s] < Cooldown

Moves(s, n) ==
  IF pass = "promote"
  THEN n <= onSlow[s] /\ n <= FastFree
       /\ onFast' = [onFast EXCEPT ![s] = @ + n] /\ onSlow' = [onSlow EXCEPT ![s] = @ - n]
  ELSE n <= onFast[s] /\ n <= SlowFree
       /\ onSlow' = [onSlow EXCEPT ![s] = @ + n] /\ onFast' = [onFast EXCEPT ![s] = @ - n]

\* move_sandbox: nothing when the VM is gone or was moved there a moment ago;
\* otherwise the kernel moves any number of its pages (none when the call
\* fails), and the sandbox remembers the attempt.
MoveSandbox ==
  /\ chosen # Nobody
  /\ \/ /\ life[chosen] # "running" \/ Cooling(chosen)
        /\ UNCHANGED <<onFast, onSlow, tppMoves>>
     \/ /\ life[chosen] = "running" /\ ~Cooling(chosen)
        /\ \E n \in 0 .. Size : Moves(chosen, n)
        /\ lastMove' = [lastMove EXCEPT ![chosen] = clock]
        /\ lastTarget' = [lastTarget EXCEPT ![chosen] = Target]
  /\ chosen' = Nobody
  /\ todo' = Tail(todo)
  /\ UNCHANGED <<clock, life, asked, prompted, tppKnown, pass>>

\* The pass is over: the next one follows after the interval, or the duration
\* has passed, or Ctrl-C ends the program.
PassEnds ==
  /\ pass = "sleep" \/ (pass = "demote" /\ todo = <<>>)
  /\ pass' \in {"survey", "over"}
  /\ todo' = <<>>
  /\ UNCHANGED <<clock, tppHost, tppKnown, tppMoves, chosen>>

SandboxNext ==
  \/ Tick
  \/ \E s \in Sandboxes : Boots(s) \/ Asks(s) \/ Exits(s)
  \/ Survey \/ PromoteNext \/ PromoteEnds \/ DemoteNext \/ MoveSandbox \/ PassEnds

(***************************************************************************)
(* Properties.                                                             *)
(***************************************************************************)

\* A sandbox is chosen for demotion only if it has been asked at some time,
\* and neither a request in its log nor an event that was in the prompt log
\* when the pass began is younger than the idle time, however long the
\* migrations before it took.
DemotesIdle ==
  [][\A s \in Sandboxes :
       chosen = Nobody /\ chosen' = s /\ pass = "demote" =>
         /\ clock - asked[s] >= IdleTime
         /\ clock - lastRequest[s] >= IdleTime
         /\ asked[s] > 0 \/ prompted[s] > 0]_tppVars

=============================================================================
