---------------------------- MODULE StageNetwork ----------------------------
(***************************************************************************)
(* The private network of a stage: class StageNetwork                      *)
(* (swebench_microvm_scale_experiment.py), as run_stage uses it, one stage *)
(* after the other in one process.  Every call of sudo may fail: setup     *)
(* lets that escape, and run_stage then calls close; close ignores it.     *)
(***************************************************************************)
EXTENDS Naturals, Sequences, FiniteSets, SequencesExt

CONSTANTS
  Sessions,    (* bound: VMs of a stage, 1 .. Sessions                     *)
  MaxStages,   (* bound: stages of the process                             *)
  MaxFaults    (* bound: calls of sudo that fail by themselves             *)

ASSUME NetworkAssumption ==
  Sessions \in Nat \ {0} /\ MaxStages \in Nat \ {0} /\ MaxFaults \in Nat

Bridge == <<"bridge", 0>>

Tap(session) == <<"tap", session>>

VARIABLES
  host,        (* bridges, taps and rules that exist on the host           *)
  forwarding,  (* net.ipv4.ip_forward                                      *)
  original,    (* what it was before the first stage                       *)
  before,      (* forwarding_before                                        *)
  rules,       (* self.rules                                               *)
  ready,       (* self.ready                                               *)
  pc,          (* "init", "setup", "up", "close" or "over"                 *)
  at,          (* the next call of setup or close                          *)
  raising,     (* setup raised                                             *)
  stage,       (* the stage the network is for                             *)
  kept,        (* a call of close failed                                   *)
  faults

vars == <<host, forwarding, original, before, rules, ready, pc, at, raising,
          stage, kept, faults>>

\* iptables appends a rule also when an equal one is there: the stage's number
\* tells the copies apart.
Rules == <<<<"nat", stage>>, <<"forward_out", stage>>, <<"forward_in", stage>>>>

\* The calls for each tap.
TapCalls == <<"tap", "master", "tap_up">>

\* The sudo calls of setup, in order.  Those that make nothing of their own
\* (addresses, link states) are named for what they configure.
SetupCalls ==
  <<Bridge, <<"address", 0>>, <<"up", 0>>>>
  \o [n \in 1 .. 3 * Sessions |-> <<TapCalls[1 + ((n - 1) % 3)], 1 + ((n - 1) \div 3)>>]
  \o <<<<"forwarding", 0>>>>
  \o Rules

Made == {Bridge} \cup {Tap(s) : s \in 1 .. Sessions} \cup ToSet(Rules)

\* The calls of close: the rules in reverse, the taps, the bridge, the sysctl.
CloseCalls ==
  Reverse(rules)
  \o [s \in 1 .. Sessions |-> Tap(s)]
  \o <<Bridge, <<"forwarding", 0>>>>

Init ==
  /\ host = {} /\ forwarding \in BOOLEAN /\ original = forwarding
  /\ before = forwarding /\ rules = <<>> /\ ready = FALSE
  /\ pc = "init" /\ at = 1 /\ raising = FALSE /\ stage = 1
  /\ kept = FALSE /\ faults = 0

Fault == faults < MaxFaults /\ faults' = faults + 1

\* __init__: only reads.
Construct ==
  /\ pc = "init"
  /\ before' = forwarding /\ rules' = <<>> /\ ready' = FALSE
  /\ pc' = "setup" /\ at' = 1
  /\ UNCHANGED <<host, forwarding, original, raising, stage, kept, faults>>

\* ready is set once the bridge is up.
ReadyAfter(n) == n >= 3

SetupCall ==
  /\ pc = "setup"
  /\ LET call == SetupCalls[at]
     IN /\ call \notin host
        /\ host' = IF call \in Made THEN host \cup {call} ELSE host
        /\ forwarding' = (forwarding \/ call = <<"forwarding", 0>>)
        /\ rules' = IF call \in ToSet(Rules) THEN Append(rules, call) ELSE rules
  /\ ready' = ReadyAfter(at)
  /\ IF at = Len(SetupCalls) THEN pc' = "up" /\ at' = 1
     ELSE at' = at + 1 /\ UNCHANGED pc
  /\ UNCHANGED <<original, before, raising, stage, kept, faults>>

\* A call raises, by itself or because what it makes exists already, and
\* run_stage closes the network.
SetupFails ==
  /\ pc = "setup"
  /\ \/ SetupCalls[at] \in host /\ UNCHANGED faults
     \/ SetupCalls[at] \notin host /\ Fault
  /\ pc' = IF ready THEN "close" ELSE "over"
  /\ at' = 1
  /\ raising' = TRUE
  /\ UNCHANGED <<host, forwarding, original, before, rules, ready, stage, kept>>

\* The stage is over.
Close ==
  /\ pc = "up"
  /\ pc' = "close"
  /\ UNCHANGED <<host, forwarding, original, before, rules, ready, at, raising,
                 stage, kept, faults>>

EndClose ==
  IF at < Len(CloseCalls)
  THEN at' = at + 1 /\ UNCHANGED <<pc, ready, stage>>
  ELSE /\ at' = 1 /\ ready' = FALSE
       /\ IF raising \/ stage = MaxStages THEN pc' = "over" /\ UNCHANGED stage
          ELSE pc' = "init" /\ stage' = stage + 1

\* Mutant of CloseCall: close switches forwarding off whatever it was.
CloseCallOff ==
  /\ pc = "close"
  /\ LET call == CloseCalls[at]
     IN /\ host' = host \ {call}
        /\ forwarding' = (forwarding /\ call # <<"forwarding", 0>>)
  /\ EndClose
  /\ UNCHANGED <<original, before, rules, raising, kept, faults>>

\* Deleting what does not exist fails, and that is ignored too.
CloseCall ==
  /\ pc = "close"
  /\ LET call == CloseCalls[at]
     IN /\ host' = host \ {call}
        /\ forwarding' = IF call = <<"forwarding", 0>> THEN before ELSE forwarding
  /\ EndClose
  /\ UNCHANGED <<original, before, rules, raising, kept, faults>>

CloseCallFails ==
  /\ pc = "close"
  /\ Fault
  /\ kept' = TRUE
  /\ EndClose
  /\ UNCHANGED <<host, forwarding, original, before, rules, raising>>

Next ==
  Construct \/ SetupCall \/ SetupFails \/ Close \/ CloseCall \/ CloseCallFails

Spec == Init /\ [][Next]_vars

-----------------------------------------------------------------------------
(* Properties.                                                             *)

\* While the stage's guests run, they have all of their network.
NetworkWhole == pc = "up" => Made \subseteq host /\ forwarding

\* However setup and the stage ended, the process leaves the host as it found
\* it: no rule, tap or bridge of its own, and forwarding as it was.  What close
\* could not delete stays, and so does a bridge that could not be brought up.
HostRestored ==
  (pc = "over" /\ ~kept) =>
    /\ host \subseteq {Bridge}
    /\ host # {} => raising
    /\ forwarding = original
=============================================================================
