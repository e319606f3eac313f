---------------------------- MODULE TraceReplay -----------------------------
(***************************************************************************)
(* What a replay promises, with no server, network or retry in sight: each *)
(* guest is assigned one trajectory and runs its turns one after the       *)
(* other, each exactly once; it may stop early, and it reports completion  *)
(* only after the last turn.                                               *)
(*                                                                         *)
(* This is the measurement the experiment rests on: the host counts a      *)
(* session as completed when its serial log says REPLAY_DONE.              *)
(***************************************************************************)
EXTENDS Naturals, Sequences

CONSTANTS
  Guests,     (* the virtual machines of a stage                           *)
  Workflows   (* instance id -> its trajectory                             *)

VARIABLES
  assigned,   (* the instance each guest replays                           *)
  executed,   (* the turns each guest has run, in order                    *)
  verdict     (* "running", "complete" or "stopped"                        *)

replayVars == <<assigned, executed, verdict>>

Trace(g) == Workflows[assigned[g]]

Init ==
  /\ assigned \in [Guests -> DOMAIN Workflows]
  /\ executed = [g \in Guests |-> <<>>]
  /\ verdict = [g \in Guests |-> "running"]

ExecuteTurn(g) ==
  /\ verdict[g] = "running"
  /\ Len(executed[g]) < Len(Trace(g))
  /\ executed' = [executed EXCEPT ![g] = Append(@, Trace(g)[Len(@) + 1])]
  /\ UNCHANGED <<assigned, verdict>>

Complete(g) ==
  /\ verdict[g] = "running"
  /\ executed[g] = Trace(g)
  /\ verdict' = [verdict EXCEPT ![g] = "complete"]
  /\ UNCHANGED <<assigned, executed>>

Stop(g) ==
  /\ verdict[g] = "running"
  /\ verdict' = [verdict EXCEPT ![g] = "stopped"]
  /\ UNCHANGED <<assigned, executed>>

Next == \E g \in Guests : ExecuteTurn(g) \/ Complete(g) \/ Stop(g)

Spec == Init /\ [][Next]_replayVars
=============================================================================
