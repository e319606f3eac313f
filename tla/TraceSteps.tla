----------------------------- MODULE TraceSteps -----------------------------
(***************************************************************************)
(* The steps of a Docker replay.  replay_openhands_trace.py makes them of  *)
(* the terminal actions and the model calls of a captured trace;           *)
(* run_node0_trace_replay_capacity.py counts the same files on its own,    *)
(* and waits until every replay has written as many steps.                 *)
(***************************************************************************)
EXTENDS Naturals, Sequences, SequencesExt, FiniteSets

CONSTANTS
  UserTurns,   (* turns of the trace; turn n lasts from 3n - 2 to 3n - 1   *)
  MaxEvents,   (* bound: events of the agent                               *)
  MaxSpans     (* bound: calls of the model                                *)

VARIABLE input   (* a trace                                                *)

Times == 0 .. 3 * UserTurns

\* A terminal action without a command is the one that reads more output.
Events == [turn : 1 .. UserTurns, at : Times,
           action : {"command", "no command", "other"}]

\* The events are in agent-events.jsonl, or, in older traces, only in the
\* turns of turns.jsonl.
TraceInit ==
  input \in [events : UNION {[1 .. n -> Events] : n \in 0 .. MaxEvents}, older : BOOLEAN,
             spans : UNION {[1 .. n -> Times] : n \in 0 .. MaxSpans}]

(***************************************************************************)
(* replay_openhands_trace.py.                                              *)
(***************************************************************************)

\* terminal_command
TerminalCommand(event) == event.action = "command"

TerminalSteps ==
  {[kind |-> "terminal", n |-> n, turn |-> input.events[n].turn, at |-> input.events[n].at] :
     n \in {e \in DOMAIN input.events : TerminalCommand(input.events[e])}}

Matched(at) == {t \in 1 .. UserTurns : 3 * t - 2 <= at /\ at <= 3 * t - 1}

WaitSteps ==
  UNION {{[kind |-> "llm_wait", n |-> n, turn |-> t, at |-> input.spans[n]] :
            t \in Matched(input.spans[n])} : n \in DOMAIN input.spans}

\* steps.sort: by turn, by time, a wait before a command; otherwise stable.
Before(s, r) ==
  LET rank(step) == <<step.turn, step.at, IF step.kind = "llm_wait" THEN 0 ELSE 1, step.n>>
  IN \E k \in 1 .. 4 : /\ \A j \in 1 .. k - 1 : rank(s)[j] = rank(r)[j]
                      /\ rank(s)[k] < rank(r)[k]

Steps ==
  LET all == TerminalSteps \cup WaitSteps
  IN CHOOSE o \in [1 .. Cardinality(all) -> all] :
       \A i, j \in DOMAIN o : i < j => Before(o[i], o[j])

\* per-turn.json is made of the steps written.
PerTurn(steps) == [t \in {s.turn : s \in Range(steps)} |->
                     Cardinality({n \in DOMAIN steps : steps[n].turn = t})]

(***************************************************************************)
(* run_node0_trace_replay_capacity.py.                                     *)
(***************************************************************************)

\* expected_step_count reads agent-events.jsonl and llm.jsonl alone.
ExpectedStepCount ==
  LET terminal == {n \in DOMAIN input.events : input.events[n].action # "other"}
  IN (IF input.older THEN 0 ELSE Cardinality(terminal)) + Len(input.spans)

\* Mutant of Complete: one step more is waited for.
CompleteLate(written) == written > ExpectedStepCount

\* wait_for_replay_steps, for one replay that has written so many steps.
Complete(written) == written >= ExpectedStepCount

(***************************************************************************)
(* Properties.                                                             *)
(***************************************************************************)

\* Every command and every call of the model inside a turn is replayed once,
\* in the order of the recorded times within its turn.  node0 finds a replay
\* complete exactly when it has written its last step, if the trace has its
\* events in agent-events.jsonl, every terminal action has a command and every
\* call falls into a turn.  A trace that fails one of the last two is waited
\* for until the deadline; an older one may be sampled before its end.
StepsAwaited ==
  LET steps == Steps
      regular == /\ ~input.older
                 /\ \A n \in DOMAIN input.events : input.events[n].action # "no command"
                 /\ \A n \in DOMAIN input.spans : Matched(input.spans[n]) # {}
  IN /\ \A i, j \in DOMAIN steps : i < j /\ steps[i].turn = steps[j].turn => steps[i].at <= steps[j].at
     /\ \A n \in DOMAIN input.spans :
          Cardinality({i \in DOMAIN steps : steps[i].kind = "llm_wait" /\ steps[i].n = n})
            = Cardinality(Matched(input.spans[n]))
     /\ FoldFunction(+, 0, PerTurn(steps)) = Len(steps)
     /\ regular => \A written \in 0 .. Len(steps) : Complete(written) <=> written = Len(steps)
     /\ ~regular /\ ~input.older => \A written \in 0 .. Len(steps) : ~Complete(written)

=============================================================================
