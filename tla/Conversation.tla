---------------------------- MODULE Conversation ----------------------------
(***************************************************************************)
(* The capture of a session: run_openhands_multiturn.py posts one human    *)
(* turn after the other to an agent server and waits for its events; a     *)
(* turn that fails is posted again in a new conversation.  The agent       *)
(* reaches its model through trace_proxy.py, which writes one span for     *)
(* each call.  The agent server itself is not part of the repository: it   *)
(* is modelled as far as the script uses it.                               *)
(***************************************************************************)
EXTENDS Naturals, FiniteSets, Sequences, SequencesExt

CONSTANTS
  Turns,          (* --turn-count                                          *)
  MaxRecoveries,  (* --max-recoveries                                      *)
  Page,           (* the limit of events/search (100)                      *)
  Iterations      (* max_iterations (6), for every message                 *)

VARIABLES
  capture,   (* where main is                                              *)
  index,     (* the turn                                                   *)
  attempt,   (* the attempt at it                                          *)
  chat,      (* the conversation, counted from 1                           *)
  before,    (* how many events of the conversation are in before          *)
  status,    (* turn_status of the last attempt                            *)
  recorded,  (* turns.jsonl: for each turn how it ended                    *)
  stream,    (* agent-events.jsonl                                         *)
  log,       (* the events of the current conversation                     *)
  worker,    (* what the agent of the current conversation is doing        *)
  calls,     (* calls of the model for the last message                    *)
  spans,     (* lines of llm.jsonl whose status is 200                     *)
  orphans    (* calls that agents of given up conversations may still make *)

sessionVars == <<capture, index, attempt, chat, before, status, recorded, stream>>
agentVars == <<log, worker, calls, spans, orphans>>
captureVars == <<sessionVars, agentVars>>

CaptureInit ==
  /\ capture = "before"
  /\ index = 1
  /\ attempt = 1
  /\ chat = 1
  /\ before = 0
  /\ status = "none"
  /\ recorded = <<>>
  /\ stream = <<>>
  /\ log = <<>>
  /\ worker = "idle"
  /\ calls = 0
  /\ spans = 0
  /\ orphans = 0

(***************************************************************************)
(* The agent server and the proxy.                                         *)
(***************************************************************************)

Event(kind, turn) == [kind |-> kind, turn |-> turn, chat |-> chat, n |-> Len(log) + 1]

\* An event of the agent belongs to the message it works on.
Emit(kind) ==
  LET message == SelectLastInSeq(log, LAMBDA e : e.kind = "message")
  IN log' = Append(log, Event(kind, log[message].turn))

\* The agent calls its model: _forward reads the request and sends it on.
CallModel ==
  /\ worker = "run"
  /\ calls < Iterations
  /\ calls' = calls + 1
  /\ worker' = "call"
  /\ UNCHANGED <<sessionVars, log, spans, orphans>>

\* urlopen returns, and the span is written before the reply is sent ...
Forward ==
  /\ worker = "call"
  /\ spans' = spans + 1
  /\ worker' = "reply"
  /\ UNCHANGED <<sessionVars, log, calls, orphans>>

\* ... or it raises: the span gets the upstream's status, or 502 when there is
\* none; then there is no reply either.  The agent may call again.
ForwardFails ==
  /\ worker = "call"
  /\ worker' = "run"
  /\ UNCHANGED <<sessionVars, log, calls, spans, orphans>>

\* The reply is a tool action, or the message that ends the run; after that
\* message the server announces the new execution status.
Act ==
  /\ worker = "reply"
  /\ \/ Emit("action") /\ worker' = "run"
     \/ Emit("answer") /\ worker' = "announce"
  /\ UNCHANGED <<sessionVars, calls, spans, orphans>>

Announce ==
  /\ worker = "announce"
  /\ Emit("update")
  /\ worker' = "idle"
  /\ UNCHANGED <<sessionVars, calls, spans, orphans>>

\* The run fails, or its iterations are used up: execution_status is "error".
Fails ==
  /\ worker = "run"
  /\ Emit("error")
  /\ worker' = "idle"
  /\ UNCHANGED <<sessionVars, calls, spans, orphans>>

\* The agent of a conversation that was given up goes on: its calls pass through
\* the same proxy, which writes a span for each that succeeds, and its tools
\* write to the same workspace.  Its events are those of its own conversation.
OrphanCalls ==
  /\ orphans > 0
  /\ orphans' = orphans - 1
  /\ spans' \in {spans, spans + 1}
  /\ UNCHANGED <<sessionVars, log, worker, calls>>

Server == CallModel \/ Forward \/ ForwardFails \/ Act \/ Announce \/ Fails \/ OrphanCalls

(***************************************************************************)
(* The script.                                                             *)
(***************************************************************************)

\* events(): the oldest Page events of the conversation.
Visible == IF Len(log) < Page THEN Len(log) ELSE Page

\* Mutant of Current: events of earlier turns count.
CurrentAndEarlier == SubSeq(log, 1, Visible)

\* current of wait_for_turn
Current == SubSeq(log, before + 1, Visible)

Shows(kind) == \E n \in DOMAIN Current : Current[n].kind = kind

\* before is read anew for each attempt.
ReadBefore ==
  /\ capture = "before"
  /\ before' = Visible
  /\ capture' = "post"
  /\ UNCHANGED <<index, attempt, chat, status, recorded, stream, agentVars>>

\* The message becomes an event of the conversation and the agent runs.
Post ==
  /\ capture = "post"
  /\ worker = "idle"
  /\ log' = Append(log, Event("message", index))
  /\ worker' = "run"
  /\ calls' = 0
  /\ capture' = "wait"
  /\ UNCHANGED <<index, attempt, chat, before, status, recorded, stream, spans, orphans>>

\* wait_for_turn returns: an error; an answer and nothing new for three
\* seconds; nothing new for stall_timeout; or the timeout.  What it saw is
\* written to agent-events.jsonl.
WaitEnds ==
  /\ capture = "wait"
  /\ status' \in IF Shows("error") THEN {"error"}
                 ELSE {"stalled", "timeout"} \cup IF Shows("answer") THEN {"finished"} ELSE {}
  /\ stream' = stream \o Current
  /\ capture' = "decide"
  /\ UNCHANGED <<index, attempt, chat, before, recorded, agentVars>>

\* The turn is recorded: it finished, or its last attempt failed and the
\* session ends with it.
RecordTurn ==
  /\ capture = "decide"
  /\ status = "finished" \/ attempt > MaxRecoveries
  /\ recorded' = Append(recorded, status)
  /\ index' = index + 1
  /\ attempt' = 1
  /\ capture' = IF status = "finished" /\ index < Turns THEN "before" ELSE "over"
  /\ UNCHANGED <<chat, before, status, stream, agentVars>>

\* The calls that the current agent may still make for its message.
Remaining ==
  CASE worker \in {"idle", "announce"} -> 0
    [] worker = "call" -> Iterations - calls + 1
    [] OTHER -> Iterations - calls

\* A new conversation in the same workspace.  The agent of the old one is not
\* told to stop.
Recover ==
  /\ capture = "decide"
  /\ status # "finished"
  /\ attempt <= MaxRecoveries
  /\ attempt' = attempt + 1
  /\ chat' = chat + 1
  /\ log' = <<>>
  /\ worker' = "idle"
  /\ calls' = 0
  /\ orphans' = orphans + Remaining
  /\ capture' = "before"
  /\ UNCHANGED <<index, before, status, recorded, stream, spans>>

\* A request to the agent server fails: the exception ends the script, and
\* conversation.json is not written.
RequestFails ==
  /\ capture \in {"before", "post", "wait"}
  /\ capture' = "died"
  /\ UNCHANGED <<index, attempt, chat, before, status, recorded, stream, agentVars>>

Script == ReadBefore \/ Post \/ WaitEnds \/ RecordTurn \/ Recover \/ RequestFails

CaptureNext == Script \/ Server

(***************************************************************************)
(* Properties.                                                             *)
(***************************************************************************)

Of(turn, kind) == {n \in DOMAIN stream : stream[n].turn = turn /\ stream[n].kind = kind}

\* A turn recorded as finished has an answer to its own message in the stream,
\* and nothing is written to the stream twice: events of an earlier turn or of
\* an earlier conversation never end the wait for a later one.  Only the last
\* turn may have failed.
FinishedTurnsAnswered ==
  /\ \A t \in DOMAIN recorded :
       /\ recorded[t] = "finished" => Of(t, "answer") # {}
       /\ recorded[t] # "finished" => t = Len(recorded)
  /\ \A m, n \in DOMAIN stream : stream[m] = stream[n] => m = n
  /\ \A t \in 1 .. Turns : Of(t, "message") # {} => t <= Len(recorded) + 1

\* Every action and answer in the stream came from a call whose span is in
\* llm.jsonl: the replay finds a wait for each of them.
SpansCoverActions ==
  spans >= Cardinality({n \in DOMAIN stream : stream[n].kind \in {"action", "answer"}})

=============================================================================
