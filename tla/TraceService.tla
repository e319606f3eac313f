---------------------------- MODULE TraceService ----------------------------
(***************************************************************************)
(* The trace server's session table: class TraceService and the POST       *)
(* handler in front of it (swebench_microvm_scale_experiment.py).          *)
(*                                                                         *)
(* The server is a ThreadingHTTPServer: any number of requests are in      *)
(* flight at once, in any order, and TraceService.inference handles each   *)
(* one under its lock, so handling a request is one step here.  A saved    *)
(* turn's list of bash commands is one opaque value; inference_seconds is  *)
(* only carried along by the code and is left out.                         *)
(***************************************************************************)
EXTENDS Integers, Sequences, FiniteSets

CONSTANTS
  SessionIds,   (* the session ids clients use                             *)
  Commands,     (* lists of bash commands, one per saved turn              *)
  Workflows,    (* instance id -> its trajectory, a sequence of Commands   *)
  Foreign,      (* instance ids no trajectory was loaded for               *)
  NoId,         (* an absent id (JSON null, or the empty string)           *)
  Tags,         (* tells apart HTTP exchanges that carry equal bodies      *)
  Turns,        (* the turn numbers requests carry                         *)
  MaxRequests   (* bound: requests submitted in a behaviour of Spec        *)

Instances == DOMAIN Workflows

\* trace_workflow refuses a trajectory without timed turns.
ASSUME WorkflowsAssumption ==
  \A i \in Instances : Workflows[i] \in Seq(Commands) /\ Workflows[i] # <<>>

ASSUME IdsAssumption ==
  /\ NoId \notin SessionIds \cup Instances \cup Foreign
  /\ Instances \cap Foreign = {}
  /\ Turns \subseteq Int

VARIABLES
  sessions,     (* TraceService.sessions; an unbound id has no instance    *)
  requests,     (* requests that reached the server and are not handled    *)
  replies       (* every reply the server has sent                         *)

serviceVars == <<sessions, requests, replies>>

Request == [session_id : SessionIds \cup {NoId},
            instance_id : Instances \cup Foreign \cup {NoId},
            turn : Turns, tag : Tags]

Response == [turn : Nat \ {0}, commands : Commands, done : BOOLEAN]

NoResponse == [turn |-> 0]

Reply == [request : Request, status : {200, 400, 404, 409, 503},
          response : Response \cup {NoResponse}]

Unbound == [instance_id |-> NoId, next_turn |-> 1, responses |-> <<>>]

Init ==
  /\ sessions = [s \in SessionIds |-> Unbound]
  /\ requests = {}
  /\ replies = {}

-----------------------------------------------------------------------------
(* The checks of inference, in the order the code makes them.              *)

Malformed(r) == r.session_id = NoId \/ r.turn < 1

Exists(s) == sessions[s].instance_id # NoId

UnknownInstance(r) == ~Exists(r.session_id) /\ r.instance_id \notin Instances

\* Mutant of BoundElsewhere: the binding is never compared.
BoundNowhere(r) == FALSE

BoundElsewhere(r) ==
  /\ Exists(r.session_id)
  /\ r.instance_id # NoId
  /\ r.instance_id # sessions[r.session_id].instance_id

Admissible(r) == ~Malformed(r) /\ ~UnknownInstance(r) /\ ~BoundElsewhere(r)

\* The state inference works on: the session's, created and bound when the id
\* is new.
Opened(r) ==
  IF Exists(r.session_id) THEN sessions[r.session_id]
  ELSE [Unbound EXCEPT !.instance_id = r.instance_id]

\* Mutant of Build: the turn asked for is taken as a zero-based index that
\* stops at the last turn.
BuildShifted(state, turn) ==
  LET trace == Workflows[state.instance_id]
      saved == IF turn < Len(trace) THEN turn + 1 ELSE turn
  IN [turn |-> turn, commands |-> trace[saved], done |-> saved = Len(trace)]

Build(state, turn) ==
  [turn |-> turn,
   commands |-> Workflows[state.instance_id][turn],
   done |-> turn = Len(Workflows[state.instance_id])]

\* Mutant of Advance: the response is sent but not remembered.
AdvanceUncached(state) ==
  [state EXCEPT !.next_turn = @ + 1]

\* Mutant of Advance: the response is stored at the trajectory's index.
AdvanceZeroBased(state) ==
  [instance_id |-> state.instance_id,
   next_turn |-> state.next_turn + 1,
   responses |-> [t \in DOMAIN state.responses \cup {state.next_turn - 1} |->
                    IF t = state.next_turn - 1 THEN Build(state, t + 1)
                    ELSE state.responses[t]]]

\* The session after its next turn was built and stored.
Advance(state) ==
  [instance_id |-> state.instance_id,
   next_turn |-> state.next_turn + 1,
   responses |-> [t \in DOMAIN state.responses \cup {state.next_turn} |->
                    IF t = state.next_turn THEN Build(state, t)
                    ELSE state.responses[t]]]

Answer(r, status, response) ==
  /\ requests' = requests \ {r}
  /\ replies' = replies \cup
                  {[request |-> r, status |-> status, response |-> response]}

-----------------------------------------------------------------------------
(* One action per way a request leaves inference and do_POST.              *)

RejectMalformed(r) ==
  /\ Malformed(r)
  /\ Answer(r, 400, NoResponse)
  /\ UNCHANGED sessions

RejectUnknown(r) ==
  /\ ~Malformed(r)
  /\ UnknownInstance(r)
  /\ Answer(r, 404, NoResponse)
  /\ UNCHANGED sessions

RejectRebind(r) ==
  /\ ~Malformed(r)
  /\ BoundElsewhere(r)
  /\ Answer(r, 409, NoResponse)
  /\ UNCHANGED sessions

\* Mutant of ServeCached: the counter moves on a repeat too.
ServeCachedAdvancing(r) ==
  /\ Admissible(r)
  /\ r.turn \in DOMAIN Opened(r).responses
  /\ Answer(r, 200, Opened(r).responses[r.turn])
  /\ sessions' = [sessions EXCEPT ![r.session_id].next_turn = @ + 1]

\* Mutant of ServeCached: a repeat is answered with the newest response.
ServeCachedLatest(r) ==
  /\ Admissible(r)
  /\ r.turn \in DOMAIN Opened(r).responses
  /\ Answer(r, 200, Opened(r).responses[Opened(r).next_turn - 1])
  /\ UNCHANGED sessions

ServeCached(r) ==
  /\ Admissible(r)
  /\ r.turn \in DOMAIN Opened(r).responses
  /\ Answer(r, 200, Opened(r).responses[r.turn])
  /\ UNCHANGED sessions

\* A turn out of order, or one past the trajectory's end, is refused; a new
\* session stays in the table, bound, all the same.
RejectTurn(r) ==
  /\ Admissible(r)
  /\ r.turn \notin DOMAIN Opened(r).responses
  /\ \/ r.turn # Opened(r).next_turn
     \/ r.turn > Len(Workflows[Opened(r).instance_id])
  /\ Answer(r, 409, NoResponse)
  /\ sessions' = [sessions EXCEPT ![r.session_id] = Opened(r)]

ServeNext(r) ==
  /\ Admissible(r)
  /\ r.turn \notin DOMAIN Opened(r).responses
  /\ r.turn = Opened(r).next_turn
  /\ r.turn <= Len(Workflows[Opened(r).instance_id])
  /\ Answer(r, 200, Build(Opened(r), r.turn))
  /\ sessions' = [sessions EXCEPT ![r.session_id] = Advance(Opened(r))]

Handle(r) ==
  \/ RejectMalformed(r)
  \/ RejectUnknown(r)
  \/ RejectRebind(r)
  \/ ServeCached(r)
  \/ RejectTurn(r)
  \/ ServeNext(r)

\* A client, any client, puts a request on the wire.
Submit(r) ==
  /\ r \notin requests
  /\ \A p \in replies : p.request # r
  /\ Cardinality(requests) + Cardinality(replies) < MaxRequests
  /\ requests' = requests \cup {r}
  /\ UNCHANGED <<sessions, replies>>

Next ==
  \/ \E r \in Request : Submit(r)
  \/ \E r \in requests : Handle(r)

Spec == Init /\ [][Next]_serviceVars

-----------------------------------------------------------------------------
(* Properties.                                                             *)

\* The table, the wire and the replies have the shapes the code gives them.
TypeOK ==
  /\ sessions = [s \in SessionIds |-> sessions[s]]
  /\ \A s \in SessionIds :
       /\ sessions[s].instance_id \in Instances \cup {NoId}
       /\ sessions[s].next_turn \in Nat \ {0}
       /\ DOMAIN sessions[s].responses \subseteq Nat \ {0}
       /\ \A t \in DOMAIN sessions[s].responses :
            sessions[s].responses[t] \in Response
  /\ requests \subseteq Request
  /\ replies \subseteq Reply

\* What inference relies on between two requests: a session's stored responses
\* are exactly turns 1 .. next_turn - 1 of its own instance's trajectory, the
\* last one marked done and no earlier one.
SessionsArePrefixes ==
  \A s \in SessionIds :
    /\ DOMAIN sessions[s].responses = 1 .. (sessions[s].next_turn - 1)
    /\ Exists(s) =>
         /\ sessions[s].next_turn <= Len(Workflows[sessions[s].instance_id]) + 1
         /\ \A t \in DOMAIN sessions[s].responses :
              sessions[s].responses[t] = Build(sessions[s], t)

Served(s, t) == {p \in replies : /\ p.status = 200
                                 /\ p.request.session_id = s
                                 /\ p.request.turn = t}

\* Whatever retries, duplicates and other clients do, a turn of a session is
\* answered the same way every time: inference answers a repeat from
\* state["responses"], and a session's instance never changes.
RepliesAgree ==
  \A p, q \in replies :
    (p.status = 200 /\ q \in Served(p.request.session_id, p.request.turn))
      => p.response = q.response

\* A client that names its instance is only ever given that instance's saved
\* commands, whoever opened the session: the 409 on a binding mismatch.
AnswersNamedInstance ==
  \A p \in replies :
    (p.status = 200 /\ p.request.instance_id # NoId)
      => p.response.commands = Workflows[p.request.instance_id][p.request.turn]

\* No turn is given out before the one ahead of it: expected turn N means N - 1
\* was served.
TurnsServedInOrder ==
  \A p \in replies :
    (p.status = 200 /\ p.request.turn > 1)
      => Served(p.request.session_id, p.request.turn - 1) # {}

RepeatsAreCached ==
  \A p \in replies' \ replies :
    (\E q \in replies : /\ q.status = 200
                       /\ q.request.session_id = p.request.session_id
                       /\ q.request.instance_id = p.request.instance_id
                       /\ q.request.turn = p.request.turn)
      => p.status = 200

\* A turn that was served once is never refused to a client that asks for it
\* again in the same words: what request_turn's retries rest on.
RetriesAreServed == [][RepeatsAreCached]_serviceVars
=============================================================================
