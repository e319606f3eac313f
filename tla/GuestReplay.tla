---------------------------- MODULE GuestReplay -----------------------------
(***************************************************************************)
(* The guests of one stage and the trace server between them: GUEST_INIT,  *)
(* GUEST_INFERENCE (request_turn and main) and, through TraceService, the  *)
(* server (swebench_microvm_scale_experiment.py).                          *)
(*                                                                         *)
(* Every HTTP exchange is a request of its own: the guest reads only the   *)
(* reply to its current attempt, while an attempt it gave up on may still  *)
(* reach the server later, after newer ones.  What can go wrong is drawn   *)
(* from FaultKinds, MaxFaults times at most:                               *)
(*   "drop"     a request is lost before the server sees it                *)
(*   "late"     urlopen times out although the answer is on its way        *)
(*   "busy"     a proxy in front of the server answers 503                 *)
(*   "restart"  the server restarts; its sessions live in memory only      *)
(*   "boot"     guest network or artifact download fails                   *)
(*   "tools"    running a turn's commands raises in the guest              *)
(*   "kill"     the host stops the virtual machine                         *)
(***************************************************************************)
EXTENDS TraceService

CONSTANTS
  MaxAttempts,  (* max_attempts of request_turn (7 in the code)            *)
  MaxTurns,     (* MICROVM_MAX_TURNS                                       *)
  MaxStages,    (* bound: stages run against one server                    *)
  FaultKinds,   (* the faults this instance may meet                       *)
  MaxFaults     (* bound: how many of them                                 *)

\* One VM per session: the VM's number is its session id.
Guests == SessionIds

ASSUME GuestAssumption ==
  /\ MaxAttempts \in Nat \ {0}
  /\ MaxTurns \in Nat \ {0}
  /\ MaxStages \in Nat \ {0}
  /\ Turns = 1 .. MaxTurns
  /\ Tags = (1 .. MaxStages) \X (1 .. MaxAttempts)

VARIABLES
  stage,        (* the stage the guests belong to                          *)
  assigned,     (* microvm_instance on each guest's kernel command line    *)
  pc,           (* absent, boot, loop, waiting, tools, finish or off       *)
  turn,         (* main's turn                                             *)
  attempt,      (* request_turn's attempt, from 1                          *)
  body,         (* the response whose commands are being run               *)
  ran,          (* the turns whose commands were run, in order             *)
  serial,       (* the markers in the guest's serial log                   *)
  faults,       (* how many faults were met so far                         *)
  met           (* and of which kinds                                      *)

guestVars == <<stage, assigned, pc, turn, attempt, body, ran, serial>>
faultVars == <<faults, met>>
vars == <<serviceVars, guestVars, faultVars>>

Booting(guests) ==
  [g \in Guests |-> IF g \in guests THEN "boot" ELSE "absent"]

\* The first stage: its members boot, each with an instance of its own.
FirstStage(members, assignments) ==
  /\ Init
  /\ stage = 1
  /\ assigned \in assignments
  /\ pc = Booting(members)
  /\ turn = [g \in Guests |-> 1]
  /\ attempt = [g \in Guests |-> 1]
  /\ body = [g \in Guests |-> NoResponse]
  /\ ran = [g \in Guests |-> <<>>]
  /\ serial = [g \in Guests |-> {}]
  /\ faults = 0
  /\ met = {}

GuestInit == FirstStage(Guests, [Guests -> Instances])

Fault(kind) ==
  /\ kind \in FaultKinds
  /\ faults < MaxFaults
  /\ faults' = faults + 1
  /\ met' = met \cup {kind}

-----------------------------------------------------------------------------
(* The guest.                                                              *)

MoveTo(g, label) == pc' = [pc EXCEPT ![g] = label]

Write(g, marker) == serial' = [serial EXCEPT ![g] = @ \cup {marker}]

\* What attempt n at the guest's current turn puts on the wire.
Attempt(g, n) ==
  [session_id |-> g, instance_id |-> assigned[g], turn |-> turn[g],
   tag |-> <<stage, n>>]

\* main's except clause, and the power-off in GUEST_INIT after it.
Fail(g) ==
  /\ MoveTo(g, "off")
  /\ Write(g, "REPLAY_ERROR")
  /\ UNCHANGED <<stage, assigned, turn, attempt, body, ran>>

NetworkFails(g) ==
  /\ pc[g] = "boot"
  /\ Fault("boot")
  /\ MoveTo(g, "off")
  /\ UNCHANGED <<stage, assigned, turn, attempt, body, ran, serial, serviceVars>>

FetchFails(g) ==
  /\ pc[g] = "boot"
  /\ Fault("boot")
  /\ MoveTo(g, "off")
  /\ Write(g, "ARTIFACT_FETCH_FAILED")
  /\ UNCHANGED <<stage, assigned, turn, attempt, body, ran, serviceVars>>

ArtifactReady(g) ==
  /\ pc[g] = "boot"
  /\ MoveTo(g, "loop")
  /\ Write(g, "ARTIFACT_READY")
  /\ UNCHANGED <<stage, assigned, turn, attempt, body, ran, serviceVars, faultVars>>

BeginTurn(g) ==
  /\ pc[g] = "loop"
  /\ turn[g] <= MaxTurns
  /\ MoveTo(g, "waiting")
  /\ attempt' = [attempt EXCEPT ![g] = 1]
  /\ requests' = requests \cup {Attempt(g, 1)}
  /\ UNCHANGED <<sessions, replies, stage, assigned, turn, body, ran, serial, faultVars>>

\* Mutant of TurnsExceeded: leaving the loop at the limit counts as done.
TurnsExhausted(g) ==
  /\ pc[g] = "loop"
  /\ turn[g] > MaxTurns
  /\ MoveTo(g, "finish")
  /\ UNCHANGED <<stage, assigned, turn, attempt, body, ran, serial, serviceVars, faultVars>>

TurnsExceeded(g) ==
  /\ pc[g] = "loop"
  /\ turn[g] > MaxTurns
  /\ Fail(g)
  /\ UNCHANGED <<serviceVars, faultVars>>

\* The reply to the current attempt, if the server has sent it.
Arrived(g) == {p \in replies : p.request = Attempt(g, attempt[g])}

\* Mutant of Retryable: every HTTPError ends the guest.
RetryableTurn(g, p) == p.status = 200 /\ p.response.turn # turn[g]

\* urlopen raises HTTPError for any status but 200; 408, 429 and 5xx are
\* retried, and so is a response for another turn.
Retryable(g, p) ==
  p.status >= 500 \/ (p.status = 200 /\ p.response.turn # turn[g])

AcceptReply(g) ==
  /\ pc[g] = "waiting"
  /\ \E p \in Arrived(g) :
       /\ p.status = 200
       /\ ~Retryable(g, p)
       /\ body' = [body EXCEPT ![g] = p.response]
  /\ MoveTo(g, "tools")
  /\ UNCHANGED <<stage, assigned, turn, attempt, ran, serial, serviceVars, faultVars>>

RefusedReply(g) ==
  /\ pc[g] = "waiting"
  /\ \E p \in Arrived(g) : p.status # 200 /\ ~Retryable(g, p)
  /\ Fail(g)
  /\ UNCHANGED <<serviceVars, faultVars>>

\* The except branches of request_turn: back off and send again, or give up
\* after the last attempt.
Retry(g) ==
  \/ /\ attempt[g] < MaxAttempts
     /\ attempt' = [attempt EXCEPT ![g] = @ + 1]
     /\ requests' = requests \cup {Attempt(g, attempt[g] + 1)}
     /\ UNCHANGED <<sessions, replies, stage, assigned, pc, turn, body, ran, serial>>
  \/ /\ attempt[g] = MaxAttempts
     /\ Fail(g)
     /\ UNCHANGED serviceVars

RetryAfterError(g) ==
  /\ pc[g] = "waiting"
  /\ \E p \in Arrived(g) : Retryable(g, p)
  /\ Retry(g)
  /\ UNCHANGED faultVars

Unanswered(g) ==
  /\ Arrived(g) = {}
  /\ Attempt(g, attempt[g]) \notin requests

\* Mutant of TimeoutOnLoss: urlopen waits without a timeout.
NoTimeout(g) == FALSE

\* Nothing will ever answer this attempt: it was lost on the way.
TimeoutOnLoss(g) ==
  /\ pc[g] = "waiting"
  /\ Unanswered(g)
  /\ Retry(g)
  /\ UNCHANGED faultVars

\* The timeout wins the race against an answer that is still to come.
TimeoutTooEarly(g) ==
  /\ pc[g] = "waiting"
  /\ ~Unanswered(g)
  /\ Fault("late")
  /\ Retry(g)

RunTools(g) ==
  /\ pc[g] = "tools"
  /\ ran' = [ran EXCEPT ![g] = Append(@, body[g].commands)]
  /\ IF body[g].done
     THEN MoveTo(g, "finish") /\ UNCHANGED turn
     ELSE MoveTo(g, "loop") /\ turn' = [turn EXCEPT ![g] = @ + 1]
  /\ UNCHANGED <<stage, assigned, attempt, body, serial, serviceVars, faultVars>>

ToolsRaise(g) ==
  /\ pc[g] = "tools"
  /\ Fault("tools")
  /\ Fail(g)
  /\ UNCHANGED serviceVars

Finish(g) ==
  /\ pc[g] = "finish"
  /\ MoveTo(g, "off")
  /\ Write(g, "REPLAY_DONE")
  /\ UNCHANGED <<stage, assigned, turn, attempt, body, ran, serviceVars, faultVars>>

-----------------------------------------------------------------------------
(* The host, the server and the network.                                   *)

StopVM(g) ==
  /\ pc[g] \notin {"absent", "off"}
  /\ Fault("kill")
  /\ MoveTo(g, "off")
  /\ UNCHANGED <<stage, assigned, turn, attempt, body, ran, serial, serviceVars>>

Serve(r) ==
  /\ Handle(r)
  /\ UNCHANGED <<guestVars, faultVars>>

Overload(r) ==
  /\ Fault("busy")
  /\ Answer(r, 503, NoResponse)
  /\ UNCHANGED <<sessions, guestVars>>

Drop(r) ==
  /\ Fault("drop")
  /\ requests' = requests \ {r}
  /\ UNCHANGED <<sessions, replies, guestVars>>

RestartServer ==
  /\ Fault("restart")
  /\ sessions' = [s \in SessionIds |-> Unbound]
  /\ requests' = {}
  /\ UNCHANGED <<replies, guestVars>>

-----------------------------------------------------------------------------
\* What a guest does by itself, given time.
GuestStep(g) ==
  \/ ArtifactReady(g)
  \/ BeginTurn(g)
  \/ TurnsExceeded(g)
  \/ AcceptReply(g)
  \/ RefusedReply(g)
  \/ RetryAfterError(g)
  \/ TimeoutOnLoss(g)
  \/ RunTools(g)
  \/ Finish(g)

GuestFault(g) ==
  \/ NetworkFails(g)
  \/ FetchFails(g)
  \/ TimeoutTooEarly(g)
  \/ ToolsRaise(g)
  \/ StopVM(g)

GuestNext ==
  \/ \E g \in Guests : GuestStep(g) \/ GuestFault(g)
  \/ \E r \in requests : Serve(r) \/ Overload(r) \/ Drop(r)
  \/ RestartServer

\* A guest's process and the handler thread of each request keep running, and
\* urlopen's timeout ends a wait that nothing else ends.
GuestFairness ==
  /\ \A g \in Guests : WF_vars(GuestStep(g))
  /\ WF_vars(\E r \in requests : Serve(r))

GuestSpec == GuestInit /\ [][GuestNext]_vars /\ GuestFairness

-----------------------------------------------------------------------------
(* Properties.                                                             *)

Verdict(g) ==
  CASE "REPLAY_DONE" \in serial[g] -> "complete"
    [] "REPLAY_DONE" \notin serial[g] /\ pc[g] = "off" -> "stopped"
    [] OTHER -> "running"

Replay == INSTANCE TraceReplay
            WITH executed <- ran, verdict <- [g \in Guests |-> Verdict(g)]

\* Behind lost, late, repeated and reordered exchanges, server restarts and
\* failing guests, a guest still runs exactly its own trajectory's turns, each
\* once and in order, and says REPLAY_DONE only when it ran them all.
ReplayIsExact == Replay!Spec

\* However many attempts are in flight, the server is at most one turn ahead of
\* the guest, as long as it keeps its sessions: a session advances only for the
\* turn its guest is asking for.
ServerOneAhead ==
  "restart" \notin met =>
    \A g \in Guests : Exists(g) =>
      sessions[g].next_turn - 1 \in {Len(ran[g]), Len(ran[g]) + 1}

\* A guest always comes to an end, whatever happens to its requests: every wait
\* is bounded by a timeout and the attempts are bounded.
GuestsEnd == \A g \in Guests : <>(pc[g] = "off")

Masked(g) ==
  /\ met \subseteq {"drop", "late", "busy"}
  /\ faults < MaxAttempts
  /\ Len(Workflows[assigned[g]]) <= MaxTurns

\* Fewer network faults than attempts, wherever they strike, are invisible: the
\* guest completes its trajectory.
RetriesMaskFaults ==
  \A g \in Guests : []Masked(g) => <>("REPLAY_DONE" \in serial[g])
=============================================================================
