----------------------- MODULE ScaleExperimentProofs ------------------------
(***************************************************************************)
(* Proofs about the trace server, its guests and the experiment            *)
(* (TraceService, GuestReplay and ScaleExperiment), for any set of         *)
(* sessions, any number of guests and requests, any corpus, any list of    *)
(* stages, any limit on turns and attempts and any faults.                 *)
(*                                                                         *)
(* SessionsArePrefixes is inductive with two small additions.  What was    *)
(* sent to clients is tied to the server's table by ReplyBacked: every     *)
(* successful reply is still in its session's responses, and every stored  *)
(* response was sent.  What clients observe of the server follows from     *)
(* those two.                                                              *)
(*                                                                         *)
(* What a guest has run is tied to its trajectory in two steps: a          *)
(* successful reply to a request that names an instance carries that       *)
(* instance's saved turn (WireInv, from the server's table), and a guest   *)
(* has run as many turns as its own counter says (OwnTrace).               *)
(*                                                                         *)
(* A stage starts every guest anew, while the server's table and the       *)
(* replies of earlier stages stay: WireInv, which says nothing of the      *)
(* guests, holds across stages, and that is all a guest relies on.         *)
(***************************************************************************)
EXTENDS ScaleExperiment, SequenceTheorems, TLAPS

-----------------------------------------------------------------------------
(***************************************************************************)
(* TraceService.                                                           *)
(***************************************************************************)

(* An unbound session has made no progress, and the requests the server    *)
(* holds are requests.                                                     *)
TableInv ==
  /\ TypeOK
  /\ SessionsArePrefixes
  /\ \A s \in SessionIds : ~Exists(s) => sessions[s] = Unbound

(* A workflow of the catalog has at least one turn, and commands in each.  *)
LEMMA WorkflowFacts ==
  ASSUME NEW i \in Instances
  PROVE  /\ Len(Workflows[i]) \in Nat \ {0}
         /\ \A t \in 1 .. Len(Workflows[i]) : Workflows[i][t] \in Commands
         /\ i # NoId
  BY WorkflowsAssumption, IdsAssumption DEF Instances

(* The state inference works on has the session's prefix property and is   *)
(* bound, whether it was found or has just been opened.                    *)
LEMMA OpenedFacts ==
  ASSUME TableInv, NEW r \in Request, Admissible(r)
  PROVE  /\ r.session_id \in SessionIds
         /\ r.turn \in Nat \ {0}
         /\ Opened(r).instance_id \in Instances
         /\ Opened(r).next_turn \in Nat \ {0}
         /\ Opened(r).next_turn <= Len(Workflows[Opened(r).instance_id]) + 1
         /\ DOMAIN Opened(r).responses = 1 .. (Opened(r).next_turn - 1)
         /\ \A t \in DOMAIN Opened(r).responses :
              /\ Opened(r).responses[t] = Build(Opened(r), t)
              /\ Opened(r).responses[t] \in Response
         /\ r.instance_id # NoId => Opened(r).instance_id = r.instance_id
         /\ Exists(r.session_id) => Opened(r) = sessions[r.session_id]
         /\ ~Exists(r.session_id) => Opened(r).responses = <<>>
<1>1. r.session_id \in SessionIds /\ r.turn \in Nat \ {0}
  <2>1. r.session_id \in SessionIds \cup {NoId} /\ r.turn \in Turns
    BY DEF Request
  <2>2. r.turn \in Int
    BY <2>1, IdsAssumption
  <2>3. r.session_id # NoId /\ ~(r.turn < 1)
    BY DEF Admissible, Malformed
  <2>4. QED
    BY <2>1, <2>2, <2>3
<1>2. CASE Exists(r.session_id)
  BY <1>1, <1>2, WorkflowFacts, IdsAssumption
     DEF TableInv, TypeOK, SessionsArePrefixes, Opened, Exists, Admissible,
         BoundElsewhere, Build
<1>3. CASE ~Exists(r.session_id)
  <2>1. r.instance_id \in Instances
    BY <1>3 DEF Admissible, UnknownInstance
  <2>2. /\ Opened(r).instance_id = r.instance_id
        /\ Opened(r).next_turn = 1
        /\ Opened(r).responses = <<>>
    BY <1>3 DEF Opened, Unbound
  <2>3. DOMAIN Opened(r).responses = {}
    BY <2>2
  <2>4. QED
    BY <1>1, <1>3, <2>1, <2>2, <2>3, WorkflowFacts
<1>4. QED
  BY <1>2, <1>3

(* Storing the next response extends the prefix by exactly one turn.       *)
LEMMA AdvanceFacts ==
  ASSUME TableInv, NEW r \in Request, Admissible(r),
         r.turn = Opened(r).next_turn,
         r.turn <= Len(Workflows[Opened(r).instance_id])
  PROVE  LET a == Advance(Opened(r)) IN
         /\ a.instance_id = Opened(r).instance_id
         /\ a.next_turn = r.turn + 1
         /\ DOMAIN a.responses = 1 .. r.turn
         /\ a.responses[r.turn] = Build(Opened(r), r.turn)
         /\ \A t \in DOMAIN Opened(r).responses :
              a.responses[t] = Opened(r).responses[t]
         /\ \A t \in DOMAIN a.responses :
              a.responses[t] = Build(a, t) /\ a.responses[t] \in Response
<1> DEFINE o == Opened(r)
           a == Advance(o)
<1>1. /\ a.instance_id = o.instance_id
      /\ a.next_turn = r.turn + 1
      /\ a.responses = [t \in DOMAIN o.responses \cup {r.turn} |->
                          IF t = r.turn THEN Build(o, t) ELSE o.responses[t]]
  BY DEF Advance
<1>2. DOMAIN o.responses = 1 .. (r.turn - 1) /\ r.turn \in Nat \ {0}
  BY OpenedFacts
<1>3. DOMAIN a.responses = 1 .. r.turn
  BY <1>1, <1>2
<1>4. a.responses[r.turn] = Build(o, r.turn)
  BY <1>1
<1>5. \A t \in DOMAIN o.responses : a.responses[t] = o.responses[t]
  BY <1>1, <1>2
<1>6. \A t : Build(a, t) = Build(o, t)
  BY <1>1 DEF Build
<1>7. Build(o, r.turn) \in Response
  BY OpenedFacts, WorkflowFacts DEF Build, Response
<1>8. \A t \in DOMAIN a.responses :
        a.responses[t] = Build(a, t) /\ a.responses[t] \in Response
  <2> SUFFICES ASSUME NEW t \in DOMAIN a.responses
               PROVE  a.responses[t] = Build(a, t) /\ a.responses[t] \in Response
    OBVIOUS
  <2>1. CASE t = r.turn
    BY <2>1, <1>4, <1>6, <1>7
  <2>2. CASE t # r.turn
    <3>1. t \in DOMAIN o.responses
      BY <2>2, <1>1
    <3>2. QED
      BY <3>1, <1>5, <1>6, OpenedFacts
  <2>3. QED
    BY <2>1, <2>2
<1>9. QED
  BY <1>1, <1>3, <1>4, <1>5, <1>8

(* A reply is a reply whatever its status, and leaves other requests be.   *)
LEMMA AnswerTypes ==
  ASSUME TypeOK, NEW r \in requests,
         NEW status \in {200, 400, 404, 409, 503},
         NEW response \in Response \cup {NoResponse},
         Answer(r, status, response)
  PROVE  requests' \subseteq Request /\ replies' \subseteq Reply
BY DEF TypeOK, Answer, Reply

(* Replacing one session's state by one that satisfies the invariant.      *)
LEMMA SessionUpdate ==
  ASSUME TableInv, NEW s \in SessionIds, NEW x,
         sessions' = [sessions EXCEPT ![s] = x],
         requests' \subseteq Request, replies' \subseteq Reply,
         x.instance_id \in Instances,
         x.next_turn \in Nat \ {0},
         x.next_turn <= Len(Workflows[x.instance_id]) + 1,
         DOMAIN x.responses = 1 .. (x.next_turn - 1),
         \A t \in DOMAIN x.responses :
           x.responses[t] = Build(x, t) /\ x.responses[t] \in Response
  PROVE  TableInv'
<1>1. sessions'[s] = x /\ DOMAIN sessions' = SessionIds
  BY DEF TableInv, TypeOK
<1>2. \A u \in SessionIds \ {s} : sessions'[u] = sessions[u]
  BY DEF TableInv, TypeOK
<1>3. x.instance_id # NoId
  BY WorkflowFacts
<1>4. TypeOK'
  <2>1. sessions' = [u \in SessionIds |-> sessions'[u]]
    BY <1>1
  <2>2. QED
    BY <1>1, <1>2, <2>1 DEF TableInv, TypeOK
<1>5. SessionsArePrefixes'
  BY <1>1, <1>2 DEF TableInv, SessionsArePrefixes, Exists, Build
<1>6. (\A u \in SessionIds : ~Exists(u) => sessions[u] = Unbound)'
  BY <1>1, <1>2, <1>3 DEF TableInv, Exists
<1>7. QED
  BY <1>4, <1>5, <1>6 DEF TableInv

(* The table of sessions begins empty.                                     *)
LEMMA TableInit == Init => TableInv
<1> SUFFICES ASSUME Init PROVE TableInv
  OBVIOUS
<1>1. \A s \in SessionIds :
        /\ sessions[s] = Unbound
        /\ sessions[s].instance_id = NoId
        /\ sessions[s].next_turn = 1
        /\ DOMAIN sessions[s].responses = {}
  BY DEF Init, Unbound
<1>2. TypeOK
  BY <1>1 DEF Init, TypeOK
<1>3. SessionsArePrefixes
  <2>1. \A s \in SessionIds : ~Exists(s)
    BY <1>1 DEF Exists
  <2>2. 1 .. (1 - 1) = {}
    OBVIOUS
  <2>3. \A s \in SessionIds :
          DOMAIN sessions[s].responses = 1 .. (sessions[s].next_turn - 1)
    BY <1>1, <2>2
  <2>4. QED
    BY <2>1, <2>3 DEF SessionsArePrefixes
<1>4. QED
  BY <1>1, <1>2, <1>3 DEF TableInv

(* Whatever happens on the wire alone keeps the table's invariant.         *)
LEMMA TableUntouched ==
  ASSUME TableInv, sessions' = sessions,
         requests' \subseteq Request, replies' \subseteq Reply
  PROVE  TableInv'
BY DEF TableInv, TypeOK, SessionsArePrefixes, Exists, Build

(* One step per action; the three rejections that leave the table alone    *)
(* and the cached answer only touch the wire.                              *)
LEMMA TableStep == TableInv /\ [Next]_serviceVars => TableInv'
<1> SUFFICES ASSUME TableInv, [Next]_serviceVars PROVE TableInv'
  OBVIOUS
<1>0. TypeOK
  BY DEF TableInv
<1>1. ASSUME sessions' = sessions, requests' \subseteq Request,
             replies' \subseteq Reply
      PROVE  TableInv'
  BY <1>1, TableUntouched
<1>2. ASSUME NEW r \in Request, Submit(r) PROVE TableInv'
  <2>1. requests' \subseteq Request /\ replies' \subseteq Reply
    BY <1>0, <1>2 DEF Submit, TypeOK
  <2>2. QED
    BY <1>1, <1>2, <2>1 DEF Submit
<1>3. ASSUME NEW r \in requests, RejectMalformed(r) PROVE TableInv'
  BY <1>0, <1>1, <1>3, AnswerTypes DEF RejectMalformed
<1>4. ASSUME NEW r \in requests, RejectUnknown(r) PROVE TableInv'
  BY <1>0, <1>1, <1>4, AnswerTypes DEF RejectUnknown
<1>5. ASSUME NEW r \in requests, RejectRebind(r) PROVE TableInv'
  BY <1>0, <1>1, <1>5, AnswerTypes DEF RejectRebind
<1>6. ASSUME NEW r \in requests, ServeCached(r) PROVE TableInv'
  <2>1. r \in Request /\ Admissible(r)
    BY <1>0, <1>6 DEF TypeOK, ServeCached
  <2>2. Opened(r).responses[r.turn] \in Response
    BY <1>6, <2>1, OpenedFacts DEF ServeCached
  <2>3. requests' \subseteq Request /\ replies' \subseteq Reply
    BY <1>0, <1>6, <2>2, AnswerTypes DEF ServeCached
  <2>4. QED
    BY <1>1, <1>6, <2>3 DEF ServeCached
<1>7. ASSUME NEW r \in requests, RejectTurn(r) PROVE TableInv'
  <2>1. r \in Request /\ Admissible(r)
    BY <1>0, <1>7 DEF TypeOK, RejectTurn
  <2>2. requests' \subseteq Request /\ replies' \subseteq Reply
    BY <1>0, <1>7, AnswerTypes DEF RejectTurn
  <2>3. sessions' = [sessions EXCEPT ![r.session_id] = Opened(r)]
    BY <1>7 DEF RejectTurn
  <2>4. QED
    BY <2>1, <2>2, <2>3, OpenedFacts, SessionUpdate
<1>8. ASSUME NEW r \in requests, ServeNext(r) PROVE TableInv'
  <2>1. r \in Request /\ Admissible(r)
    BY <1>0, <1>8 DEF TypeOK, ServeNext
  <2>2. /\ r.turn = Opened(r).next_turn
        /\ r.turn <= Len(Workflows[Opened(r).instance_id])
        /\ sessions' = [sessions EXCEPT ![r.session_id] = Advance(Opened(r))]
        /\ Answer(r, 200, Build(Opened(r), r.turn))
    BY <1>8 DEF ServeNext
  <2> DEFINE a == Advance(Opened(r))
  <2>3. /\ a.instance_id = Opened(r).instance_id
        /\ a.next_turn = r.turn + 1
        /\ DOMAIN a.responses = 1 .. r.turn
        /\ a.responses[r.turn] = Build(Opened(r), r.turn)
        /\ \A t \in DOMAIN a.responses :
             a.responses[t] = Build(a, t) /\ a.responses[t] \in Response
    BY <2>1, <2>2, AdvanceFacts
  <2>4. /\ r.session_id \in SessionIds
        /\ r.turn \in Nat \ {0}
        /\ Opened(r).instance_id \in Instances
    BY <2>1, OpenedFacts
  <2>5. Build(Opened(r), r.turn) \in Response
    BY <2>3, <2>4
  <2>6. requests' \subseteq Request /\ replies' \subseteq Reply
    BY <1>0, <2>2, <2>5, AnswerTypes
  <2>7. /\ a.instance_id \in Instances
        /\ a.next_turn \in Nat \ {0}
        /\ a.next_turn <= Len(Workflows[a.instance_id]) + 1
        /\ DOMAIN a.responses = 1 .. (a.next_turn - 1)
    BY <2>2, <2>3, <2>4, WorkflowFacts
  <2>8. QED
    BY <2>2, <2>3, <2>4, <2>6, <2>7, SessionUpdate
<1>9. CASE UNCHANGED serviceVars
  BY <1>0, <1>1, <1>9 DEF serviceVars, TypeOK
<1>10. QED
  BY <1>2, <1>3, <1>4, <1>5, <1>6, <1>7, <1>8, <1>9 DEF Next, Handle

(* Type correctness of the session table, the wire and the replies, for    *)
(* every client behaviour.                                                 *)
THEOREM TypeCorrect == Spec => []TypeOK
<1>1. TableInv => TypeOK
  BY DEF TableInv
<1>2. QED
  BY TableInit, TableStep, <1>1, PTL DEF Spec

(* Stored responses are exactly a prefix of the bound trajectory: what the *)
(* code path `turn in state["responses"]` and next_turn rely on.           *)
THEOREM PrefixCorrect == Spec => []SessionsArePrefixes
<1>1. TableInv => SessionsArePrefixes
  BY DEF TableInv
<1>2. QED
  BY TableInit, TableStep, <1>1, PTL DEF Spec

-----------------------------------------------------------------------------
(* What clients were told is what the table holds: every successful reply  *)
(* is still stored in its session, and every stored response was sent.     *)
ReplyBacked ==
  \A p \in replies : p.status = 200 =>
    /\ p.request.session_id \in SessionIds
    /\ Exists(p.request.session_id)
    /\ p.request.instance_id # NoId =>
         p.request.instance_id = sessions[p.request.session_id].instance_id
    /\ p.request.turn \in DOMAIN sessions[p.request.session_id].responses
    /\ p.response = sessions[p.request.session_id].responses[p.request.turn]

StoredWasSent ==
  \A s \in SessionIds : \A t \in DOMAIN sessions[s].responses :
    Served(s, t) # {}

(* A session that exists keeps its instance and every response it stored.  *)
Extends(old, new) ==
  \A s \in SessionIds :
    /\ old[s].instance_id # NoId => new[s].instance_id = old[s].instance_id
    /\ \A t \in DOMAIN old[s].responses :
         /\ t \in DOMAIN new[s].responses
         /\ new[s].responses[t] = old[s].responses[t]

(* Whatever request is handled, a session keeps its trace and its stored   *)
(* responses.                                                              *)
LEMMA SessionsOnlyGrow ==
  ASSUME TableInv, [Next]_serviceVars
  PROVE  Extends(sessions, sessions')
<1>0. TypeOK
  BY DEF TableInv
<1>1. CASE sessions' = sessions
  BY <1>1 DEF Extends
<1>2. ASSUME NEW r \in requests, RejectTurn(r) PROVE Extends(sessions, sessions')
  <2>1. r \in Request /\ Admissible(r)
    BY <1>0, <1>2 DEF TypeOK, RejectTurn
  <2>2. sessions' = [sessions EXCEPT ![r.session_id] = Opened(r)]
    BY <1>2 DEF RejectTurn
  <2>3. \A s \in SessionIds :
          sessions'[s] = IF s = r.session_id THEN Opened(r) ELSE sessions[s]
    BY <1>0, <2>2 DEF TypeOK
  <2>4. CASE Exists(r.session_id)
    BY <2>1, <2>3, <2>4, OpenedFacts DEF Extends
  <2>5. CASE ~Exists(r.session_id)
    <3>1. /\ sessions[r.session_id].instance_id = NoId
          /\ DOMAIN sessions[r.session_id].responses = {}
      BY <2>1, <2>5, OpenedFacts DEF TableInv, Exists, Unbound
    <3>2. QED
      BY <2>3, <3>1 DEF Extends
  <2>6. QED
    BY <2>4, <2>5
<1>3. ASSUME NEW r \in requests, ServeNext(r) PROVE Extends(sessions, sessions')
  <2>1. r \in Request /\ Admissible(r)
    BY <1>0, <1>3 DEF TypeOK, ServeNext
  <2>2. /\ r.turn = Opened(r).next_turn
        /\ r.turn <= Len(Workflows[Opened(r).instance_id])
        /\ sessions' = [sessions EXCEPT ![r.session_id] = Advance(Opened(r))]
    BY <1>3 DEF ServeNext
  <2> DEFINE a == Advance(Opened(r))
  <2>3. \A s \in SessionIds :
          sessions'[s] = IF s = r.session_id THEN a ELSE sessions[s]
    BY <1>0, <2>2 DEF TypeOK
  <2>4. /\ a.instance_id = Opened(r).instance_id
        /\ DOMAIN a.responses = 1 .. r.turn
        /\ \A t \in DOMAIN Opened(r).responses :
             a.responses[t] = Opened(r).responses[t]
    BY <2>1, <2>2, AdvanceFacts
  <2>5. /\ DOMAIN Opened(r).responses = 1 .. (r.turn - 1)
        /\ r.turn \in Nat \ {0}
    BY <2>1, <2>2, OpenedFacts
  <2>6. DOMAIN Opened(r).responses \subseteq DOMAIN a.responses
    BY <2>4, <2>5
  <2>7. CASE Exists(r.session_id)
    <3>1. Opened(r) = sessions[r.session_id]
      BY <2>1, <2>7, OpenedFacts
    <3>2. QED
      BY <2>3, <2>4, <2>6, <3>1 DEF Extends
  <2>8. CASE ~Exists(r.session_id)
    <3>1. /\ sessions[r.session_id].instance_id = NoId
          /\ DOMAIN sessions[r.session_id].responses = {}
      BY <2>1, <2>8, OpenedFacts DEF TableInv, Exists, Unbound
    <3>2. QED
      BY <2>3, <3>1 DEF Extends
  <2>9. QED
    BY <2>7, <2>8
<1>4. QED
  BY <1>1, <1>2, <1>3
     DEF Next, Handle, Submit, RejectMalformed, RejectUnknown, RejectRebind,
         ServeCached, serviceVars

ReplyInv == ReplyBacked /\ StoredWasSent

(* What ReplyBacked says of one reply.                                     *)
Backed(p) ==
  /\ p.request.session_id \in SessionIds
  /\ Exists(p.request.session_id)
  /\ p.request.instance_id # NoId =>
       p.request.instance_id = sessions[p.request.session_id].instance_id
  /\ p.request.turn \in DOMAIN sessions[p.request.session_id].responses
  /\ p.response = sessions[p.request.session_id].responses[p.request.turn]

(* No reply has been sent when the server starts.                          *)
LEMMA ReplyInit == Init => ReplyInv
<1> SUFFICES ASSUME Init PROVE ReplyInv
  OBVIOUS
<1>1. \A s \in SessionIds : DOMAIN sessions[s].responses = {}
  BY DEF Init, Unbound
<1>2. QED
  BY <1>1 DEF Init, ReplyInv, ReplyBacked, StoredWasSent

(* Replies sent before a step stay backed after it: sessions only grow.    *)
LEMMA OldRepliesStay ==
  ASSUME TableInv, ReplyBacked, [Next]_serviceVars,
         NEW p \in replies, p.status = 200
  PROVE  Backed(p)'
<1>1. Extends(sessions, sessions')
  BY SessionsOnlyGrow
<1>2. Backed(p)
  BY DEF ReplyBacked, Backed
<1>3. QED
  BY <1>1, <1>2 DEF Backed, Exists, Extends

(* A reply stays backed by the table that it was sent from.                *)
LEMMA ReplyStep == TableInv /\ ReplyInv /\ [Next]_serviceVars => ReplyInv'
<1> SUFFICES ASSUME TableInv, ReplyInv, [Next]_serviceVars PROVE ReplyInv'
  OBVIOUS
<1>0. TypeOK /\ ReplyBacked /\ StoredWasSent
  BY DEF TableInv, ReplyInv
<1>old. \A p \in replies : p.status = 200 => Backed(p)'
  BY <1>0, OldRepliesStay
<1>1. ASSUME \A p \in replies' \ replies : p.status = 200 => Backed(p)',
             replies \subseteq replies',
             \A s \in SessionIds : \A t \in DOMAIN sessions'[s].responses :
               \/ t \in DOMAIN sessions[s].responses
               \/ Served(s, t)' # {}
      PROVE  ReplyInv'
  <2>1. ReplyBacked'
    BY <1>1, <1>old DEF ReplyBacked, Backed
  <2>2. StoredWasSent'
    BY <1>0, <1>1 DEF StoredWasSent, Served
  <2>3. QED
    BY <2>1, <2>2 DEF ReplyInv
<1>2. ASSUME NEW r \in requests, NEW status, NEW response,
             Answer(r, status, response)
      PROVE  /\ replies \subseteq replies'
             /\ \A p \in replies' \ replies :
                  /\ p.request = r
                  /\ p.status = status
                  /\ p.response = response
  BY <1>2 DEF Answer
<1>3. ASSUME NEW r \in requests, NEW status, status # 200,
             Answer(r, status, NoResponse), sessions' = sessions
      PROVE  ReplyInv'
  BY <1>1, <1>2, <1>3
<1>4. ASSUME NEW r \in requests, ServeCached(r) PROVE ReplyInv'
  <2>1. r \in Request /\ Admissible(r)
    BY <1>0, <1>4 DEF TypeOK, ServeCached
  <2>2. /\ r.turn \in DOMAIN Opened(r).responses
        /\ Answer(r, 200, Opened(r).responses[r.turn])
        /\ sessions' = sessions
    BY <1>4 DEF ServeCached
  <2>3. Exists(r.session_id)
    BY <2>1, <2>2, OpenedFacts
  <2>4. \A p \in replies' \ replies : Backed(p)'
    BY <1>2, <2>1, <2>2, <2>3, OpenedFacts DEF Backed, Exists
  <2>5. QED
    BY <1>1, <1>2, <2>2, <2>4
<1>5. ASSUME NEW r \in requests, RejectTurn(r) PROVE ReplyInv'
  <2>1. r \in Request /\ Admissible(r)
    BY <1>0, <1>5 DEF TypeOK, RejectTurn
  <2>2. /\ Answer(r, 409, NoResponse)
        /\ sessions' = [sessions EXCEPT ![r.session_id] = Opened(r)]
    BY <1>5 DEF RejectTurn
  <2>3. \A s \in SessionIds :
          sessions'[s] = IF s = r.session_id THEN Opened(r) ELSE sessions[s]
    BY <1>0, <2>2 DEF TypeOK
  <2>4. \A t \in DOMAIN Opened(r).responses :
          t \in DOMAIN sessions[r.session_id].responses
    BY <2>1, OpenedFacts
  <2>5. \A s \in SessionIds : \A t \in DOMAIN sessions'[s].responses :
          t \in DOMAIN sessions[s].responses
    BY <2>3, <2>4
  <2>6. QED
    BY <1>1, <1>2, <2>2, <2>5
<1>6. ASSUME NEW r \in requests, ServeNext(r) PROVE ReplyInv'
  <2>1. r \in Request /\ Admissible(r)
    BY <1>0, <1>6 DEF TypeOK, ServeNext
  <2>2. /\ r.turn = Opened(r).next_turn
        /\ r.turn <= Len(Workflows[Opened(r).instance_id])
        /\ sessions' = [sessions EXCEPT ![r.session_id] = Advance(Opened(r))]
        /\ Answer(r, 200, Build(Opened(r), r.turn))
    BY <1>6 DEF ServeNext
  <2> DEFINE a == Advance(Opened(r))
  <2>3. \A s \in SessionIds :
          sessions'[s] = IF s = r.session_id THEN a ELSE sessions[s]
    BY <1>0, <2>2 DEF TypeOK
  <2>4. /\ a.instance_id = Opened(r).instance_id
        /\ DOMAIN a.responses = 1 .. r.turn
        /\ a.responses[r.turn] = Build(Opened(r), r.turn)
    BY <2>1, <2>2, AdvanceFacts
  <2>5. /\ DOMAIN Opened(r).responses = 1 .. (r.turn - 1)
        /\ r.turn \in Nat \ {0}
        /\ r.session_id \in SessionIds
        /\ Opened(r).instance_id # NoId
        /\ r.instance_id # NoId => Opened(r).instance_id = r.instance_id
    BY <2>1, <2>2, OpenedFacts, WorkflowFacts
  <2>6. \A p \in replies' \ replies : Backed(p)'
    <3>1. r.turn \in DOMAIN a.responses
      BY <2>4, <2>5
    <3>2. sessions'[r.session_id] = a
      BY <2>3, <2>5
    <3>3. QED
      BY <1>2, <2>2, <2>4, <2>5, <3>1, <3>2 DEF Backed, Exists
  <2>7. Served(r.session_id, r.turn)' # {}
    <3> DEFINE q == [request |-> r, status |-> 200,
                     response |-> Build(Opened(r), r.turn)]
    <3>1. q \in replies'
      BY <2>2 DEF Answer
    <3>2. QED
      BY <3>1 DEF Served
  <2>8. \A t \in DOMAIN a.responses \ {r.turn} :
          t \in DOMAIN sessions[r.session_id].responses
    <3>1. \A t \in DOMAIN a.responses \ {r.turn} : t \in DOMAIN Opened(r).responses
      BY <2>4, <2>5
    <3>2. QED
      BY <2>1, <3>1, OpenedFacts
  <2>9. \A s \in SessionIds : \A t \in DOMAIN sessions'[s].responses :
          \/ t \in DOMAIN sessions[s].responses
          \/ Served(s, t)' # {}
    BY <2>3, <2>7, <2>8
  <2>10. QED
    BY <1>1, <1>2, <2>2, <2>6, <2>9
<1>7. ASSUME replies' = replies, sessions' = sessions PROVE ReplyInv'
  BY <1>1, <1>7
<1>8. QED
  <2>1. ASSUME NEW r \in requests, RejectMalformed(r) PROVE ReplyInv'
    BY <1>3, <2>1 DEF RejectMalformed
  <2>2. ASSUME NEW r \in requests, RejectUnknown(r) PROVE ReplyInv'
    BY <1>3, <2>2 DEF RejectUnknown
  <2>3. ASSUME NEW r \in requests, RejectRebind(r) PROVE ReplyInv'
    BY <1>3, <2>3 DEF RejectRebind
  <2>4. QED
    BY <1>4, <1>5, <1>6, <1>7, <2>1, <2>2, <2>3
       DEF Next, Handle, Submit, serviceVars

(* The invariants of the table and of the replies hold throughout.         *)
LEMMA InvariantsHold == Spec => [](TableInv /\ ReplyInv)
<1>1. Init => TableInv /\ ReplyInv
  BY TableInit, ReplyInit
<1>2. TableInv /\ ReplyInv /\ [Next]_serviceVars => (TableInv /\ ReplyInv)'
  BY TableStep, ReplyStep
<1>3. QED
  BY <1>1, <1>2, PTL DEF Spec

(* Two successful replies for one turn of one session carry the same       *)
(* response, whatever was retried, duplicated or reordered.                *)
THEOREM RepliesAgreeHolds == Spec => []RepliesAgree
<1>1. TableInv /\ ReplyInv => RepliesAgree
  BY DEF ReplyInv, ReplyBacked, RepliesAgree, Served
<1>2. QED
  BY InvariantsHold, <1>1, PTL

(* A client that names an instance only ever gets that instance's saved    *)
(* commands.                                                               *)
THEOREM AnswersNamedInstanceHolds == Spec => []AnswersNamedInstance
<1>1. TableInv /\ ReplyInv => AnswersNamedInstance
  <2> SUFFICES ASSUME TableInv, ReplyInv, NEW p \in replies, p.status = 200,
                      p.request.instance_id # NoId
               PROVE  p.response.commands =
                        Workflows[p.request.instance_id][p.request.turn]
    BY DEF AnswersNamedInstance
  <2> DEFINE s == p.request.session_id
  <2>1. Backed(p)
    BY DEF ReplyInv, ReplyBacked, Backed
  <2>2. sessions[s].responses[p.request.turn] = Build(sessions[s], p.request.turn)
    BY <2>1 DEF Backed, TableInv, SessionsArePrefixes
  <2>3. QED
    BY <2>1, <2>2 DEF Backed, Build
<1>2. QED
  BY InvariantsHold, <1>1, PTL

(* No turn is given out before the one ahead of it.                        *)
THEOREM TurnsServedInOrderHolds == Spec => []TurnsServedInOrder
<1>1. TableInv /\ ReplyInv => TurnsServedInOrder
  <2> SUFFICES ASSUME TableInv, ReplyInv, NEW p \in replies, p.status = 200,
                      p.request.turn > 1
               PROVE  Served(p.request.session_id, p.request.turn - 1) # {}
    BY DEF TurnsServedInOrder
  <2> DEFINE s == p.request.session_id
             t == p.request.turn
  <2>1. s \in SessionIds /\ t \in DOMAIN sessions[s].responses
    BY DEF ReplyInv, ReplyBacked
  <2>2. /\ DOMAIN sessions[s].responses = 1 .. (sessions[s].next_turn - 1)
        /\ sessions[s].next_turn \in Nat
    BY <2>1 DEF TableInv, TypeOK, SessionsArePrefixes
  <2>3. t - 1 \in DOMAIN sessions[s].responses
    BY <2>1, <2>2
  <2>4. QED
    BY <2>1, <2>3 DEF ReplyInv, StoredWasSent
<1>2. QED
  BY InvariantsHold, <1>1, PTL

(* A request that repeats one already served is served: of the ways out of *)
(* inference only the cached answer is open to it.                         *)
LEMMA RepeatIsCached ==
  ASSUME TableInv, ReplyInv, NEW r \in Request,
         NEW q \in replies, q.status = 200,
         q.request.session_id = r.session_id,
         q.request.instance_id = r.instance_id,
         q.request.turn = r.turn
  PROVE  /\ Admissible(r)
         /\ r.turn \in DOMAIN Opened(r).responses
<1>1. Backed(q)
  BY DEF ReplyInv, ReplyBacked, Backed
<1>2. /\ r.session_id \in SessionIds
      /\ Exists(r.session_id)
      /\ r.instance_id # NoId =>
           r.instance_id = sessions[r.session_id].instance_id
      /\ r.turn \in DOMAIN sessions[r.session_id].responses
  BY <1>1 DEF Backed
<1>3. r.session_id # NoId
  BY <1>2, IdsAssumption
<1>4. r.turn >= 1
  BY <1>2 DEF TableInv, TypeOK, SessionsArePrefixes
<1>5. r.turn \in Int
  BY IdsAssumption DEF Request
<1>6. Admissible(r)
  BY <1>2, <1>3, <1>4, <1>5
     DEF Admissible, Malformed, UnknownInstance, BoundElsewhere
<1>7. QED
  BY <1>2, <1>6 DEF Opened

(* A turn that was served once is never refused to a client that asks for  *)
(* it again in the same words.                                             *)
THEOREM RetriesAreServedHolds == Spec => RetriesAreServed
<1>1. TableInv /\ ReplyInv /\ [Next]_serviceVars => [RepeatsAreCached]_serviceVars
  <2> SUFFICES ASSUME TableInv, ReplyInv, [Next]_serviceVars,
                      NEW p \in replies' \ replies,
                      NEW q \in replies, q.status = 200,
                      q.request.session_id = p.request.session_id,
                      q.request.instance_id = p.request.instance_id,
                      q.request.turn = p.request.turn
               PROVE  p.status = 200
    BY DEF RepeatsAreCached
  <2>1. PICK r \in requests : Handle(r)
    BY DEF Next, Submit, serviceVars
  <2>2. r \in Request
    BY DEF TableInv, TypeOK
  <2>3. p.request = r
    BY <2>1 DEF Handle, RejectMalformed, RejectUnknown, RejectRebind,
                ServeCached, RejectTurn, ServeNext, Answer
  <2>4. Admissible(r) /\ r.turn \in DOMAIN Opened(r).responses
    BY <2>2, <2>3, RepeatIsCached
  <2>5. ServeCached(r)
    BY <2>1, <2>4
       DEF Handle, RejectMalformed, RejectUnknown, RejectRebind, RejectTurn,
           ServeNext, Admissible
  <2>6. QED
    BY <2>5 DEF ServeCached, Answer
<1>2. QED
  BY <1>1, InvariantsHold, PTL DEF Spec, RetriesAreServed

-----------------------------------------------------------------------------
(***************************************************************************)
(* GuestReplay.                                                            *)
(***************************************************************************)

Labels == {"absent", "boot", "loop", "waiting", "tools", "finish", "off"}

Markers == {"ARTIFACT_READY", "ARTIFACT_FETCH_FAILED", "REPLAY_ERROR", "REPLAY_DONE"}

GuestTypeOK ==
  /\ stage \in 1 .. MaxStages
  /\ assigned \in [Guests -> Instances]
  /\ pc \in [Guests -> Labels]
  /\ turn \in [Guests -> 1 .. MaxTurns + 1]
  /\ attempt \in [Guests -> 1 .. MaxAttempts]
  /\ body \in [Guests -> Response \cup {NoResponse}]
  /\ ran \in [Guests -> Seq(Commands)]
  /\ serial \in [Guests -> SUBSET Markers]
  /\ \A g \in Guests : pc[g] \in {"waiting", "tools"} => turn[g] <= MaxTurns

(* response is turn t of the trajectory.                                   *)
TellsTurn(response, trace, t) ==
  /\ t \in 1 .. Len(trace)
  /\ response.turn = t
  /\ response.commands = trace[t]
  /\ response.done <=> t = Len(trace)

(* The wire: a request names a session and an instance, and what was       *)
(* answered is that instance's turn, also after the server restarted.      *)
WireInv ==
  /\ TableInv
  /\ \A r \in requests : r.session_id \in Guests /\ r.instance_id \in Instances
  /\ \A p \in replies :
       p.status = 200 => /\ p.response \in Response
                         /\ p.request.instance_id \in Instances
                         /\ TellsTurn(p.response, Workflows[p.request.instance_id],
                                      p.request.turn)

(* How far a guest has come in its own trajectory.                         *)
OwnTrace(g) ==
  LET trace == Workflows[assigned[g]]
  IN /\ Len(ran[g]) <= Len(trace)
     /\ \A n \in 1 .. Len(ran[g]) : ran[g][n] = trace[n]
     /\ pc[g] \in {"absent", "boot", "loop", "waiting", "tools"} =>
          turn[g] = Len(ran[g]) + 1 /\ Len(ran[g]) < Len(trace)
     /\ pc[g] = "tools" => TellsTurn(body[g], trace, turn[g])
     /\ pc[g] = "finish" => Len(ran[g]) = Len(trace)
     /\ "REPLAY_DONE" \in serial[g] => pc[g] = "off" /\ Len(ran[g]) = Len(trace)

GuestInv ==
  /\ GuestTypeOK
  /\ WireInv
  /\ \A g \in Guests : OwnTrace(g)

(* As long as the server was not restarted, nobody asks for more than the  *)
(* guest's next turn,                                                      *)
AskedInTurn == \A r \in requests : r.turn <= Len(ran[r.session_id]) + 1

(* the server knows every turn that was answered,                          *)
AnsweredIsKnown ==
  \A p \in replies :
    p.status = 200 => /\ p.request.session_id \in Guests
                      /\ Exists(p.request.session_id)
                      /\ p.request.turn < sessions[p.request.session_id].next_turn

(* and it is with its guest, or at the turn the guest has not run yet.     *)
InStep(g) ==
  /\ Exists(g) => sessions[g].next_turn <= Len(ran[g]) + 2
  /\ Exists(g) => Len(ran[g]) < sessions[g].next_turn
  /\ ~Exists(g) => ran[g] = <<>>
  /\ pc[g] = "tools" => Exists(g) /\ turn[g] < sessions[g].next_turn

AheadInv ==
  "restart" \notin met =>
    AskedInTurn /\ AnsweredIsKnown /\ \A g \in Guests : InStep(g)

-----------------------------------------------------------------------------
(* The wire.                                                               *)

(* An attempt is a request for the guest's turn of its own instance.       *)
LEMMA AttemptIsRequest ==
  ASSUME GuestTypeOK, NEW g \in Guests, turn[g] <= MaxTurns, NEW n \in 1 .. MaxAttempts
  PROVE  /\ Attempt(g, n) \in Request
         /\ Attempt(g, n).session_id = g /\ Attempt(g, n).instance_id = assigned[g]
         /\ Attempt(g, n).turn = turn[g]
         /\ assigned[g] \in Instances /\ turn[g] \in Nat \ {0}
<1>1. assigned[g] \in Instances /\ turn[g] \in 1 .. MaxTurns /\ stage \in 1 .. MaxStages
  BY GuestAssumption DEF GuestTypeOK
<1>2. turn[g] \in Turns /\ <<stage, n>> \in Tags
  BY <1>1, GuestAssumption
<1> QED BY <1>1, <1>2 DEF Attempt, Request, Guests

(* A request more, or some less, without an answer.                        *)
LEMMA WireMoves ==
  ASSUME WireInv, sessions' = sessions, replies' = replies, requests' \subseteq Request,
         \A r \in requests' : r.session_id \in Guests /\ r.instance_id \in Instances
  PROVE  WireInv'
<1>1. TableInv'
  BY TableUntouched DEF WireInv, TableInv, TypeOK
<1> QED BY <1>1 DEF WireInv

(* What inference builds is the turn it was asked for.                     *)
LEMMA BuildTells ==
  ASSUME NEW state, NEW t \in 1 .. Len(Workflows[state.instance_id])
  PROVE  TellsTurn(Build(state, t), Workflows[state.instance_id], t)
BY DEF TellsTurn, Build

(* A successful answer tells the turn of the instance that was named.      *)
LEMMA AnswerTells ==
  ASSUME WireInv, NEW r \in requests, NEW status \in {200, 400, 404, 409, 503}, NEW response,
         Answer(r, status, response),
         status = 200 => /\ response \in Response
                         /\ TellsTurn(response, Workflows[r.instance_id], r.turn),
         status # 200 => response = NoResponse,
         TableInv'
  PROVE  WireInv'
<1>1. replies' = replies \cup {[request |-> r, status |-> status, response |-> response]}
      /\ requests' \subseteq requests
  BY DEF Answer
<1>2. \A q \in requests' : q.session_id \in Guests /\ q.instance_id \in Instances
  BY <1>1 DEF WireInv
<1>3. ASSUME NEW p \in replies', p.status = 200
      PROVE  /\ p.response \in Response /\ p.request.instance_id \in Instances
             /\ TellsTurn(p.response, Workflows[p.request.instance_id], p.request.turn)
  <2>1. CASE p \in replies
    BY <1>3, <2>1 DEF WireInv
  <2>2. CASE p = [request |-> r, status |-> status, response |-> response]
    <3>1. p.request = r /\ p.status = status /\ p.response = response
      BY <2>2
    <3>2. r.instance_id \in Instances
      BY DEF WireInv
    <3> QED BY <1>3, <3>1, <3>2
  <2> QED BY <1>1, <2>1, <2>2
<1> QED BY <1>2, <1>3 DEF WireInv

(* The server handles a request.                                           *)
LEMMA HandleKeepsWire ==
  ASSUME WireInv, NEW r \in requests, Handle(r)
  PROVE  WireInv'
<1>0. TableInv /\ r \in Request /\ r.instance_id \in Instances
  BY DEF WireInv, TableInv, TypeOK
<1>1. TableInv'
  BY <1>0, TableStep DEF Next
<1>2. ASSUME NEW status \in {400, 404, 409}, Answer(r, status, NoResponse)
      PROVE  WireInv'
  BY <1>1, <1>2, AnswerTells
<1>3. CASE RejectMalformed(r) \/ RejectUnknown(r) \/ RejectRebind(r) \/ RejectTurn(r)
  BY <1>2, <1>3 DEF RejectMalformed, RejectUnknown, RejectRebind, RejectTurn
<1>4. ASSUME Admissible(r)
      PROVE  /\ Opened(r).instance_id = r.instance_id
             /\ r.turn \in Nat \ {0}
             /\ Opened(r).next_turn \in Nat \ {0}
             /\ Opened(r).next_turn <= Len(Workflows[r.instance_id]) + 1
             /\ DOMAIN Opened(r).responses = 1 .. (Opened(r).next_turn - 1)
             /\ Len(Workflows[r.instance_id]) \in Nat
             /\ \A t \in DOMAIN Opened(r).responses :
                  /\ Opened(r).responses[t] = Build(Opened(r), t)
                  /\ Opened(r).responses[t] \in Response
  <2>1. r.instance_id # NoId /\ Len(Workflows[r.instance_id]) \in Nat
    BY <1>0, WorkflowFacts
  <2> QED BY <1>0, <1>4, <2>1, OpenedFacts
<1>5. CASE ServeCached(r)
  <2>1. Admissible(r) /\ r.turn \in DOMAIN Opened(r).responses
        /\ Answer(r, 200, Opened(r).responses[r.turn])
    BY <1>5 DEF ServeCached
  <2>2. r.turn \in 1 .. Len(Workflows[Opened(r).instance_id])
    BY <1>4, <2>1
  <2>3. TellsTurn(Opened(r).responses[r.turn], Workflows[r.instance_id], r.turn)
    BY <1>4, <2>1, <2>2, BuildTells
  <2> QED BY <1>1, <1>4, <2>1, <2>3, AnswerTells
<1>6. CASE ServeNext(r)
  <2>1. Admissible(r) /\ r.turn <= Len(Workflows[Opened(r).instance_id])
        /\ Answer(r, 200, Build(Opened(r), r.turn))
    BY <1>6 DEF ServeNext
  <2>2. r.turn \in 1 .. Len(Workflows[Opened(r).instance_id])
    BY <1>4, <2>1
  <2>3. TellsTurn(Build(Opened(r), r.turn), Workflows[r.instance_id], r.turn)
    BY <1>4, <2>1, <2>2, BuildTells
  <2>4. Build(Opened(r), r.turn) \in Response
    <3>1. Workflows[r.instance_id][r.turn] \in Commands
      BY <1>0, <1>4, <2>1, <2>2, WorkflowFacts
    <3> QED BY <1>4, <2>1, <3>1 DEF Build, Response
  <2> QED BY <1>1, <2>1, <2>3, <2>4, AnswerTells
<1> QED BY <1>3, <1>5, <1>6 DEF Handle

(* A proxy answers 503 in the server's place.                              *)
LEMMA OverloadKeepsWire ==
  ASSUME WireInv, NEW r \in requests, Answer(r, 503, NoResponse), UNCHANGED sessions
  PROVE  WireInv'
<1>1. TypeOK /\ TableInv
  BY DEF WireInv, TableInv
<1>2. requests' \subseteq Request /\ replies' \subseteq Reply
  BY <1>1, AnswerTypes
<1>3. TableInv'
  BY <1>1, <1>2, TableUntouched
<1> QED BY <1>3, AnswerTells

(* A restart of the server empties its table.                              *)
LEMMA RestartKeepsWire ==
  ASSUME WireInv, RestartServer
  PROVE  WireInv'
<1>1. /\ sessions' = [s \in SessionIds |-> Unbound] /\ requests' = {} /\ replies' = replies
  BY DEF RestartServer
<1>2. \A s \in SessionIds : sessions'[s] = Unbound
  BY <1>1
<1>3. Unbound.instance_id = NoId /\ Unbound.next_turn = 1 /\ DOMAIN Unbound.responses = {}
  BY DEF Unbound
<1>4. TypeOK'
  BY <1>1, <1>2, <1>3 DEF TypeOK, WireInv, TableInv
<1>5. SessionsArePrefixes'
  <2>1. 1 .. (1 - 1) = {}
    OBVIOUS
  <2> QED BY <1>2, <1>3, <2>1 DEF SessionsArePrefixes, Exists
<1>6. TableInv'
  BY <1>2, <1>4, <1>5 DEF TableInv
<1> QED BY <1>1, <1>6 DEF WireInv

-----------------------------------------------------------------------------
(* The guests.                                                             *)

(* A guest that goes off without having said REPLAY_DONE, whatever the     *)
(* reason, keeps what it has run.                                          *)
LEMMA GuestLeaves ==
  ASSUME GuestTypeOK, \A h \in Guests : OwnTrace(h),
         NEW g \in Guests, pc[g] \notin {"off"}, MoveTo(g, "off"),
         UNCHANGED <<stage, assigned, turn, attempt, body, ran>>,
         \/ UNCHANGED serial
         \/ \E m \in Markers \ {"REPLAY_DONE"} : Write(g, m)
  PROVE  GuestTypeOK' /\ \A h \in Guests : OwnTrace(h)'
<1>1. /\ pc' \in [Guests -> Labels] /\ pc'[g] = "off"
      /\ \A h \in Guests \ {g} : pc'[h] = pc[h]
  BY DEF GuestTypeOK, MoveTo, Labels
<1>2. /\ serial' \in [Guests -> SUBSET Markers]
      /\ \A h \in Guests : "REPLAY_DONE" \in serial'[h] <=> "REPLAY_DONE" \in serial[h]
  <2>1. CASE UNCHANGED serial
    BY <2>1 DEF GuestTypeOK
  <2>2. ASSUME NEW m \in Markers \ {"REPLAY_DONE"}, Write(g, m)
        PROVE  /\ serial' \in [Guests -> SUBSET Markers]
               /\ \A h \in Guests : "REPLAY_DONE" \in serial'[h] <=> "REPLAY_DONE" \in serial[h]
    BY <2>2 DEF GuestTypeOK, Write
  <2> QED BY <2>1, <2>2
<1>3. GuestTypeOK'
  BY <1>1, <1>2 DEF GuestTypeOK
<1>4. ASSUME NEW h \in Guests  PROVE OwnTrace(h)'
  <2>1. CASE h = g
    BY <1>1, <1>2, <2>1 DEF OwnTrace
  <2>2. CASE h # g
    BY <1>1, <1>2, <2>2 DEF OwnTrace, TellsTurn
  <2> QED BY <2>1, <2>2
<1> QED BY <1>3, <1>4

(* Steps of a guest that is not at its tools or at its end, and stays on.  *)
LEMMA GuestGoesOn ==
  ASSUME GuestTypeOK, \A h \in Guests : OwnTrace(h),
         NEW g \in Guests, pc[g] \in {"boot", "loop", "waiting"},
         NEW label \in {"loop", "waiting"}, MoveTo(g, label),
         label = "waiting" => turn[g] <= MaxTurns,
         UNCHANGED <<stage, assigned, turn, body, ran>>,
         attempt' \in [Guests -> 1 .. MaxAttempts],
         UNCHANGED serial \/ Write(g, "ARTIFACT_READY")
  PROVE  GuestTypeOK' /\ \A h \in Guests : OwnTrace(h)'
<1>1. /\ pc' \in [Guests -> Labels] /\ pc'[g] = label
      /\ \A h \in Guests \ {g} : pc'[h] = pc[h]
  BY DEF GuestTypeOK, MoveTo, Labels
<1>2. /\ serial' \in [Guests -> SUBSET Markers]
      /\ \A h \in Guests : "REPLAY_DONE" \in serial'[h] <=> "REPLAY_DONE" \in serial[h]
  <2>1. CASE UNCHANGED serial
    BY <2>1 DEF GuestTypeOK
  <2>2. CASE Write(g, "ARTIFACT_READY")
    BY <2>2 DEF GuestTypeOK, Write, Markers
  <2> QED BY <2>1, <2>2
<1>3. GuestTypeOK'
  BY <1>1, <1>2 DEF GuestTypeOK
<1>4. ASSUME NEW h \in Guests  PROVE OwnTrace(h)'
  <2>1. CASE h = g
    BY <1>1, <1>2, <2>1 DEF OwnTrace
  <2>2. CASE h # g
    BY <1>1, <1>2, <2>2 DEF OwnTrace, TellsTurn
  <2> QED BY <2>1, <2>2
<1> QED BY <1>3, <1>4

(* The next attempt, or the end after the last one.                        *)
LEMMA RetryKeeps ==
  ASSUME GuestInv, NEW g \in Guests, pc[g] = "waiting", Retry(g)
  PROVE  GuestInv'
<1>0. /\ GuestTypeOK /\ WireInv /\ \A h \in Guests : OwnTrace(h)
      /\ turn[g] <= MaxTurns /\ attempt[g] \in 1 .. MaxAttempts
  BY DEF GuestInv, GuestTypeOK
<1>1. CASE /\ attempt[g] < MaxAttempts
           /\ attempt' = [attempt EXCEPT ![g] = @ + 1]
           /\ requests' = requests \cup {Attempt(g, attempt[g] + 1)}
           /\ UNCHANGED <<sessions, replies, stage, assigned, pc, turn, body, ran, serial>>
  <2>1. attempt[g] + 1 \in 1 .. MaxAttempts
    BY <1>0, <1>1, GuestAssumption
  <2>2. WireInv'
    <3>1. /\ requests' \subseteq Request
          /\ \A r \in requests' : r.session_id \in Guests /\ r.instance_id \in Instances
      BY <1>0, <1>1, <2>1, AttemptIsRequest DEF WireInv, TableInv, TypeOK
    <3> QED BY <1>0, <1>1, <3>1, WireMoves
  <2>3. attempt' \in [Guests -> 1 .. MaxAttempts]
    BY <1>0, <1>1, <2>1 DEF GuestTypeOK
  <2>4. MoveTo(g, "waiting")
    BY <1>0, <1>1 DEF GuestTypeOK, MoveTo
  <2>5. GuestTypeOK' /\ \A h \in Guests : OwnTrace(h)'
    BY <1>0, <1>1, <2>3, <2>4, GuestGoesOn
  <2> QED BY <2>2, <2>5 DEF GuestInv
<1>2. CASE Fail(g) /\ UNCHANGED serviceVars
  <2>1. WireInv'
    BY <1>0, <1>2, WireMoves DEF serviceVars, WireInv, TableInv, TypeOK
  <2>2. GuestTypeOK' /\ \A h \in Guests : OwnTrace(h)'
    BY <1>0, <1>2, GuestLeaves DEF Fail, Markers
  <2> QED BY <2>1, <2>2 DEF GuestInv
<1> QED BY <1>1, <1>2 DEF Retry

(* A guest takes up the answer to its current attempt: it is the turn it   *)
(* asked for, of its own trajectory.                                       *)
LEMMA AcceptKeeps ==
  ASSUME GuestInv, NEW g \in Guests, AcceptReply(g)
  PROVE  GuestInv'
<1>0. /\ GuestTypeOK /\ WireInv /\ \A h \in Guests : OwnTrace(h)
      /\ pc[g] = "waiting" /\ turn[g] <= MaxTurns /\ MoveTo(g, "tools")
      /\ attempt[g] \in 1 .. MaxAttempts
      /\ UNCHANGED <<stage, assigned, turn, attempt, ran, serial, serviceVars>>
  BY DEF GuestInv, GuestTypeOK, AcceptReply
<1>1. PICK p \in replies : /\ p.request = Attempt(g, attempt[g]) /\ p.status = 200
                          /\ body' = [body EXCEPT ![g] = p.response]
  BY DEF AcceptReply, Arrived
<1>2. /\ p.response \in Response
      /\ TellsTurn(p.response, Workflows[assigned[g]], turn[g])
  BY <1>0, <1>1, AttemptIsRequest DEF WireInv
<1>3. WireInv'
  BY <1>0, WireMoves DEF serviceVars, WireInv, TableInv, TypeOK
<1>4. /\ pc' \in [Guests -> Labels] /\ pc'[g] = "tools"
      /\ \A h \in Guests \ {g} : pc'[h] = pc[h]
      /\ body' \in [Guests -> Response \cup {NoResponse}] /\ body'[g] = p.response
      /\ \A h \in Guests \ {g} : body'[h] = body[h]
  BY <1>0, <1>1, <1>2 DEF GuestTypeOK, MoveTo, Labels
<1>5. GuestTypeOK'
  BY <1>0, <1>4 DEF GuestTypeOK
<1>6. ASSUME NEW h \in Guests  PROVE OwnTrace(h)'
  <2>1. CASE h = g
    <3>1. TellsTurn(body[g], Workflows[assigned[g]], turn[g])'
      BY <1>0, <1>2, <1>4 DEF TellsTurn
    <3> QED BY <1>0, <1>4, <2>1, <3>1 DEF OwnTrace
  <2>2. CASE h # g
    BY <1>0, <1>4, <2>2 DEF OwnTrace, TellsTurn
  <2> QED BY <2>1, <2>2
<1> QED BY <1>3, <1>5, <1>6 DEF GuestInv

(* The commands of a turn are run, once: the guest has come one turn       *)
(* further, to its end if the answer said so.                              *)
LEMMA RunToolsKeeps ==
  ASSUME GuestInv, NEW g \in Guests, RunTools(g)
  PROVE  GuestInv'
<1> DEFINE trace == Workflows[assigned[g]]
<1>0. /\ GuestTypeOK /\ WireInv /\ \A h \in Guests : OwnTrace(h)
      /\ pc[g] = "tools" /\ turn[g] \in 1 .. MaxTurns /\ ran[g] \in Seq(Commands)
      /\ UNCHANGED <<stage, assigned, attempt, body, serial, serviceVars>>
      /\ ran' = [ran EXCEPT ![g] = Append(ran[g], body[g].commands)]
  BY GuestAssumption DEF GuestInv, GuestTypeOK, RunTools
<1>1. /\ turn[g] = Len(ran[g]) + 1 /\ turn[g] <= Len(trace)
      /\ body[g].commands = trace[turn[g]] /\ (body[g].done <=> turn[g] = Len(trace))
      /\ trace[turn[g]] \in Commands /\ Len(trace) \in Nat
      /\ \A n \in 1 .. Len(ran[g]) : ran[g][n] = trace[n]
      /\ "REPLAY_DONE" \notin serial[g]
  <2>1. TellsTurn(body[g], trace, turn[g]) /\ turn[g] = Len(ran[g]) + 1
        /\ \A n \in 1 .. Len(ran[g]) : ran[g][n] = trace[n]
    BY <1>0 DEF OwnTrace
  <2>2. "REPLAY_DONE" \notin serial[g]
    BY <1>0 DEF OwnTrace
  <2>3. assigned[g] \in Instances
    BY <1>0 DEF GuestTypeOK
  <2> QED BY <2>1, <2>2, <2>3, WorkflowFacts DEF TellsTurn
<1>2. /\ ran'[g] \in Seq(Commands) /\ Len(ran'[g]) = turn[g]
      /\ \A n \in 1 .. turn[g] : ran'[g][n] = trace[n]
      /\ \A h \in Guests \ {g} : ran'[h] = ran[h]
      /\ ran' \in [Guests -> Seq(Commands)]
  <2>1. ran'[g] = Append(ran[g], trace[turn[g]])
        /\ \A h \in Guests \ {g} : ran'[h] = ran[h]
    BY <1>0, <1>1 DEF GuestTypeOK
  <2>2. /\ ran'[g] \in Seq(Commands) /\ Len(ran'[g]) = Len(ran[g]) + 1
        /\ \A n \in 1 .. Len(ran[g]) : ran'[g][n] = ran[g][n]
        /\ ran'[g][Len(ran[g]) + 1] = trace[turn[g]]
    BY <1>0, <1>1, <2>1, AppendProperties
  <2>3. \A n \in 1 .. turn[g] : n \in 1 .. Len(ran[g]) \/ n = turn[g]
    BY <1>0, <1>1
  <2>4. \A n \in 1 .. turn[g] : ran'[g][n] = trace[n]
    BY <1>1, <2>2, <2>3
  <2>5. ran' \in [Guests -> Seq(Commands)]
    BY <1>0, <2>2 DEF GuestTypeOK
  <2> QED BY <1>1, <2>1, <2>2, <2>4, <2>5
<1>3. WireInv'
  BY <1>0, WireMoves DEF serviceVars, WireInv, TableInv, TypeOK
<1>4. ASSUME NEW h \in Guests \ {g}, pc'[h] = pc[h], turn'[h] = turn[h]
      PROVE  OwnTrace(h)'
  BY <1>0, <1>2, <1>4 DEF OwnTrace, TellsTurn
<1>5. CASE body[g].done
  <2>1. MoveTo(g, "finish") /\ UNCHANGED turn
    BY <1>5 DEF RunTools
  <2>2. /\ pc' \in [Guests -> Labels] /\ pc'[g] = "finish"
        /\ \A h \in Guests \ {g} : pc'[h] = pc[h]
    BY <1>0, <2>1 DEF GuestTypeOK, MoveTo, Labels
  <2>3. GuestTypeOK'
    BY <1>0, <1>2, <2>1, <2>2 DEF GuestTypeOK
  <2>4. OwnTrace(g)'
    BY <1>0, <1>1, <1>2, <1>5, <2>2 DEF OwnTrace
  <2> QED BY <1>3, <1>4, <2>1, <2>2, <2>3, <2>4 DEF GuestInv
<1>6. CASE ~body[g].done
  <2>1. MoveTo(g, "loop") /\ turn' = [turn EXCEPT ![g] = @ + 1]
    BY <1>6 DEF RunTools
  <2>2. /\ pc' \in [Guests -> Labels] /\ pc'[g] = "loop"
        /\ turn' \in [Guests -> 1 .. MaxTurns + 1] /\ turn'[g] = turn[g] + 1
        /\ \A h \in Guests \ {g} : pc'[h] = pc[h] /\ turn'[h] = turn[h]
    BY <1>0, <2>1, GuestAssumption DEF GuestTypeOK, MoveTo, Labels
  <2>3. GuestTypeOK'
    BY <1>0, <1>2, <2>2 DEF GuestTypeOK
  <2>4. turn[g] < Len(trace)
    BY <1>0, <1>1, <1>6
  <2>5. OwnTrace(g)'
    BY <1>0, <1>1, <1>2, <2>2, <2>4 DEF OwnTrace
  <2> QED BY <1>3, <1>4, <2>2, <2>3, <2>5 DEF GuestInv
<1> QED BY <1>5, <1>6

(* REPLAY_DONE is said when the whole trajectory was run.                  *)
LEMMA FinishKeeps ==
  ASSUME GuestInv, NEW g \in Guests, Finish(g)
  PROVE  GuestInv'
<1>0. /\ GuestTypeOK /\ WireInv /\ \A h \in Guests : OwnTrace(h)
      /\ pc[g] = "finish" /\ MoveTo(g, "off") /\ Write(g, "REPLAY_DONE")
      /\ UNCHANGED <<stage, assigned, turn, attempt, body, ran, serviceVars>>
  BY DEF GuestInv, Finish
<1>1. WireInv'
  BY <1>0, WireMoves DEF serviceVars, WireInv, TableInv, TypeOK
<1>2. /\ pc' \in [Guests -> Labels] /\ pc'[g] = "off"
      /\ serial' \in [Guests -> SUBSET Markers]
      /\ \A h \in Guests \ {g} : pc'[h] = pc[h] /\ serial'[h] = serial[h]
  BY <1>0 DEF GuestTypeOK, MoveTo, Write, Labels, Markers
<1>3. GuestTypeOK'
  BY <1>0, <1>2 DEF GuestTypeOK
<1>4. ASSUME NEW h \in Guests  PROVE OwnTrace(h)'
  <2>1. CASE h = g
    BY <1>0, <1>2, <2>1 DEF OwnTrace
  <2>2. CASE h # g
    BY <1>0, <1>2, <2>2 DEF OwnTrace, TellsTurn
  <2> QED BY <2>1, <2>2
<1> QED BY <1>1, <1>3, <1>4 DEF GuestInv

(* A step of the server or the network does not touch the guests.          *)
LEMMA GuestsUntouched ==
  ASSUME GuestInv, UNCHANGED guestVars
  PROVE  GuestTypeOK' /\ \A h \in Guests : OwnTrace(h)'
BY DEF GuestInv, GuestTypeOK, OwnTrace, TellsTurn, guestVars

(* Every step keeps the invariant.                                         *)
LEMMA GuestStepKeeps ==
  ASSUME GuestInv, NEW g \in Guests, GuestStep(g) \/ GuestFault(g)
  PROVE  GuestInv'
<1>0. GuestTypeOK /\ WireInv /\ \A h \in Guests : OwnTrace(h)
  BY DEF GuestInv
<1>1. ASSUME UNCHANGED serviceVars PROVE WireInv'
  BY <1>0, <1>1, WireMoves DEF serviceVars, WireInv, TableInv, TypeOK
<1>2. CASE ArtifactReady(g)
  <2>1. GuestTypeOK' /\ \A h \in Guests : OwnTrace(h)'
    BY <1>0, <1>2, GuestGoesOn DEF ArtifactReady, GuestTypeOK
  <2> QED BY <1>1, <1>2, <2>1 DEF ArtifactReady, GuestInv
<1>3. CASE BeginTurn(g)
  <2>1. 1 \in 1 .. MaxAttempts
    BY GuestAssumption
  <2>2. attempt' \in [Guests -> 1 .. MaxAttempts]
    BY <1>0, <1>3, <2>1 DEF BeginTurn, GuestTypeOK
  <2>3. GuestTypeOK' /\ \A h \in Guests : OwnTrace(h)'
    BY <1>0, <1>3, <2>2, GuestGoesOn DEF BeginTurn
  <2>4. /\ requests' \subseteq Request
        /\ \A r \in requests' : r.session_id \in Guests /\ r.instance_id \in Instances
    BY <1>0, <1>3, <2>1, AttemptIsRequest DEF BeginTurn, WireInv, TableInv, TypeOK
  <2>5. WireInv'
    BY <1>0, <1>3, <2>4, WireMoves DEF BeginTurn
  <2> QED BY <2>3, <2>5 DEF GuestInv
<1>4. CASE \/ TurnsExceeded(g) \/ RefusedReply(g) \/ ToolsRaise(g)
           \/ NetworkFails(g) \/ FetchFails(g) \/ StopVM(g)
  <2>1. /\ pc[g] # "off" /\ MoveTo(g, "off")
        /\ UNCHANGED <<stage, assigned, turn, attempt, body, ran>>
        /\ \/ UNCHANGED serial
           \/ \E m \in Markers \ {"REPLAY_DONE"} : Write(g, m)
    BY <1>4 DEF TurnsExceeded, RefusedReply, ToolsRaise, NetworkFails, FetchFails, StopVM,
                Fail, Markers
  <2>2. GuestTypeOK' /\ \A h \in Guests : OwnTrace(h)'
    BY <1>0, <2>1, GuestLeaves
  <2> QED BY <1>1, <1>4, <2>2
          DEF TurnsExceeded, RefusedReply, ToolsRaise, NetworkFails, FetchFails, StopVM, GuestInv
<1>5. CASE RetryAfterError(g) \/ TimeoutOnLoss(g) \/ TimeoutTooEarly(g)
  BY <1>5, RetryKeeps DEF RetryAfterError, TimeoutOnLoss, TimeoutTooEarly
<1> QED BY <1>2, <1>3, <1>4, <1>5, AcceptKeeps, RunToolsKeeps, FinishKeeps
        DEF GuestStep, GuestFault

(* The same of the server, the network and steps that change nothing.      *)
LEMMA GuestNextKeeps ==
  ASSUME GuestInv, [GuestNext]_vars
  PROVE  GuestInv'
<1>0. WireInv
  BY DEF GuestInv
<1>1. ASSUME NEW g \in Guests, GuestStep(g) \/ GuestFault(g)  PROVE GuestInv'
  BY <1>1, GuestStepKeeps
<1>2. ASSUME NEW r \in requests, Serve(r) \/ Overload(r) \/ Drop(r)  PROVE GuestInv'
  <2>1. UNCHANGED guestVars
    BY <1>2 DEF Serve, Overload, Drop
  <2>2. WireInv'
    <3>1. CASE Serve(r)
      BY <1>0, <3>1, HandleKeepsWire DEF Serve
    <3>2. CASE Overload(r)
      BY <1>0, <3>2, OverloadKeepsWire DEF Overload
    <3>3. CASE Drop(r)
      BY <1>0, <3>3, WireMoves DEF Drop, WireInv, TableInv, TypeOK
    <3> QED BY <1>2, <3>1, <3>2, <3>3
  <2> QED BY <2>1, <2>2, GuestsUntouched DEF GuestInv
<1>3. CASE RestartServer
  BY <1>0, <1>3, RestartKeepsWire, GuestsUntouched DEF RestartServer, GuestInv
<1>4. CASE UNCHANGED vars
  <2>1. WireInv'
    BY <1>0, <1>4, WireMoves DEF vars, serviceVars, WireInv, TableInv, TypeOK
  <2> QED BY <1>4, <2>1, GuestsUntouched DEF vars, GuestInv
<1> QED BY <1>1, <1>2, <1>3, <1>4 DEF GuestNext

(* The guests of a stage begin with nothing run.                           *)
LEMMA BootingFacts ==
  ASSUME NEW members, stage \in 1 .. MaxStages, assigned \in [Guests -> Instances],
         pc = Booting(members),
         turn = [g \in Guests |-> 1], attempt = [g \in Guests |-> 1],
         body = [g \in Guests |-> NoResponse], ran = [g \in Guests |-> <<>>],
         serial = [g \in Guests |-> {}]
  PROVE  GuestTypeOK /\ \A g \in Guests : OwnTrace(g)
<1>1. \A g \in Guests : /\ pc[g] \in {"boot", "absent"} /\ turn[g] = 1 /\ attempt[g] = 1
                        /\ ran[g] = <<>> /\ serial[g] = {} /\ assigned[g] \in Instances
  BY DEF Booting
<1>2. GuestTypeOK
  BY <1>1, GuestAssumption DEF GuestTypeOK, Booting, Labels
<1>3. ASSUME NEW g \in Guests  PROVE OwnTrace(g)
  <2>1. Len(Workflows[assigned[g]]) \in Nat \ {0} /\ Len(<<>>) = 0
    BY <1>1, WorkflowFacts
  <2> QED BY <1>1, <2>1 DEF OwnTrace
<1> QED BY <1>2, <1>3

(* The first stage.                                                        *)
LEMMA FirstStageFacts ==
  ASSUME NEW members, NEW assignments \in SUBSET [Guests -> Instances],
         FirstStage(members, assignments)
  PROVE  GuestInv
<1>1. GuestTypeOK /\ \A g \in Guests : OwnTrace(g)
  <2>1. 1 \in 1 .. MaxStages
    BY GuestAssumption
  <2> QED BY <2>1, BootingFacts DEF FirstStage
<1>2. WireInv
  <2>1. Init
    BY DEF FirstStage
  <2> QED BY <2>1, TableInit DEF Init, WireInv
<1> QED BY <1>1, <1>2 DEF GuestInv

(* A guest knows how far it is in its own trajectory.                      *)
THEOREM GuestInvariant == GuestSpec => []GuestInv
<1>1. GuestInit => GuestInv
  BY FirstStageFacts DEF GuestInit
<1>2. GuestInv /\ [GuestNext]_vars => GuestInv'
  BY GuestNextKeeps
<1> QED BY <1>1, <1>2, PTL DEF GuestSpec

-----------------------------------------------------------------------------
(* The refinement.                                                         *)

(* When two trajectories are as long as each other and agree, they are one.*)
LEMMA WholeTrace ==
  ASSUME GuestTypeOK, NEW g \in Guests, OwnTrace(g),
         Len(ran[g]) = Len(Workflows[assigned[g]])
  PROVE  ran[g] = Workflows[assigned[g]]
<1>1. ran[g] \in Seq(Commands) /\ assigned[g] \in Instances
  BY DEF GuestTypeOK
<1>2. Workflows[assigned[g]] \in Seq(Commands)
  BY <1>1, WorkflowsAssumption
<1>3. \A n \in 1 .. Len(ran[g]) : ran[g][n] = Workflows[assigned[g]][n]
  BY DEF OwnTrace
<1> QED BY <1>1, <1>2, <1>3, SeqEqual

(* What the host reads from a guest's serial log and its power state.      *)
LEMMA VerdictFacts ==
  ASSUME NEW g \in Guests
  PROVE  /\ "REPLAY_DONE" \in serial[g] => Verdict(g) = "complete"
         /\ "REPLAY_DONE" \notin serial[g] /\ pc[g] = "off" => Verdict(g) = "stopped"
         /\ "REPLAY_DONE" \notin serial[g] /\ pc[g] # "off" => Verdict(g) = "running"
BY DEF Verdict

(* The first state is one of TraceReplay's.                                *)
LEMMA ReplayStarts == GuestInit => Replay!Init
<1> SUFFICES ASSUME GuestInit PROVE Replay!Init
  OBVIOUS
<1>1. GuestInv
  BY FirstStageFacts DEF GuestInit
<1>2. \A g \in Guests : "REPLAY_DONE" \notin serial[g] /\ pc[g] # "off"
  BY DEF GuestInit, FirstStage, Booting
<1>3. \A g \in Guests : Verdict(g) = "running"
  BY <1>2, VerdictFacts
<1>4. assigned \in [Guests -> DOMAIN Workflows] /\ ran = [g \in Guests |-> <<>>]
  BY DEF GuestInit, FirstStage, Instances
<1> QED BY <1>3, <1>4 DEF Replay!Init

(* A step that leaves what was run and every verdict as they are.          *)
LEMMA ReplayStutters ==
  ASSUME UNCHANGED <<assigned, ran>>, \A g \in Guests : Verdict(g)' = Verdict(g)
  PROVE  UNCHANGED Replay!replayVars
<1>1. [g \in Guests |-> Verdict(g)]' = [g \in Guests |-> Verdict(g)]
  <2>1. [g \in Guests |-> Verdict(g)'] = [g \in Guests |-> Verdict(g)]
    OBVIOUS
  <2> QED BY <2>1
<1> QED BY <1>1 DEF Replay!replayVars

(* Going off without REPLAY_DONE is stopping.                              *)
LEMMA LeavingStops ==
  ASSUME GuestInv, NEW g \in Guests, pc[g] # "off", MoveTo(g, "off"),
         UNCHANGED <<assigned, ran>>,
         \/ UNCHANGED serial
         \/ \E m \in Markers \ {"REPLAY_DONE"} : Write(g, m)
  PROVE  Replay!Stop(g)
<1>1. /\ pc'[g] = "off" /\ \A h \in Guests \ {g} : pc'[h] = pc[h]
      /\ \A h \in Guests : "REPLAY_DONE" \in serial'[h] <=> "REPLAY_DONE" \in serial[h]
  BY DEF GuestInv, GuestTypeOK, MoveTo, Write
<1>2. "REPLAY_DONE" \notin serial[g]
  BY DEF GuestInv, OwnTrace
<1>3. Verdict(g) = "running" /\ Verdict(g)' = "stopped"
  BY <1>1, <1>2, VerdictFacts DEF Verdict
<1>4. \A h \in Guests \ {g} : Verdict(h)' = Verdict(h)
  BY <1>1 DEF Verdict
<1>5. [h \in Guests |-> Verdict(h)]'
        = [[h \in Guests |-> Verdict(h)] EXCEPT ![g] = "stopped"]
  <2>1. [h \in Guests |-> Verdict(h)']
          = [[h \in Guests |-> Verdict(h)] EXCEPT ![g] = "stopped"]
    BY <1>3, <1>4
  <2> QED BY <2>1
<1> QED BY <1>3, <1>5 DEF Replay!Stop

(* Running the commands of an answer is running the trajectory's next turn.*)
LEMMA ToolsExecuteTurn ==
  ASSUME GuestInv, NEW g \in Guests, RunTools(g)
  PROVE  Replay!ExecuteTurn(g)
<1> DEFINE trace == Workflows[assigned[g]]
<1>1. /\ pc[g] = "tools" /\ turn[g] = Len(ran[g]) + 1 /\ Len(ran[g]) < Len(trace)
      /\ body[g].commands = trace[turn[g]]
      /\ "REPLAY_DONE" \notin serial[g]
      /\ UNCHANGED <<assigned, serial>>
  BY DEF GuestInv, OwnTrace, TellsTurn, RunTools
<1>2. /\ pc'[g] # "off" /\ \A h \in Guests \ {g} : pc'[h] = pc[h]
      /\ ran' = [ran EXCEPT ![g] = Append(@, trace[Len(@) + 1])]
  BY <1>1 DEF GuestInv, GuestTypeOK, RunTools, MoveTo
<1>3. Verdict(g) = "running" /\ Verdict(g)' = "running"
  BY <1>1, <1>2, VerdictFacts DEF Verdict
<1>4. \A h \in Guests : Verdict(h)' = Verdict(h)
  BY <1>1, <1>2, <1>3 DEF Verdict
<1>5. [h \in Guests |-> Verdict(h)]' = [h \in Guests |-> Verdict(h)]
  <2>1. [h \in Guests |-> Verdict(h)'] = [h \in Guests |-> Verdict(h)]
    BY <1>4
  <2> QED BY <2>1
<1> QED BY <1>1, <1>2, <1>3, <1>5 DEF Replay!ExecuteTurn, Replay!Trace

(* Saying REPLAY_DONE is completing.                                       *)
LEMMA FinishCompletes ==
  ASSUME GuestInv, NEW g \in Guests, Finish(g)
  PROVE  Replay!Complete(g)
<1>1. /\ pc[g] = "finish" /\ "REPLAY_DONE" \notin serial[g]
      /\ Len(ran[g]) = Len(Workflows[assigned[g]])
      /\ UNCHANGED <<assigned, ran>>
  BY DEF GuestInv, OwnTrace, Finish
<1>2. ran[g] = Workflows[assigned[g]]
  BY <1>1, WholeTrace DEF GuestInv
<1>3. /\ "REPLAY_DONE" \in serial'[g]
      /\ \A h \in Guests \ {g} : pc'[h] = pc[h] /\ serial'[h] = serial[h]
  BY DEF GuestInv, GuestTypeOK, Finish, MoveTo, Write
<1>4. Verdict(g) = "running" /\ Verdict(g)' = "complete"
  BY <1>1, <1>3, VerdictFacts DEF Verdict
<1>5. \A h \in Guests \ {g} : Verdict(h)' = Verdict(h)
  BY <1>3 DEF Verdict
<1>6. [h \in Guests |-> Verdict(h)]'
        = [[h \in Guests |-> Verdict(h)] EXCEPT ![g] = "complete"]
  <2>1. [h \in Guests |-> Verdict(h)']
          = [[h \in Guests |-> Verdict(h)] EXCEPT ![g] = "complete"]
    BY <1>4, <1>5
  <2> QED BY <2>1
<1> QED BY <1>1, <1>2, <1>4, <1>6 DEF Replay!Complete, Replay!Trace

(* A guest that goes on without running anything shows nothing new.        *)
LEMMA GoingOnStutters ==
  ASSUME GuestInv, NEW g \in Guests, pc[g] # "off", NEW label \in Labels \ {"off"},
         MoveTo(g, label) \/ UNCHANGED pc,
         UNCHANGED <<assigned, ran>>,
         UNCHANGED serial \/ Write(g, "ARTIFACT_READY")
  PROVE  UNCHANGED Replay!replayVars
<1>1. \A h \in Guests : (pc'[h] = "off" <=> pc[h] = "off")
  BY DEF GuestInv, GuestTypeOK, MoveTo
<1>2. \A h \in Guests : "REPLAY_DONE" \in serial'[h] <=> "REPLAY_DONE" \in serial[h]
  <2>1. CASE UNCHANGED serial
    BY <2>1
  <2>2. CASE Write(g, "ARTIFACT_READY")
    BY <2>2 DEF GuestInv, GuestTypeOK, Write
  <2> QED BY <2>1, <2>2
<1>3. \A h \in Guests : Verdict(h)' = Verdict(h)
  BY <1>1, <1>2 DEF Verdict
<1> QED BY <1>3, ReplayStutters

(* Every step of the guests, the server and the network is a step of the   *)
(* replay, or changes nothing a replay consists of.                        *)
LEMMA ReplaySteps ==
  ASSUME GuestInv, [GuestNext]_vars
  PROVE  [Replay!Next]_(Replay!replayVars)
<1>1. ASSUME NEW g \in Guests, GuestStep(g) \/ GuestFault(g)
      PROVE  [Replay!Next]_(Replay!replayVars)
  <2>1. CASE \/ TurnsExceeded(g) \/ RefusedReply(g) \/ ToolsRaise(g)
             \/ NetworkFails(g) \/ FetchFails(g) \/ StopVM(g)
    <3>1. /\ pc[g] # "off" /\ MoveTo(g, "off")
          /\ UNCHANGED <<assigned, ran>>
          /\ \/ UNCHANGED serial
             \/ \E m \in Markers \ {"REPLAY_DONE"} : Write(g, m)
      BY <2>1 DEF TurnsExceeded, RefusedReply, ToolsRaise, NetworkFails, FetchFails, StopVM,
                  Fail, Markers
    <3> QED BY <3>1, LeavingStops DEF Replay!Next
  <2>2. CASE ArtifactReady(g) \/ BeginTurn(g) \/ AcceptReply(g)
    <3>1. /\ pc[g] # "off" /\ UNCHANGED <<assigned, ran>>
          /\ \E label \in {"loop", "waiting", "tools"} : MoveTo(g, label)
          /\ UNCHANGED serial \/ Write(g, "ARTIFACT_READY")
      BY <2>2 DEF ArtifactReady, BeginTurn, AcceptReply
    <3> QED BY <3>1, GoingOnStutters DEF Labels
  <2>3. CASE RetryAfterError(g) \/ TimeoutOnLoss(g) \/ TimeoutTooEarly(g)
    <3>1. pc[g] = "waiting" /\ Retry(g)
      BY <2>3 DEF RetryAfterError, TimeoutOnLoss, TimeoutTooEarly
    <3>2. CASE Fail(g)
      <4>1. Replay!Stop(g)
        BY <3>1, <3>2, LeavingStops DEF Fail, Markers
      <4> QED BY <4>1 DEF Replay!Next
    <3>3. CASE UNCHANGED <<assigned, pc, ran, serial>>
      BY <3>1, <3>3, GoingOnStutters DEF Labels
    <3> QED BY <3>1, <3>2, <3>3 DEF Retry
  <2> QED BY <1>1, <2>1, <2>2, <2>3, ToolsExecuteTurn, FinishCompletes
          DEF GuestStep, GuestFault, Replay!Next
<1>2. CASE UNCHANGED guestVars
  <2>1. \A h \in Guests : Verdict(h)' = Verdict(h)
    BY <1>2 DEF Verdict, guestVars
  <2> QED BY <1>2, <2>1, ReplayStutters DEF guestVars
<1>3. CASE \E r \in requests : Serve(r) \/ Overload(r) \/ Drop(r)
  BY <1>2, <1>3 DEF Serve, Overload, Drop
<1>4. CASE RestartServer
  BY <1>2, <1>4 DEF RestartServer
<1>5. CASE UNCHANGED vars
  BY <1>2, <1>5 DEF vars
<1> QED BY <1>1, <1>3, <1>4, <1>5 DEF GuestNext

(* Behind lost, late, repeated and reordered exchanges, restarts of the    *)
(* server and failing guests, every guest runs its own trajectory's turns, *)
(* each once and in order: request_turn, main and inference implement the  *)
(* replay that TraceReplay promises, for every corpus and any faults.      *)
THEOREM ReplayImplemented == GuestSpec => ReplayIsExact
<1>1. GuestInit => Replay!Init
  BY ReplayStarts
<1>2. GuestInv /\ [GuestNext]_vars => [Replay!Next]_(Replay!replayVars)
  BY ReplaySteps
<1> QED BY <1>1, <1>2, GuestInvariant, PTL DEF GuestSpec, ReplayIsExact, Replay!Spec

-----------------------------------------------------------------------------
(* The server and the guests, as long as the server was not restarted.     *)

(* The server handles a request: it moves on for the turn that was asked   *)
(* for, and only then.                                                     *)
LEMMA HandleStaysAhead ==
  ASSUME GuestInv, AskedInTurn, AnsweredIsKnown, \A g \in Guests : InStep(g),
         NEW r \in requests, Serve(r)
  PROVE  AskedInTurn' /\ AnsweredIsKnown' /\ \A g \in Guests : InStep(g)'
<1>0. /\ GuestTypeOK /\ TableInv /\ r \in Request /\ r.session_id \in Guests
      /\ r.instance_id \in Instances /\ UNCHANGED guestVars /\ Handle(r)
      /\ r.turn <= Len(ran[r.session_id]) + 1
      /\ \A g \in Guests : Len(ran[g]) \in Nat /\ turn[g] \in Nat
                          /\ sessions[g].next_turn \in Nat \ {0}
  BY GuestAssumption
     DEF GuestInv, GuestTypeOK, WireInv, TableInv, TypeOK, Serve, AskedInTurn, Guests
<1>1. requests' \subseteq requests
  BY <1>0 DEF Handle, RejectMalformed, RejectUnknown, RejectRebind, ServeCached, RejectTurn,
              ServeNext, Answer
<1>2. AskedInTurn'
  BY <1>0, <1>1 DEF AskedInTurn, guestVars
<1>3. ASSUME sessions' = sessions  PROVE \A g \in Guests : InStep(g)'
  BY <1>0, <1>3 DEF InStep, Exists, guestVars
<1>4. ASSUME sessions' = sessions, NEW status \in {400, 404, 409}, NEW response,
             Answer(r, status, response)
      PROVE  AnsweredIsKnown'
  BY <1>4 DEF AnsweredIsKnown, Answer, Exists
<1>5. CASE RejectMalformed(r) \/ RejectUnknown(r) \/ RejectRebind(r)
  BY <1>2, <1>3, <1>4, <1>5 DEF RejectMalformed, RejectUnknown, RejectRebind
<1>6. CASE ServeCached(r)
  <2>1. /\ Admissible(r) /\ r.turn \in DOMAIN Opened(r).responses /\ sessions' = sessions
        /\ Answer(r, 200, Opened(r).responses[r.turn])
    BY <1>6 DEF ServeCached
  <2>2. Exists(r.session_id)
    <3>1. DOMAIN <<>> = {}
      OBVIOUS
    <3> QED BY <1>0, <2>1, <3>1, OpenedFacts
  <2>3. r.turn < sessions[r.session_id].next_turn
    BY <1>0, <2>1, <2>2, OpenedFacts
  <2>4. AnsweredIsKnown'
    BY <1>0, <2>1, <2>2, <2>3 DEF AnsweredIsKnown, Answer, Exists
  <2> QED BY <1>2, <1>3, <2>1, <2>4
<1>7. ASSUME Admissible(r), NEW state, state.instance_id \in Instances,
             state.next_turn \in Nat \ {0},
             sessions' = [sessions EXCEPT ![r.session_id] = state],
             Exists(r.session_id) => sessions[r.session_id].next_turn <= state.next_turn,
             state.next_turn <= Len(ran[r.session_id]) + 2
      PROVE  /\ \A g \in Guests : InStep(g)'
             /\ \A p \in replies :
                  p.status = 200 => /\ p.request.session_id \in Guests
                                    /\ Exists(p.request.session_id)'
                                    /\ p.request.turn < sessions'[p.request.session_id].next_turn
  <2>1. /\ sessions'[r.session_id] = state /\ state.instance_id # NoId
        /\ \A g \in Guests \ {r.session_id} : sessions'[g] = sessions[g]
    BY <1>0, <1>7, WorkflowFacts DEF TableInv, TypeOK, Guests
  <2>2. ASSUME NEW g \in Guests  PROVE InStep(g)'
    <3>1. CASE g = r.session_id
      <4>1. Exists(g)'
        BY <2>1, <3>1 DEF Exists
      <4>2. CASE Exists(g)
        BY <1>0, <1>7, <2>1, <3>1, <4>1, <4>2 DEF InStep, guestVars
      <4>3. CASE ~Exists(g)
        <5>1. ran[g] = <<>> /\ Len(<<>>) = 0 /\ pc[g] # "tools"
          BY <4>3 DEF InStep
        <5> QED BY <1>0, <1>7, <2>1, <3>1, <4>1, <5>1 DEF InStep, guestVars
      <4> QED BY <4>2, <4>3
    <3>2. CASE g # r.session_id
      BY <1>0, <2>1, <3>2 DEF InStep, Exists, guestVars
    <3> QED BY <3>1, <3>2
  <2>3. ASSUME NEW p \in replies, p.status = 200
        PROVE  /\ p.request.session_id \in Guests /\ Exists(p.request.session_id)'
               /\ p.request.turn < sessions'[p.request.session_id].next_turn
    <3>1. /\ p.request.session_id \in Guests /\ Exists(p.request.session_id)
          /\ p.request.turn < sessions[p.request.session_id].next_turn
      BY <2>3 DEF AnsweredIsKnown
    <3>2. p.request.turn \in Int
      BY <2>3, IdsAssumption DEF TableInv, TypeOK, Reply, Request, GuestInv, WireInv
    <3>3. CASE p.request.session_id = r.session_id
      BY <1>0, <1>7, <2>1, <3>1, <3>2, <3>3 DEF Exists
    <3>4. CASE p.request.session_id # r.session_id
      BY <2>1, <3>1, <3>4 DEF Exists
    <3> QED BY <3>1, <3>3, <3>4
  <2> QED BY <2>2, <2>3
<1>8. CASE RejectTurn(r)
  <2>1. /\ Admissible(r) /\ sessions' = [sessions EXCEPT ![r.session_id] = Opened(r)]
        /\ Answer(r, 409, NoResponse)
    BY <1>8 DEF RejectTurn
  <2>2. Opened(r).instance_id \in Instances /\ Opened(r).next_turn \in Nat \ {0}
    BY <1>0, <2>1, OpenedFacts
  <2>3. /\ Exists(r.session_id) => sessions[r.session_id].next_turn <= Opened(r).next_turn
        /\ Opened(r).next_turn <= Len(ran[r.session_id]) + 2
    <3>1. CASE Exists(r.session_id)
      BY <1>0, <2>1, <3>1, OpenedFacts DEF InStep
    <3>2. CASE ~Exists(r.session_id)
      BY <1>0, <3>2 DEF Opened, Unbound
    <3> QED BY <3>1, <3>2
  <2>4. /\ \A g \in Guests : InStep(g)'
        /\ \A p \in replies :
             p.status = 200 => /\ p.request.session_id \in Guests
                               /\ Exists(p.request.session_id)'
                               /\ p.request.turn < sessions'[p.request.session_id].next_turn
    BY <1>7, <2>1, <2>2, <2>3
  <2>5. AnsweredIsKnown'
    BY <2>1, <2>4 DEF AnsweredIsKnown, Answer, Exists
  <2> QED BY <1>2, <2>4, <2>5
<1>9. CASE ServeNext(r)
  <2> DEFINE a == Advance(Opened(r))
  <2>1. /\ Admissible(r) /\ r.turn = Opened(r).next_turn
        /\ r.turn <= Len(Workflows[Opened(r).instance_id])
        /\ sessions' = [sessions EXCEPT ![r.session_id] = a]
        /\ Answer(r, 200, Build(Opened(r), r.turn))
    BY <1>9 DEF ServeNext
  <2>2. /\ a.instance_id \in Instances /\ a.next_turn = r.turn + 1
        /\ r.turn \in Nat \ {0} /\ a.next_turn \in Nat \ {0}
    <3>1. /\ a.instance_id \in Instances /\ a.next_turn = r.turn + 1
          /\ r.turn \in Nat \ {0}
      BY <1>0, <2>1, OpenedFacts, AdvanceFacts
    <3> QED BY <3>1
  <2>3. /\ Exists(r.session_id) => sessions[r.session_id].next_turn <= a.next_turn
        /\ a.next_turn <= Len(ran[r.session_id]) + 2
    BY <1>0, <2>1, <2>2, OpenedFacts
  <2> HIDE DEF a
  <2>4. /\ \A g \in Guests : InStep(g)'
        /\ \A p \in replies :
             p.status = 200 => /\ p.request.session_id \in Guests
                               /\ Exists(p.request.session_id)'
                               /\ p.request.turn < sessions'[p.request.session_id].next_turn
    BY <1>7, <2>1, <2>2, <2>3
  <2>5. Exists(r.session_id)' /\ r.turn < sessions'[r.session_id].next_turn
    BY <1>0, <2>1, <2>2, WorkflowFacts DEF Exists, TableInv, TypeOK, Guests
  <2>6. AnsweredIsKnown'
    BY <1>0, <2>1, <2>4, <2>5 DEF AnsweredIsKnown, Answer
  <2> QED BY <1>2, <2>4, <2>6
<1> QED BY <1>0, <1>5, <1>6, <1>8, <1>9 DEF Handle

(* A guest asks, again or for the first time, or goes off.                 *)
LEMMA AskingStaysAhead ==
  ASSUME GuestInv, AskedInTurn, AnsweredIsKnown, \A h \in Guests : InStep(h),
         NEW g \in Guests, pc[g] \in {"boot", "loop", "waiting", "tools", "finish"},
         \/ UNCHANGED pc
         \/ \E label \in Labels \ {"tools"} : MoveTo(g, label),
         UNCHANGED <<sessions, replies, turn, ran>>,
         \/ UNCHANGED requests
         \/ /\ pc[g] \in {"loop", "waiting"} /\ turn[g] <= MaxTurns
            /\ \E n \in 1 .. MaxAttempts : requests' = requests \cup {Attempt(g, n)}
  PROVE  AskedInTurn' /\ AnsweredIsKnown' /\ \A h \in Guests : InStep(h)'
<1>0. GuestTypeOK /\ OwnTrace(g)
  BY DEF GuestInv
<1>1. AskedInTurn'
  <2>1. CASE UNCHANGED requests
    BY <2>1 DEF AskedInTurn
  <2>2. ASSUME pc[g] \in {"loop", "waiting"}, turn[g] <= MaxTurns,
               NEW n \in 1 .. MaxAttempts, requests' = requests \cup {Attempt(g, n)}
        PROVE  AskedInTurn'
    <3>1. Attempt(g, n).session_id = g /\ Attempt(g, n).turn = Len(ran[g]) + 1
      BY <1>0, <2>2, AttemptIsRequest DEF OwnTrace
    <3>2. Len(ran[g]) + 1 <= Len(ran[g]) + 1
      BY <1>0 DEF GuestTypeOK
    <3> QED BY <2>2, <3>1, <3>2 DEF AskedInTurn
  <2> QED BY <2>1, <2>2
<1>2. AnsweredIsKnown'
  BY DEF AnsweredIsKnown, Exists
<1>3. \A h \in Guests : pc'[h] = "tools" => pc[h] = "tools"
  BY <1>0 DEF GuestTypeOK, MoveTo
<1>4. \A h \in Guests : InStep(h)'
  BY <1>3 DEF InStep, Exists
<1> QED BY <1>1, <1>2, <1>4

(* A guest takes up an answer: the server knows that turn.                 *)
LEMMA AcceptStaysAhead ==
  ASSUME GuestInv, AskedInTurn, AnsweredIsKnown, \A h \in Guests : InStep(h),
         NEW g \in Guests, AcceptReply(g)
  PROVE  AskedInTurn' /\ AnsweredIsKnown' /\ \A h \in Guests : InStep(h)'
<1>0. /\ GuestTypeOK /\ pc[g] = "waiting" /\ MoveTo(g, "tools") /\ turn[g] <= MaxTurns
      /\ UNCHANGED <<turn, ran, sessions, replies, requests>>
      /\ attempt[g] \in 1 .. MaxAttempts
  BY DEF GuestInv, GuestTypeOK, AcceptReply, serviceVars
<1>1. PICK p \in replies : p.request = Attempt(g, attempt[g]) /\ p.status = 200
  BY DEF AcceptReply, Arrived
<1>2. Exists(g) /\ turn[g] < sessions[g].next_turn
  BY <1>0, <1>1, AttemptIsRequest DEF AnsweredIsKnown
<1>3. AskedInTurn' /\ AnsweredIsKnown'
  BY <1>0 DEF AskedInTurn, AnsweredIsKnown, Exists
<1>4. \A h \in Guests : pc'[h] = "tools" => pc[h] = "tools" \/ h = g
  BY <1>0 DEF GuestTypeOK, MoveTo
<1>5. \A h \in Guests : InStep(h)'
  BY <1>0, <1>2, <1>4 DEF InStep, Exists
<1> QED BY <1>3, <1>5

(* A guest runs a turn: it catches up with the server.                     *)
LEMMA ToolsStayAhead ==
  ASSUME GuestInv, AskedInTurn, AnsweredIsKnown, \A h \in Guests : InStep(h),
         NEW g \in Guests, RunTools(g)
  PROVE  AskedInTurn' /\ AnsweredIsKnown' /\ \A h \in Guests : InStep(h)'
<1>0. /\ GuestTypeOK /\ OwnTrace(g) /\ pc[g] = "tools"
      /\ UNCHANGED <<sessions, replies, requests>>
      /\ Len(ran[g]) \in Nat /\ turn[g] = Len(ran[g]) + 1
      /\ Exists(g) /\ turn[g] < sessions[g].next_turn
      /\ sessions[g].next_turn \in Nat
      /\ \A r \in requests : r.turn \in Int /\ r.session_id \in Guests
  BY IdsAssumption
     DEF GuestInv, GuestTypeOK, OwnTrace, RunTools, serviceVars, InStep, WireInv, TableInv,
         TypeOK, Request, Guests
<1>1. /\ Len(ran'[g]) = Len(ran[g]) + 1
      /\ \A h \in Guests \ {g} : ran'[h] = ran[h] /\ turn'[h] = turn[h] /\ pc'[h] = pc[h]
      /\ pc'[g] # "tools"
  <2>1. ran'[g] = Append(ran[g], body[g].commands)
    BY <1>0 DEF GuestTypeOK, RunTools
  <2>2. body[g].commands \in Commands
    <3>1. turn[g] \in 1 .. Len(Workflows[assigned[g]]) /\ assigned[g] \in Instances
          /\ body[g].commands = Workflows[assigned[g]][turn[g]]
      BY <1>0 DEF OwnTrace, TellsTurn, GuestTypeOK
    <3> QED BY <3>1, WorkflowFacts
  <2>3. Len(ran'[g]) = Len(ran[g]) + 1
    BY <1>0, <2>1, <2>2, AppendProperties DEF GuestTypeOK
  <2>4. \A h \in Guests \ {g} : ran'[h] = ran[h] /\ turn'[h] = turn[h] /\ pc'[h] = pc[h]
    BY <1>0 DEF GuestTypeOK, RunTools, MoveTo
  <2>5. pc'[g] # "tools"
    BY <1>0 DEF GuestTypeOK, RunTools, MoveTo
  <2> QED BY <2>3, <2>4, <2>5
<1>2. AskedInTurn'
  <2>1. ASSUME NEW r \in requests  PROVE r.turn <= Len(ran'[r.session_id]) + 1
    <3>1. r.turn <= Len(ran[r.session_id]) + 1 /\ r.session_id \in Guests /\ r.turn \in Int
      BY <1>0 DEF AskedInTurn
    <3>2. CASE r.session_id = g
      BY <1>0, <1>1, <3>1, <3>2
    <3>3. CASE r.session_id # g
      BY <1>1, <3>1, <3>3
    <3> QED BY <3>2, <3>3
  <2> QED BY <1>0, <2>1 DEF AskedInTurn
<1>3. AnsweredIsKnown'
  BY <1>0 DEF AnsweredIsKnown, Exists
<1>4. ASSUME NEW h \in Guests  PROVE InStep(h)'
  <2>1. CASE h = g
    <3>1. sessions[g].next_turn <= Len(ran[g]) + 2
      BY <1>0 DEF InStep
    <3> QED BY <1>0, <1>1, <2>1, <3>1 DEF InStep, Exists
  <2>2. CASE h # g
    BY <1>0, <1>1, <2>2 DEF InStep, Exists
  <2> QED BY <2>1, <2>2
<1> QED BY <1>2, <1>3, <1>4

(* No step separates them, but for a restart of the server.                *)
LEMMA StayingAhead ==
  ASSUME GuestInv, AheadInv, [GuestNext]_vars
  PROVE  AheadInv'
<1> SUFFICES ASSUME "restart" \notin met'
             PROVE  AskedInTurn' /\ AnsweredIsKnown' /\ \A g \in Guests : InStep(g)'
  BY DEF AheadInv
<1>0. "restart" \notin met
  BY DEF GuestNext, GuestStep, GuestFault, ArtifactReady, BeginTurn, TurnsExceeded, AcceptReply,
         RefusedReply, RetryAfterError, TimeoutOnLoss, RunTools, Finish, NetworkFails,
         FetchFails, TimeoutTooEarly, ToolsRaise, StopVM, Serve, Overload, Drop, RestartServer,
         Fault, faultVars, vars
<1>1. AskedInTurn /\ AnsweredIsKnown /\ \A g \in Guests : InStep(g)
  BY <1>0 DEF AheadInv
<1>2. ASSUME NEW g \in Guests, GuestStep(g) \/ GuestFault(g)
      PROVE  AskedInTurn' /\ AnsweredIsKnown' /\ \A h \in Guests : InStep(h)'
  <2>0. GuestTypeOK
    BY DEF GuestInv
  <2>1. CASE \/ TurnsExceeded(g) \/ RefusedReply(g) \/ ToolsRaise(g) \/ ArtifactReady(g)
             \/ NetworkFails(g) \/ FetchFails(g) \/ StopVM(g) \/ Finish(g)
    <3>1. /\ pc[g] \in {"boot", "loop", "waiting", "tools", "finish"}
          /\ \E label \in Labels \ {"tools"} : MoveTo(g, label)
          /\ UNCHANGED <<sessions, replies, requests, turn, ran>>
      BY <2>0, <2>1
         DEF TurnsExceeded, RefusedReply, ToolsRaise, ArtifactReady, NetworkFails, FetchFails,
             StopVM, Finish, Fail, Labels, serviceVars, GuestTypeOK
    <3> QED BY <1>1, <3>1, AskingStaysAhead
  <2>2. CASE BeginTurn(g)
    <3>1. /\ pc[g] \in {"loop", "waiting"} /\ turn[g] <= MaxTurns /\ 1 \in 1 .. MaxAttempts
          /\ requests' = requests \cup {Attempt(g, 1)}
          /\ \E label \in Labels \ {"tools"} : MoveTo(g, label)
          /\ UNCHANGED <<sessions, replies, turn, ran>>
      BY <2>2, GuestAssumption DEF BeginTurn, Labels
    <3> QED BY <1>1, <3>1, AskingStaysAhead
  <2>3. CASE RetryAfterError(g) \/ TimeoutOnLoss(g) \/ TimeoutTooEarly(g)
    <3>1. /\ pc[g] = "waiting" /\ Retry(g) /\ turn[g] <= MaxTurns
          /\ attempt[g] \in 1 .. MaxAttempts
      BY <2>0, <2>3 DEF RetryAfterError, TimeoutOnLoss, TimeoutTooEarly, GuestTypeOK
    <3>2. CASE Fail(g) /\ UNCHANGED serviceVars
      <4>1. /\ \E label \in Labels \ {"tools"} : MoveTo(g, label)
            /\ UNCHANGED <<sessions, replies, requests, turn, ran>>
        BY <3>2 DEF Fail, Labels, serviceVars
      <4> QED BY <1>1, <3>1, <4>1, AskingStaysAhead
    <3>3. CASE /\ attempt[g] < MaxAttempts
               /\ requests' = requests \cup {Attempt(g, attempt[g] + 1)}
               /\ UNCHANGED <<sessions, replies, pc, turn, ran>>
      <4>1. attempt[g] + 1 \in 1 .. MaxAttempts
        BY <3>1, <3>3, GuestAssumption
      <4> QED BY <1>1, <3>1, <3>3, <4>1, AskingStaysAhead
    <3> QED BY <3>1, <3>2, <3>3 DEF Retry
  <2> QED BY <1>1, <1>2, <2>1, <2>2, <2>3, AcceptStaysAhead, ToolsStayAhead
          DEF GuestStep, GuestFault
<1>3. ASSUME requests' \subseteq requests, UNCHANGED <<sessions, pc, turn, ran>>,
             \A p \in replies' : p \in replies \/ p.status # 200
      PROVE  AskedInTurn' /\ AnsweredIsKnown' /\ \A g \in Guests : InStep(g)'
  BY <1>1, <1>3 DEF AskedInTurn, AnsweredIsKnown, InStep, Exists
<1>4. ASSUME NEW r \in requests, Overload(r) \/ Drop(r)
      PROVE  AskedInTurn' /\ AnsweredIsKnown' /\ \A g \in Guests : InStep(g)'
  BY <1>3, <1>4 DEF Overload, Drop, Answer, guestVars
<1>5. ~RestartServer
  BY DEF RestartServer, Fault
<1>6. CASE UNCHANGED vars
  BY <1>3, <1>6 DEF vars, serviceVars, guestVars
<1> QED BY <1>1, <1>2, <1>4, <1>5, <1>6, HandleStaysAhead DEF GuestNext

(* However many attempts of however many guests are in flight, a server    *)
(* that keeps its sessions is at its guest's turn or one ahead.            *)
THEOREM OneAhead == GuestSpec => []ServerOneAhead
<1>1. GuestInit => AheadInv
  <2> SUFFICES ASSUME GuestInit PROVE AskedInTurn /\ AnsweredIsKnown /\ \A g \in Guests : InStep(g)
    BY DEF AheadInv
  <2>1. /\ requests = {} /\ replies = {} /\ \A g \in Guests : ~Exists(g) /\ ran[g] = <<>>
                                                         /\ pc[g] # "tools"
    BY DEF GuestInit, FirstStage, Init, Unbound, Exists, Booting, Guests
  <2> QED BY <2>1 DEF AskedInTurn, AnsweredIsKnown, InStep
<1>2. GuestInv /\ AheadInv /\ [GuestNext]_vars => AheadInv'
  BY StayingAhead
<1>3. GuestInv /\ AheadInv => ServerOneAhead
  <2> SUFFICES ASSUME GuestInv, AheadInv, "restart" \notin met, NEW g \in Guests, Exists(g)
               PROVE  sessions[g].next_turn - 1 \in {Len(ran[g]), Len(ran[g]) + 1}
    BY DEF ServerOneAhead
  <2>1. Len(ran[g]) \in Nat /\ sessions[g].next_turn \in Nat
    BY DEF GuestInv, GuestTypeOK, WireInv, TableInv, TypeOK, Guests
  <2>2. sessions[g].next_turn <= Len(ran[g]) + 2 /\ Len(ran[g]) < sessions[g].next_turn
    BY DEF AheadInv, InStep
  <2> QED BY <2>1, <2>2
<1> QED BY <1>1, <1>2, <1>3, GuestInvariant, PTL DEF GuestSpec

(***************************************************************************)
(* The experiment: stage after stage.                                      *)
(***************************************************************************)

(* The guests of the stage, and what main has recorded.                    *)
ExperimentInv ==
  /\ GuestInv
  /\ results \in Seq({"complete", "guarded", "skipped"})

-----------------------------------------------------------------------------
(* The next stage begins with nothing run, whatever the last one left.     *)
LEMMA LaunchKeeps ==
  ASSUME GuestInv, stage < MaxStages, Launch(stage + 1), UNCHANGED serviceVars
  PROVE  GuestInv'
<1>1. stage' \in 1 .. MaxStages /\ assigned' \in [Guests -> Instances]
  BY GuestAssumption DEF GuestInv, GuestTypeOK, Launch, Assignments
<1>2. (GuestTypeOK /\ \A g \in Guests : OwnTrace(g))'
  <2>1. \A g \in Guests : /\ pc'[g] \in {"boot", "absent"} /\ turn'[g] = 1 /\ attempt'[g] = 1
                          /\ ran'[g] = <<>> /\ serial'[g] = {} /\ assigned'[g] \in Instances
    BY <1>1 DEF Launch, Booting
  <2>2. GuestTypeOK'
    BY <1>1, <2>1, GuestAssumption DEF GuestTypeOK, Launch, Booting, Labels
  <2>3. ASSUME NEW g \in Guests  PROVE OwnTrace(g)'
    <3>1. Len(Workflows[assigned'[g]]) \in Nat \ {0} /\ Len(<<>>) = 0
      BY <2>1, WorkflowFacts
    <3> QED BY <2>1, <3>1 DEF OwnTrace
  <2> QED BY <2>2, <2>3
<1>3. WireInv'
  BY WireMoves DEF GuestInv, serviceVars, WireInv, TableInv, TypeOK
<1> QED BY <1>2, <1>3 DEF GuestInv

(* The guard stops every guest, wherever it is.                            *)
LEMMA GuardKeeps ==
  ASSUME GuestInv, GuardTrips
  PROVE  GuestInv'
<1>0. /\ GuestTypeOK /\ WireInv /\ \A g \in Guests : OwnTrace(g)
      /\ pc' = [g \in Guests |-> IF pc[g] = "absent" THEN "absent" ELSE "off"]
      /\ UNCHANGED <<stage, assigned, turn, attempt, body, ran, serial, serviceVars>>
  BY DEF GuestInv, GuardTrips
<1>1. WireInv'
  BY <1>0, WireMoves DEF serviceVars, WireInv, TableInv, TypeOK
<1>2. \A g \in Guests : /\ pc'[g] \in {"absent", "off"}
                        /\ pc'[g] = "absent" <=> pc[g] = "absent"
  BY <1>0
<1>3. GuestTypeOK'
  BY <1>0, <1>2 DEF GuestTypeOK, Labels
<1>4. ASSUME NEW g \in Guests  PROVE OwnTrace(g)'
  BY <1>0, <1>2 DEF OwnTrace
<1> QED BY <1>1, <1>3, <1>4 DEF GuestInv

(* The first stage's guests.                                               *)
LEMMA ExperimentStarts == ExperimentInit => ExperimentInv
<1> SUFFICES ASSUME ExperimentInit PROVE ExperimentInv
  OBVIOUS
<1>1. Assignments(1) \in SUBSET [Guests -> Instances]
  BY DEF Assignments
<1>2. GuestInv
  BY <1>1, FirstStageFacts DEF ExperimentInit
<1> QED BY <1>2 DEF ExperimentInit, ExperimentInv

(* Every step of main and of its stage keeps the invariant.                *)
LEMMA ExperimentKeeps ==
  ASSUME ExperimentInv, [ExperimentNext]_allVars
  PROVE  ExperimentInv'
<1>0. GuestInv /\ results \in Seq({"complete", "guarded", "skipped"})
  BY DEF ExperimentInv
<1>1. ASSUME [GuestNext]_vars  PROVE GuestInv'
  BY <1>0, <1>1, GuestNextKeeps
<1>2. ASSUME UNCHANGED results, GuestInv'  PROVE ExperimentInv'
  BY <1>0, <1>2 DEF ExperimentInv
<1>3. CASE StageRuns
  BY <1>1, <1>2, <1>3 DEF StageRuns, experimentVars
<1>4. CASE GuardTrips
  BY <1>0, <1>2, <1>4, GuardKeeps DEF GuardTrips
<1>5. CASE StageRaises
  BY <1>1, <1>2, <1>5 DEF StageRaises
<1>6. CASE StageGuarded
  <2>1. results' \in Seq({"complete", "guarded", "skipped"})
    BY <1>0, <1>6 DEF StageGuarded
  <2>2. GuestInv'
    BY <1>1, <1>6 DEF StageGuarded
  <2> QED BY <2>1, <2>2 DEF ExperimentInv
<1>7. CASE StageReturns
  <2>1. results' \in Seq({"complete", "guarded", "skipped"})
    BY <1>0, <1>7 DEF StageReturns
  <2>2. CASE stage < MaxStages /\ Launch(stage + 1)
    <3>1. GuestInv'
      BY <1>0, <1>7, <2>2, LaunchKeeps DEF StageReturns
    <3> QED BY <2>1, <3>1 DEF ExperimentInv
  <2>3. CASE UNCHANGED guestVars
    <3>1. UNCHANGED vars
      BY <1>7, <2>3 DEF StageReturns, vars
    <3>2. GuestInv'
      BY <1>1, <3>1
    <3> QED BY <2>1, <3>2 DEF ExperimentInv
  <2> QED BY <1>7, <2>2, <2>3 DEF StageReturns
<1>8. CASE StageSkipped
  <2>1. results' \in Seq({"complete", "guarded", "skipped"})
    BY <1>0, <1>8 DEF StageSkipped
  <2>2. WireInv'
    BY <1>0, <1>8, WireMoves DEF StageSkipped, GuestInv, serviceVars, WireInv, TableInv, TypeOK
  <2>3. GuestInv'
    BY <1>0, <1>8, <2>2, GuestsUntouched DEF StageSkipped, GuestInv
  <2> QED BY <2>1, <2>3 DEF ExperimentInv
<1>9. CASE UNCHANGED allVars
  BY <1>1, <1>2, <1>9 DEF allVars, experimentVars
<1> QED BY <1>3, <1>4, <1>5, <1>6, <1>7, <1>8, <1>9 DEF ExperimentNext, ExperimentStep

(* In every stage a guest knows how far it is in its own trajectory.       *)
THEOREM ExperimentInvariant == ExperimentSpec => []ExperimentInv
<1>1. ExperimentInit => ExperimentInv
  BY ExperimentStarts
<1>2. ExperimentInv /\ [ExperimentNext]_allVars => ExperimentInv'
  BY ExperimentKeeps
<1> QED BY <1>1, <1>2, PTL DEF ExperimentSpec

-----------------------------------------------------------------------------
(* What a guest has run is a beginning of its trajectory, whatever earlier *)
(* stages left in the server, for any list of stages and any pool, also    *)
(* one that is too short for the stage.                                    *)
THEOREM OwnTraceAlways == ExperimentSpec => []RunsOwnTrace
<1>1. ExperimentInv => RunsOwnTrace
  <2> SUFFICES ASSUME ExperimentInv, NEW g \in Guests
               PROVE  LET trace == Workflows[assigned[g]]
                      IN /\ Len(ran[g]) <= Len(trace)
                         /\ ran[g] = SubSeq(trace, 1, Len(ran[g]))
                         /\ Complete(g) => ran[g] = trace
    BY DEF RunsOwnTrace
  <2> DEFINE trace == Workflows[assigned[g]]
  <2>1. GuestTypeOK /\ OwnTrace(g) /\ assigned[g] \in Instances /\ ran[g] \in Seq(Commands)
    BY DEF ExperimentInv, GuestInv, GuestTypeOK
  <2>2. trace \in Seq(Commands) /\ Len(trace) \in Nat /\ Len(ran[g]) \in Nat
    BY <2>1, WorkflowsAssumption
  <2>3. Len(ran[g]) <= Len(trace) /\ \A n \in 1 .. Len(ran[g]) : ran[g][n] = trace[n]
    BY <2>1 DEF OwnTrace
  <2>4. ran[g] = SubSeq(trace, 1, Len(ran[g]))
    <3> DEFINE begin == SubSeq(trace, 1, Len(ran[g]))
    <3>1. \A n \in 1 .. Len(ran[g]) : trace[n] \in Commands
      BY <2>2, <2>3
    <3>2. /\ begin \in Seq(Commands) /\ Len(begin) = Len(ran[g])
          /\ \A n \in 1 .. Len(ran[g]) : begin[n] = trace[n]
      BY <2>2, <3>1, SubSeqProperties
    <3> HIDE DEF begin
    <3>3. ran[g] = begin
      BY <2>1, <2>3, <3>2, SeqEqual
    <3> QED BY <3>3 DEF begin
  <2>5. Complete(g) => ran[g] = trace
    <3>1. Complete(g) => Len(ran[g]) = Len(trace)
      BY <2>1 DEF OwnTrace, Complete
    <3> QED BY <2>1, <3>1, WholeTrace
  <2> QED BY <2>3, <2>4, <2>5
<1> QED BY <1>1, ExperimentInvariant, PTL

(* A stage is recorded as complete only when each of its sessions ran its  *)
(* whole trajectory in that stage.                                         *)
THEOREM StagesAreWhole == ExperimentSpec => RecordsWholeStages
<1>1. ASSUME ExperimentInv, [ExperimentNext]_allVars, StageCompleted
      PROVE  \A g \in Members(stage) : ran[g] = Workflows[assigned[g]]
  <2>0. results \in Seq({"complete", "guarded", "skipped"})
    BY <1>1 DEF ExperimentInv
  <2>1. StageReturns \/ StageSkipped
    <3>1. results' # results
      BY <1>1 DEF StageCompleted
    <3>2. ~StageRuns /\ ~GuardTrips /\ ~StageRaises /\ ~UNCHANGED allVars
      BY <3>1 DEF StageRuns, GuardTrips, StageRaises, experimentVars, allVars
    <3>3. ~StageGuarded
      <4> SUFFICES ASSUME StageGuarded PROVE FALSE
        OBVIOUS
      <4>1. results' = results \o <<"guarded", "skipped">>
        BY DEF StageGuarded
      <4>2. results'[Len(results) + 1] = "guarded"
        BY <2>0, <4>1
      <4> QED BY <1>1, <4>2 DEF StageCompleted
    <3> QED BY <1>1, <3>2, <3>3 DEF ExperimentNext, ExperimentStep
  <2>2. Validated
    BY <2>1 DEF StageReturns, StageSkipped
  <2>3. ASSUME NEW g \in Members(stage)  PROVE ran[g] = Workflows[assigned[g]]
    <3>1. stage \in 1 .. Len(Stages) /\ g \in Guests
      <4>1. stage \in 1 .. Len(Stages)
        BY <1>1, StagesAssumption DEF ExperimentInv, GuestInv, GuestTypeOK
      <4> QED BY <4>1, <2>3, StagesAssumption DEF Members, Guests
    <3>2. GuestTypeOK /\ OwnTrace(g)
      BY <1>1, <3>1 DEF ExperimentInv, GuestInv
    <3>3. Len(ran[g]) = Len(Workflows[assigned[g]])
      BY <2>2, <2>3, <3>2 DEF Validated, Complete, OwnTrace
    <3> QED BY <3>1, <3>2, <3>3, WholeTrace
  <2> QED BY <2>3
<1>2. ExperimentInv /\ [ExperimentNext]_allVars
        => [StageCompleted =>
              \A g \in Members(stage) : ran[g] = Workflows[assigned[g]]]_allVars
  BY <1>1
<1> QED BY <1>2, ExperimentInvariant, PTL DEF ExperimentSpec, RecordsWholeStages
=============================================================================
