---------------------------- MODULE ReplaysProofs ----------------------------
(***************************************************************************)
(* What MCReplays checks of the programs around a replay, for any number   *)
(* of guests, sessions, relays and members.  No two of the programs share  *)
(* a variable: each has an invariant over its own.                         *)
(***************************************************************************)
EXTENDS MCReplays, FiniteSetTheorems, SequenceTheorems, TLAPS

(* A step of ReplaysSpec is a step of a program, or leaves it as it is.    *)
LEMMA OneProgram ==
  ASSUME [ReplaysNext]_replaysVars
  PROVE  /\ Next \/ UNCHANGED vars
         /\ Tenancy!Next \/ UNCHANGED tenantVars
         /\ Docker!FleetNext \/ UNCHANGED dockerVars
         /\ Yig!YigNext \/ UNCHANGED yigVars
         /\ Multiturn!CaptureNext \/ UNCHANGED captureVars
         /\ Artifact!ArtifactNext \/ UNCHANGED artifactVars
         /\ Gate!GateNext \/ UNCHANGED gateVars
         /\ Phase!PhaseNext \/ UNCHANGED phaseVars
<1>1. CASE UNCHANGED replaysVars
  BY <1>1 DEF replaysVars
<1>2. CASE ReplaysNext
  BY <1>2 DEF ReplaysNext, ByTenants
<1>3. QED
  BY <1>1, <1>2

-----------------------------------------------------------------------------
(***************************************************************************)
(* GuestChannel.                                                           *)
(***************************************************************************)

(* Nothing is under way on a connection that has not been made.            *)
FreshIsEmpty ==
  \A c \in Connections : c > opened =>
    line[c] = 0 /\ running[c] = 0 /\ replies[c] = <<>>

(* Between two requests nothing is under way on the connection that is     *)
(* kept: this is what dropping it after a timeout is for.                  *)
KeptIsQuiet ==
  ~waiting /\ conn # 0 => line[conn] = 0 /\ running[conn] = 0 /\ replies[conn] = <<>>

(* During a request its connection carries the request, or the thread that *)
(* handles it, or its reply, or (after a crash) nothing.                   *)
CarriesOwn ==
  waiting =>
    /\ conn # 0
    /\ \/ line[conn] = 0 /\ running[conn] = 0 /\ replies[conn] = <<>>
       \/ line[conn] = asked /\ running[conn] = 0 /\ replies[conn] = <<>>
       \/ line[conn] = 0 /\ running[conn] = asked /\ replies[conn] = <<>>
       \/ line[conn] = 0 /\ running[conn] = 0 /\ replies[conn] = <<asked>>

ChannelInv ==
  /\ ChannelTypeOK
  /\ opened <= asked
  /\ conn <= opened
  /\ FreshIsEmpty
  /\ KeptIsQuiet
  /\ CarriesOwn
  /\ ReplyIsOwn

(* A channel begins without a connection.                                  *)
LEMMA ChannelInitInv == Init => ChannelInv
<1> SUFFICES ASSUME Init
             PROVE  ChannelInv
  OBVIOUS
<1>1. <<>> \in Seq(0 .. MaxRequests) /\ 0 \in 0 .. MaxRequests /\ 0 \in 0 .. MaxFaults
  BY ChannelAssumption
<1>2. ChannelTypeOK
  BY <1>1 DEF Init, ChannelTypeOK
<1>3. FreshIsEmpty /\ KeptIsQuiet /\ CarriesOwn /\ ReplyIsOwn
  BY DEF Init, FreshIsEmpty, KeptIsQuiet, CarriesOwn, ReplyIsOwn
<1>4. QED
  BY <1>2, <1>3 DEF Init, ChannelInv

(* A request is written to an empty connection, kept or new.               *)
LEMMA RequestStep ==
  ASSUME ChannelInv, Request
  PROVE  ChannelInv'
<1>1. asked' = asked + 1 /\ asked' \in 1 .. MaxRequests /\ waiting' = TRUE /\ read' = 0
  BY ChannelAssumption DEF Request, ChannelInv, ChannelTypeOK
<1>2. /\ conn' \in Connections /\ conn' <= opened' /\ opened' \in {opened, opened + 1}
      /\ serving' \subseteq Connections
      /\ line[conn'] = 0 /\ running[conn'] = 0 /\ replies[conn'] = <<>>
  <2>1. /\ opened \in Nat /\ asked \in Nat /\ conn \in Nat /\ MaxRequests \in Nat
        /\ conn <= opened /\ opened <= asked /\ asked + 1 <= MaxRequests
        /\ serving \subseteq Connections /\ ~waiting
    BY ChannelAssumption DEF Request, ChannelInv, ChannelTypeOK
  <2>2. CASE conn # 0 /\ UNCHANGED <<conn, opened, serving>>
    BY <2>1, <2>2 DEF ChannelInv, KeptIsQuiet, Connections
  <2>3. CASE opened' = opened + 1 /\ conn' = opened' /\ serving' = serving \cup {opened'}
    <3>1. conn' \in Connections /\ conn' > opened
      BY <2>1, <2>3 DEF Connections
    <3>2. QED
      BY <2>1, <2>3, <3>1 DEF ChannelInv, FreshIsEmpty
  <2>4. QED
    BY <2>2, <2>3 DEF Request
<1>3. /\ line' = [line EXCEPT ![conn'] = asked']
      /\ running' = running /\ replies' = replies /\ agent' = agent /\ faults' = faults
  BY DEF Request
<1>4. line' \in [Connections -> 0 .. MaxRequests]
  BY <1>1, <1>2, <1>3 DEF ChannelInv, ChannelTypeOK
<1>5. opened' <= asked' /\ opened' \in 0 .. MaxRequests /\ conn' \in 0 .. MaxRequests
  <2>1. /\ opened \in Nat /\ asked \in Nat /\ MaxRequests \in Nat /\ opened <= asked
        /\ conn' \in 1 .. MaxRequests
    BY <1>2, ChannelAssumption DEF ChannelInv, ChannelTypeOK, Connections
  <2>2. QED
    BY <1>1, <1>2, <2>1
<1>6. ChannelTypeOK'
  BY <1>1, <1>2, <1>3, <1>4, <1>5 DEF ChannelInv, ChannelTypeOK
<1>7. FreshIsEmpty'
  <2> SUFFICES ASSUME NEW c \in Connections, c > opened'
               PROVE  line'[c] = 0 /\ running'[c] = 0 /\ replies'[c] = <<>>
    BY DEF FreshIsEmpty
  <2>1. c \in Nat /\ opened \in Nat /\ opened' \in Nat /\ conn' \in Nat
    BY <1>5, ChannelAssumption DEF ChannelInv, ChannelTypeOK, Connections
  <2>2. c > opened /\ c # conn'
    BY <1>2, <2>1
  <2>3. QED
    BY <1>3, <2>2 DEF ChannelInv, ChannelTypeOK, FreshIsEmpty
<1>8. line'[conn'] = asked' /\ running'[conn'] = 0 /\ replies'[conn'] = <<>> /\ conn' # 0
  BY <1>2, <1>3 DEF ChannelInv, ChannelTypeOK, Connections
<1>9. KeptIsQuiet' /\ CarriesOwn'
  BY <1>1, <1>8 DEF KeptIsQuiet, CarriesOwn
<1>10. QED
  BY <1>1, <1>2, <1>5, <1>6, <1>7, <1>9 DEF ChannelInv, ReplyIsOwn

(* The reply that is read is the only one, and the request's own.          *)
LEMMA AnsweredStep ==
  ASSUME ChannelInv, Answered
  PROVE  ChannelInv'
<1>1. /\ conn \in Connections
      /\ line[conn] = 0 /\ running[conn] = 0 /\ replies[conn] = <<asked>>
  BY ChannelAssumption DEF Answered, ChannelInv, ChannelTypeOK, CarriesOwn, Connections
<1>2. read' = asked /\ Tail(replies[conn]) = <<>>
  BY <1>1 DEF Answered, ChannelInv, ChannelTypeOK
<1>3. /\ replies' = [replies EXCEPT ![conn] = <<>>]
      /\ UNCHANGED <<asked, conn, opened, line, running, serving, agent, faults>>
      /\ waiting' = FALSE
  BY <1>2 DEF Answered
<1>4. replies' \in [Connections -> Seq(0 .. MaxRequests)]
  BY <1>1, <1>3 DEF ChannelInv, ChannelTypeOK
<1>5. ChannelTypeOK'
  BY <1>2, <1>3, <1>4 DEF ChannelInv, ChannelTypeOK
<1>6. FreshIsEmpty'
  BY <1>1, <1>3 DEF ChannelInv, ChannelTypeOK, FreshIsEmpty
<1>7. KeptIsQuiet' /\ CarriesOwn'
  BY <1>1, <1>3 DEF ChannelInv, ChannelTypeOK, KeptIsQuiet, CarriesOwn
<1>8. QED
  BY <1>2, <1>3, <1>5, <1>6, <1>7 DEF ChannelInv, ReplyIsOwn

(* The thread takes the request from the line.                             *)
LEMMA TakeStep ==
  ASSUME ChannelInv, NEW c \in Connections, Take(c)
  PROVE  ChannelInv'
<1>1. /\ line' = [line EXCEPT ![c] = 0] /\ running' = [running EXCEPT ![c] = line[c]]
      /\ line[c] # 0 /\ line[c] \in 0 .. MaxRequests /\ running[c] = 0
      /\ UNCHANGED <<asked, waiting, conn, opened, replies, serving, agent, read, faults>>
  BY DEF Take, ChannelInv, ChannelTypeOK
<1>2. ChannelTypeOK'
  BY <1>1, ChannelAssumption DEF ChannelInv, ChannelTypeOK
<1>3. FreshIsEmpty'
  <2>1. ~(c > opened)
    BY <1>1 DEF ChannelInv, FreshIsEmpty
  <2>2. QED
    BY <1>1, <2>1 DEF ChannelInv, ChannelTypeOK, FreshIsEmpty
<1>4. waiting => conn \in Connections
  BY DEF ChannelInv, ChannelTypeOK, CarriesOwn, Connections
<1>5. KeptIsQuiet'
  <2>1. ~waiting /\ conn # 0 => conn \in Connections /\ c # conn
    BY <1>1 DEF ChannelInv, ChannelTypeOK, KeptIsQuiet, Connections
  <2>2. QED
    BY <1>1, <2>1 DEF ChannelInv, ChannelTypeOK, KeptIsQuiet
<1>6. CarriesOwn'
  <2>1. CASE c = conn
    BY <1>1, <1>4, <2>1 DEF ChannelInv, ChannelTypeOK, CarriesOwn
  <2>2. CASE c # conn
    BY <1>1, <1>4, <2>2 DEF ChannelInv, ChannelTypeOK, CarriesOwn
  <2>3. QED
    BY <2>1, <2>2
<1>7. QED
  BY <1>1, <1>2, <1>3, <1>5, <1>6 DEF ChannelInv, ReplyIsOwn

(* The thread replies, on the connection the request came on.              *)
LEMMA ReplyStep ==
  ASSUME ChannelInv, NEW c \in Connections, Reply(c)
  PROVE  ChannelInv'
<1>1. /\ running' = [running EXCEPT ![c] = 0] /\ running[c] # 0 /\ running[c] \in 0 .. MaxRequests
      /\ UNCHANGED <<asked, waiting, conn, opened, line, agent, read, faults>>
  BY DEF Reply, ChannelInv, ChannelTypeOK
<1>2. /\ replies' \in [Connections -> Seq(0 .. MaxRequests)]
      /\ \A d \in Connections : d # c => replies'[d] = replies[d]
      /\ c = conn => replies'[c] = Append(replies[c], running[c])
      /\ serving' \subseteq Connections
  <2>1. Append(replies[c], running[c]) \in Seq(0 .. MaxRequests)
    BY <1>1 DEF ChannelInv, ChannelTypeOK
  <2>2. QED
    BY <2>1 DEF Reply, ChannelInv, ChannelTypeOK
<1>3. ChannelTypeOK'
  <2>1. running' \in [Connections -> 0 .. MaxRequests]
    BY <1>1, ChannelAssumption DEF ChannelInv, ChannelTypeOK
  <2>2. QED
    BY <1>1, <1>2, <2>1 DEF ChannelInv, ChannelTypeOK
<1>4. FreshIsEmpty'
  <2>1. ~(c > opened)
    BY <1>1 DEF ChannelInv, FreshIsEmpty
  <2>2. QED
    BY <1>1, <1>2, <2>1 DEF ChannelInv, ChannelTypeOK, FreshIsEmpty
<1>5. KeptIsQuiet'
  <2>1. ~waiting /\ conn # 0 => conn \in Connections /\ c # conn
    BY <1>1 DEF ChannelInv, ChannelTypeOK, KeptIsQuiet, Connections
  <2>2. QED
    BY <1>1, <1>2, <2>1 DEF ChannelInv, ChannelTypeOK, KeptIsQuiet
<1>6. CarriesOwn'
  <2>1. waiting => conn \in Connections
    BY DEF ChannelInv, ChannelTypeOK, CarriesOwn, Connections
  <2>2. ASSUME c = conn, waiting
        PROVE  line'[conn] = 0 /\ running'[conn] = 0 /\ replies'[conn] = <<asked>>
    <3>1. line[conn] = 0 /\ running[conn] = asked /\ replies[conn] = <<>>
      BY <1>1, <2>2 DEF ChannelInv, CarriesOwn
    <3>2. Append(<<>>, asked) = <<asked>>
      OBVIOUS
    <3>3. QED
      BY <1>1, <1>2, <2>2, <3>1, <3>2 DEF ChannelInv, ChannelTypeOK
  <2>3. CASE c # conn
    BY <1>1, <1>2, <2>1, <2>3 DEF ChannelInv, ChannelTypeOK, CarriesOwn
  <2>4. QED
    BY <1>1, <2>1, <2>2, <2>3 DEF CarriesOwn, ChannelInv
<1>7. QED
  BY <1>1, <1>3, <1>4, <1>5, <1>6 DEF ChannelInv, ReplyIsOwn

(* Every step of the host, of a thread of the agent and of the agent keeps *)
(* the invariant; a timeout does because the connection is dropped.        *)
LEMMA ChannelStep ==
  ASSUME ChannelInv, Next \/ UNCHANGED vars
  PROVE  ChannelInv'
<1>1. CASE ConnectFails
  <2>1. ChannelTypeOK'
    BY <1>1, ChannelAssumption DEF ConnectFails, ChannelInv, ChannelTypeOK
  <2>2. opened' <= asked' /\ conn' <= opened' /\ FreshIsEmpty'
    BY <1>1, ChannelAssumption DEF ConnectFails, ChannelInv, ChannelTypeOK, FreshIsEmpty
  <2>3. KeptIsQuiet' /\ CarriesOwn'
    BY <1>1, ChannelAssumption
       DEF ConnectFails, ChannelInv, ChannelTypeOK, KeptIsQuiet, CarriesOwn, Connections
  <2>4. ReplyIsOwn'
    BY <1>1 DEF ConnectFails, ChannelInv, ReplyIsOwn
  <2>5. QED
    BY <2>1, <2>2, <2>3, <2>4 DEF ChannelInv
<1>2. CASE Request
  BY <1>2, RequestStep
<1>3. CASE Answered
  BY <1>3, AnsweredStep
<1>4. CASE GaveUp
  <2>1. ChannelTypeOK'
    <3>1. faults' \in 0 .. MaxFaults
      BY <1>4, ChannelAssumption DEF GaveUp, Fault, ChannelInv, ChannelTypeOK
    <3>2. /\ waiting' = FALSE /\ conn' = 0 /\ read' = 0 /\ 0 \in 0 .. MaxRequests
          /\ UNCHANGED <<asked, opened, line, running, replies, serving, agent>>
      BY <1>4, ChannelAssumption DEF GaveUp, Close
    <3>3. QED
      BY <3>1, <3>2 DEF ChannelInv, ChannelTypeOK
  <2>2. opened' <= asked' /\ conn' <= opened' /\ FreshIsEmpty'
    BY <1>4, ChannelAssumption DEF GaveUp, Fault, Close, ChannelInv, ChannelTypeOK, FreshIsEmpty
  <2>3. KeptIsQuiet' /\ CarriesOwn'
    BY <1>4, ChannelAssumption
       DEF GaveUp, Fault, Close, ChannelInv, ChannelTypeOK, KeptIsQuiet, CarriesOwn, Connections
  <2>4. ReplyIsOwn'
    BY <1>4 DEF GaveUp, Fault, Close, ChannelInv, ReplyIsOwn
  <2>5. QED
    BY <2>1, <2>2, <2>3, <2>4 DEF ChannelInv
<1>5. ASSUME NEW c \in Connections, Take(c) \/ Reply(c) \/ Hangup(c)
      PROVE  ChannelInv'
  <2>1. CASE Take(c)
    BY <2>1, TakeStep
  <2>2. CASE Reply(c)
    BY <2>2, ReplyStep
  <2>3. CASE Hangup(c)
    BY <2>3 DEF Hangup, ChannelInv, ChannelTypeOK, FreshIsEmpty, KeptIsQuiet, CarriesOwn, ReplyIsOwn
  <2>4. QED
    BY <1>5, <2>1, <2>2, <2>3
<1>6. CASE AgentExits
  <2>1. ChannelTypeOK'
    <3>1. faults' \in 0 .. MaxFaults
      BY <1>6, ChannelAssumption DEF AgentExits, Fault, ChannelInv, ChannelTypeOK
    <3>2. /\ line' \in [Connections -> 0 .. MaxRequests]
          /\ running' \in [Connections -> 0 .. MaxRequests]
      BY <1>6, ChannelAssumption DEF AgentExits
    <3>3. /\ serving' = {} /\ agent' = FALSE
          /\ UNCHANGED <<asked, waiting, conn, opened, replies, read>>
      BY <1>6 DEF AgentExits
    <3>4. QED
      BY <3>1, <3>2, <3>3 DEF ChannelInv, ChannelTypeOK
  <2>2. opened' <= asked' /\ conn' <= opened' /\ FreshIsEmpty'
    BY <1>6, ChannelAssumption DEF AgentExits, Fault, ChannelInv, ChannelTypeOK, FreshIsEmpty
  <2>3. KeptIsQuiet' /\ CarriesOwn'
    BY <1>6, ChannelAssumption
       DEF AgentExits, Fault, ChannelInv, ChannelTypeOK, KeptIsQuiet, CarriesOwn, Connections
  <2>4. ReplyIsOwn'
    BY <1>6 DEF AgentExits, Fault, ChannelInv, ReplyIsOwn
  <2>5. QED
    BY <2>1, <2>2, <2>3, <2>4 DEF ChannelInv
<1>7. CASE AgentStarts
  BY <1>7 DEF AgentStarts, ChannelInv, ChannelTypeOK, FreshIsEmpty, KeptIsQuiet, CarriesOwn,
              ReplyIsOwn
<1>8. CASE UNCHANGED vars
  BY <1>8 DEF vars, ChannelInv, ChannelTypeOK, FreshIsEmpty, KeptIsQuiet, CarriesOwn, ReplyIsOwn
<1>9. QED
  BY <1>1, <1>2, <1>3, <1>4, <1>5, <1>6, <1>7, <1>8 DEF Next

-----------------------------------------------------------------------------
(***************************************************************************)
(* StartGate.                                                              *)
(***************************************************************************)

(* Whoever has an answer has arrived, and only the owner releases, when    *)
(* all have.                                                               *)
GateInv ==
  /\ DOMAIN answer = Expected \cup Strangers
  /\ arrived \subseteq Expected
  /\ releasedBy = "owner" => arrived = Expected
  /\ waits \subseteq startedAt
  /\ Gate!GateHolds

(* The gate begins with nobody at it.                                      *)
LEMMA GateInitInv == Gate!GateInit => GateInv
  BY DEF Gate!GateInit, GateInv, Gate!GateHolds

(* Every request, answer, release and close preserves the invariant.       *)
LEMMA GateStep ==
  ASSUME GateInv, Gate!GateNext \/ UNCHANGED gateVars
  PROVE  GateInv'
<1> USE DEF GateInv, Gate!GateHolds
<1>1. ASSUME NEW s \in Expected \cup Strangers, Gate!Stranger(s)
      PROVE  GateInv'
  BY <1>1 DEF Gate!Stranger, Gate!Answer
<1>2. ASSUME NEW s \in Expected \cup Strangers, Gate!Arrive(s)
      PROVE  GateInv'
  BY <1>2 DEF Gate!Arrive, Gate!Answer
<1>3. ASSUME NEW s \in Expected \cup Strangers, Gate!Start(s)
      PROVE  GateInv'
  BY <1>3 DEF Gate!Start, Gate!Answer
<1>4. ASSUME NEW s \in Expected \cup Strangers, Gate!WaitTimesOut(s)
      PROVE  GateInv'
  BY <1>4 DEF Gate!WaitTimesOut, Gate!Answer
<1>5. CASE Gate!Release
  BY <1>5 DEF Gate!Release
<1>6. CASE Gate!CloseGate
  BY <1>6 DEF Gate!CloseGate
<1>7. CASE UNCHANGED gateVars
  BY <1>7 DEF gateVars
<1>8. QED
  BY <1>1, <1>2, <1>3, <1>4, <1>5, <1>6, <1>7 DEF Gate!GateNext

-----------------------------------------------------------------------------
(***************************************************************************)
(* YigReplay.                                                              *)
(***************************************************************************)

(* The launched VMs are the active ones, the completed ones, and at most   *)
(* the last one, whose start raised.  What was collected has ended, and is *)
(* stopped before the next one is looked at; where an exception came       *)
(* between, it is still in active.  When main leaves its loop without an   *)
(* exception, everything is collected.  The finally clause has stopped the *)
(* VMs that it has come past.                                              *)
YigInv ==
  /\ launched \in Nat
  /\ main \in {"admit", "build", "start", "reap", "drain", "finally", "stop", "over", "died",
               "cut", "killed"}
  /\ raised \in BOOLEAN
  /\ raised => main \in {"finally", "stop", "died", "cut", "killed"}
  /\ guestsActive \cup completed \subseteq 1 .. launched
  /\ vmm \cup cgroup \subseteq 1 .. launched
  /\ completed \cap vmm = {} /\ completed \cap cgroup \subseteq guestsActive
  /\ main \in {"admit", "build", "start", "reap", "drain"} => completed \cap cgroup \subseteq {ended}
  /\ main \in {"admit", "build", "start", "finally"} => seen = {}
  /\ main = "stop" => vmm \cap seen = {}
  /\ Yig!Unlisted = {} \/ (raised /\ Yig!Unlisted = {launched})
  /\ main \in {"finally", "stop", "over"} /\ ~raised => guestsActive = {}
  /\ main = "over" => ~raised
  /\ main = "died" => vmm \cap guestsActive = {}

(* The Cardinality of an instance is that of FiniteSets.                   *)
LEMMA SameCardinality ==
  ASSUME NEW S
  PROVE  Yig!Cardinality(S) = Cardinality(S) /\ Multiturn!Cardinality(S) = Cardinality(S)
  BY DEF Yig!Cardinality, Yig!IsFiniteSet, Multiturn!Cardinality, Multiturn!IsFiniteSet,
         Cardinality, IsFiniteSet

(* Every part of the promise follows from the lists alone.                 *)
LEMMA YigPromise == YigInv => NoGuestForgotten
<1> SUFFICES ASSUME YigInv
             PROVE  NoGuestForgotten
  OBVIOUS
<1>1. Yig!Cardinality(Yig!Unlisted) <= 1
  <2>1. Yig!Cardinality({}) = 0 /\ Yig!Cardinality({launched}) = 1
    BY FS_EmptySet, FS_Singleton, SameCardinality
  <2>2. Yig!Unlisted \in {{}, {launched}}
    BY DEF YigInv
  <2>3. QED
    BY <2>1, <2>2
<1>2. ~raised => guestsActive \cup completed = 1 .. launched
  BY DEF YigInv, Yig!Unlisted
<1>3. vmm \subseteq guestsActive \cup Yig!Unlisted /\ cgroup \subseteq guestsActive \cup Yig!Unlisted
  BY DEF YigInv, Yig!Unlisted
<1>4. main = "over" => completed = 1 .. launched /\ vmm = {} /\ cgroup = {}
  BY <1>2 DEF YigInv
<1>5. main = "died" => vmm \subseteq Yig!Unlisted
  BY <1>3 DEF YigInv
<1>6. QED
  BY <1>1, <1>3, <1>4, <1>5 DEF YigInv, NoGuestForgotten, Yig!NoGuestForgotten

(* main begins with no VM.                                                 *)
LEMMA YigInitInv == Yig!YigInit => YigInv
<1>1. 1 .. 0 = {} /\ 0 \in Nat
  OBVIOUS
<1>2. QED
  BY <1>1 DEF Yig!YigInit, YigInv, Yig!Unlisted

(* The next VM is the one after those that were launched.                  *)
LEMMA YigLaunch ==
  ASSUME YigInv, launched' = launched + 1
  PROVE  /\ launched' \in Nat /\ 1 .. launched' = (1 .. launched) \cup {launched'}
         /\ launched' \notin guestsActive \cup completed \cup vmm \cup cgroup
<1>1. launched' \notin 1 .. launched
  BY DEF YigInv
<1>2. QED
  BY <1>1 DEF YigInv

(* One step for each action of main, of the monitor and of the guests.     *)
LEMMA YigStep ==
  ASSUME YigInv, Yig!YigNext \/ UNCHANGED yigVars
  PROVE  YigInv'
<1> USE DEF YigInv, Yig!Unlisted, Yig!passVars, Yig!yigHost
<1>1. CASE Yig!Admit \/ Yig!BuildDisk
  BY <1>1 DEF Yig!Admit, Yig!BuildDisk
<1>2. CASE Yig!StartVM
  BY <1>2, YigLaunch DEF Yig!StartVM
<1>3. CASE Yig!StartFails
  BY <1>3, YigLaunch DEF Yig!StartFails
<1>4. CASE Yig!Raises
  BY <1>4 DEF Yig!Raises
<1>5. ASSUME NEW i \in Yig!Ids, Yig!Keep(i) \/ Yig!Collect(i) \/ Yig!StopVM(i)
      PROVE  YigInv'
  <2>1. CASE Yig!Keep(i)
    BY <2>1 DEF Yig!Keep, Yig!ComesTo, Yig!Reaping
  <2>2. CASE Yig!Collect(i)
    <3>1. 0 \notin 1 .. launched
      OBVIOUS
    <3> QED
      BY <2>2, <3>1 DEF Yig!Collect, Yig!ComesTo, Yig!Reaping
  <2>3. CASE Yig!StopVM(i)
    BY <2>3 DEF Yig!StopVM, Yig!ComesTo
  <2> QED
    BY <1>5, <2>1, <2>2, <2>3
<1>6. CASE Yig!StopEnded
  BY <1>6 DEF Yig!StopEnded, Yig!Reaping
<1>7. CASE Yig!PassEnds
  <2>1. completed \cap cgroup = {}
    <3>1. 0 \notin 1 .. launched
      OBVIOUS
    <3> QED
      BY <1>7, <3>1 DEF Yig!PassEnds, Yig!Reaping
  <2> QED
    BY <1>7, <2>1 DEF Yig!PassEnds, Yig!Reaping
<1>8. CASE Yig!JoinMonitor \/ Yig!CutShort \/ Yig!Killed
  BY <1>8 DEF Yig!JoinMonitor, Yig!CutShort, Yig!Killed
<1>9. CASE Yig!Ends
  BY <1>9 DEF Yig!Ends
<1>10. CASE Yig!Sample \/ Yig!SampleRaises \/ Yig!LoadChanges
  BY <1>10 DEF Yig!Sample, Yig!SampleRaises, Yig!LoadChanges
<1>11. ASSUME NEW i \in Yig!Ids, Yig!GuestEnds(i)
       PROVE  YigInv'
  BY <1>11 DEF Yig!GuestEnds
<1>12. CASE UNCHANGED yigVars
  BY <1>12 DEF yigVars
<1>13. QED
  BY <1>1, <1>2, <1>3, <1>4, <1>5, <1>6, <1>7, <1>8, <1>9, <1>10, <1>11, <1>12
     DEF Yig!YigNext, Yig!Main

-----------------------------------------------------------------------------
(***************************************************************************)
(* PhaseSession.                                                           *)
(***************************************************************************)

Commands == {"balancing", "demotion", "controller", "note_controller", "experiment", "record",
             "note_recorder", "wait"}

Traps == {"trap", "stop_controller", "restore_balancing", "restore_demotion"}

PhaseTypeOK ==
  /\ variant \in {"priority", "proactive"}
  /\ command \in Commands \cup Traps \cup {"over"}
  /\ resume \in (Commands \ {"record", "note_recorder"}) \cup {"none", "exit"}
  /\ pending \in BOOLEAN /\ taken \in BOOLEAN /\ restoreCut \in BOOLEAN
  /\ controllerPid \in BOOLEAN /\ recorderPid \in BOOLEAN

(* Until a signal is taken each line has the policy of the lines before it *)
(* in force.                                                               *)
BeforeSignal ==
  ~taken =>
    /\ command = "demotion" => balancing = "off"
    /\ command = "controller" => balancing = "off" /\ demotion = "off"
    /\ command \in {"note_controller", "experiment", "record", "note_recorder", "wait"} =>
         Phase!InForce
    /\ experiment = "running" => command \in {"record", "note_recorder", "wait"}

(* After it the first script may come back to any line, the second one     *)
(* only exits.                                                             *)
AfterSignal ==
  /\ command \in Traps => resume # "none"
  /\ command = "over" => ~pending
  /\ variant = "proactive" /\ taken => command \notin Commands
  /\ resume \in Commands => variant = "priority" /\ taken

(* A recorder is one of the second script; one whose pid is noted keeps    *)
(* the trap waiting.                                                       *)
RecorderWaited ==
  /\ command \in {"record", "note_recorder"} => variant = "proactive"
  /\ recorderPid => variant = "proactive" /\ command \in {"wait", "over"} \cup Traps
  /\ recorder = "running" /\ recorderPid =>
       /\ Phase!InForce
       /\ variant = "proactive"
       /\ command \in {"wait", "trap"} \/ (command = "over" /\ restoreCut)

(* Once the controller was stopped only one that is not known runs, and    *)
(* the settings come back one after the other.                             *)
RestoreInOrder ==
  /\ command \in {"restore_balancing", "restore_demotion"} \/ (command = "over" /\ ~restoreCut) =>
       (controllerPid => ~Phase!ControllerAlive)
  /\ command = "restore_demotion" => balancing = "original"
  /\ command = "over" /\ ~restoreCut => balancing = "original" /\ demotion = "original"

PhaseInv == PhaseTypeOK /\ BeforeSignal /\ AfterSignal /\ RecorderWaited /\ RestoreInOrder

(* A script begins on a host with its own settings.                        *)
LEMMA PhaseInitInv == Phase!PhaseInit => PhaseInv
  BY DEF Phase!PhaseInit, PhaseInv, PhaseTypeOK, BeforeSignal, AfterSignal, RecorderWaited, RestoreInOrder,
         Commands, Traps

(* One step for each line of the scripts, for signals and traps, and for   *)
(* the children.                                                           *)
LEMMA PhaseStep ==
  ASSUME PhaseInv, Phase!PhaseNext \/ UNCHANGED phaseVars
  PROVE  PhaseInv'
<1> USE DEF PhaseInv, PhaseTypeOK, BeforeSignal, AfterSignal, RecorderWaited, RestoreInOrder,
            Commands, Traps, Phase!InForce, Phase!ControllerAlive, Phase!settings,
            Phase!children, Phase!signals, Phase!From, Phase!Exiting
<1>1. CASE Phase!SetBalancing \/ Phase!SetDemotion \/ Phase!CommandFails
  BY <1>1 DEF Phase!SetBalancing, Phase!SetDemotion, Phase!CommandFails
<1>2. CASE Phase!StartController \/ Phase!NoteController
  <2>1. CASE Phase!StartController
    BY <2>1 DEF Phase!StartController
  <2>2. CASE Phase!NoteController
    BY <2>2 DEF Phase!NoteController
  <2>3. QED
    BY <1>2, <2>1, <2>2
<1>3. CASE Phase!StartExperiment
  BY <1>3 DEF Phase!StartExperiment
<1>4. CASE Phase!StartRecorder
  BY <1>4 DEF Phase!StartRecorder
<1>5. CASE Phase!NoteRecorder
  BY <1>5 DEF Phase!NoteRecorder
<1>6. CASE Phase!ScriptEnds
  BY <1>6 DEF Phase!ScriptEnds
<1>7. CASE Phase!Terminate
  BY <1>7 DEF Phase!Terminate
<1>8. CASE Phase!TakeSignal
  BY <1>8 DEF Phase!TakeSignal, Phase!InTrap
<1>9. CASE Phase!TakeSignalInTrap
  BY <1>9 DEF Phase!TakeSignalInTrap, Phase!InTrap
<1>10. CASE Phase!WaitRecorder \/ Phase!StopController
  BY <1>10 DEF Phase!WaitRecorder, Phase!StopController
<1>11. CASE Phase!RestoreBalancing
  BY <1>11 DEF Phase!RestoreBalancing
<1>12. CASE Phase!RestoreDemotion
  <2>1. CASE resume = "exit"
    BY <1>12, <2>1 DEF Phase!RestoreDemotion
  <2>2. CASE resume \in Commands
    BY <1>12, <2>2 DEF Phase!RestoreDemotion
  <2>3. QED
    BY <1>12, <2>1, <2>2 DEF Phase!RestoreDemotion
<1>13. CASE Phase!RestoreFails
  BY <1>13 DEF Phase!RestoreFails
<1>14. CASE Phase!ControllerRuns \/ Phase!ExperimentEnds \/ Phase!RecorderEnds
  BY <1>14 DEF Phase!ControllerRuns, Phase!ExperimentEnds, Phase!RecorderEnds
<1>15. CASE UNCHANGED phaseVars
  BY <1>15 DEF phaseVars
<1>16. QED
  BY <1>1, <1>2, <1>3, <1>4, <1>5, <1>6, <1>7, <1>8, <1>9, <1>10, <1>11, <1>12, <1>13, <1>14,
     <1>15 DEF Phase!PhaseNext

-----------------------------------------------------------------------------
(***************************************************************************)
(* ArtifactStream.                                                         *)
(***************************************************************************)

Sound == export # "cut" /\ origin # "dead" /\ ~stalled /\ ~reset

(* passed[n] members have entered link n.  A link whose sender has closed  *)
(* it had the whole archive by then, or nothing (the server's error).      *)
Counts(passed) ==
  /\ passed \in [1 .. Relays + 2 -> Nat]
  /\ passed[1] = exported /\ passed[Relays + 2] = unpacked
  /\ \A n \in 1 .. Relays + 1 :
       /\ link[n] \in Seq({"member"})
       /\ passed[n] = passed[n + 1] + Len(link[n])
       /\ n \notin open => passed[n] \in {0, Members}

(* What holds while a guest reads, the export and the server have not      *)
(* failed and no relay gave up or was reset: relays end from the server's  *)
(* side on.                                                                *)
Reading ==
  /\ \E passed : Counts(passed)
  /\ \A h \in 1 .. Relays :
       /\ relay[h] = "relaying" => h + 1 \in open
       /\ relay[h] # "relaying" => h \notin open
  /\ origin \in {"request", "streaming"} => 1 \in open
  /\ origin = "request" => exported = 0 /\ export = "running"
  /\ export = "whole" => exported = Members

ArtifactInv ==
  /\ export \in {"running", "whole", "cut"}
  /\ DOMAIN link = 1 .. Relays + 1
  /\ DOMAIN relay = 1 .. Relays
  /\ fetch = "starting" =>
       /\ origin = "idle" /\ exported = 0 /\ unpacked = 0 /\ export = "running"
       /\ \A n \in 1 .. Relays + 1 : link[n] = <<>>
  /\ fetch = "reading" /\ Sound => Reading
  /\ Artifact!ReadyIsWhole

(* A guest begins with nothing under way.                                  *)
LEMMA ArtifactInitInv == Artifact!ArtifactInit => ArtifactInv
  BY DEF Artifact!ArtifactInit, ArtifactInv, Artifact!Links, Artifact!Hops,
         Artifact!ReadyIsWhole

(* The connection opens every link, with nothing in any.                   *)
LEMMA ConnectStep ==
  ASSUME ArtifactInv, Artifact!Connect
  PROVE  ArtifactInv'
<1>1. Reading'
  <2>1. PICK zero \in [1 .. Relays + 2 -> Nat] : \A n \in 1 .. Relays + 2 : zero[n] = 0
    <3>1. [n \in 1 .. Relays + 2 |-> 0] \in [1 .. Relays + 2 -> Nat]
      OBVIOUS
    <3>2. QED
      BY <3>1
  <2>2. /\ 1 \in 1 .. Relays + 2 /\ Relays + 2 \in 1 .. Relays + 2
        /\ \A n \in 1 .. Relays + 1 : n \in 1 .. Relays + 2 /\ n + 1 \in 1 .. Relays + 2
        /\ <<>> \in Seq({"member"}) /\ Len(<<>>) = 0
    BY ReplaysAssumption
  <2>3. Counts(zero)'
    <3>1. /\ exported' = 0 /\ unpacked' = 0 /\ open' = 1 .. Relays + 1
          /\ \A n \in 1 .. Relays + 1 : link'[n] = <<>>
      BY DEF ArtifactInv, Artifact!Connect, Artifact!Links
    <3>2. ASSUME NEW n \in 1 .. Relays + 1
          PROVE  /\ link'[n] \in Seq({"member"}) /\ Len(link'[n]) = 0
                 /\ zero[n] = 0 /\ zero[n + 1] = 0 /\ n \in open'
      BY <2>1, <2>2, <3>1, <3>2
    <3>3. QED
      BY <2>1, <2>2, <3>1, <3>2 DEF Counts
  <2>4. QED
    BY <2>3, ReplaysAssumption
       DEF Reading, ArtifactInv, Artifact!Connect, Artifact!Links, Artifact!Hops
<1>2. QED
  BY <1>1 DEF ArtifactInv, Artifact!Connect, Artifact!Hops, Artifact!ReadyIsWhole

(* Counting one more at one place leaves the other counts.                 *)
LEMMA OneMore ==
  ASSUME NEW f \in [1 .. Relays + 2 -> Nat], NEW i \in 1 .. Relays + 2
  PROVE  \E g \in [1 .. Relays + 2 -> Nat] :
           g[i] = f[i] + 1 /\ \A n \in 1 .. Relays + 2 : n # i => g[n] = f[n]
<1>1. [f EXCEPT ![i] = f[i] + 1] \in [1 .. Relays + 2 -> Nat]
  OBVIOUS
<1>2. QED
  BY <1>1

(* While the guest reads, whoever has not ended is heard.                  *)
LEMMA HeardWhileOpen ==
  ASSUME Reading, fetch = "reading", NEW n \in 1 .. Relays + 1, n \in open
  PROVE  Artifact!Heard(n)
  BY ReplaysAssumption DEF Reading, Artifact!Heard, Artifact!Hops

(* The server adds to the first link only, and closes it when everything   *)
(* is in it, or nothing was sent.                                          *)
LEMMA ServerStep ==
  ASSUME ArtifactInv,
         \/ Artifact!NoArtifact \/ Artifact!StartExport \/ Artifact!Stream
         \/ Artifact!ExportEnds \/ Artifact!StreamEnds \/ Artifact!ClientGone
         \/ Artifact!ServerDies
  PROVE  ArtifactInv'
<1> USE DEF Artifact!HangUp, Artifact!server, Artifact!relays, Artifact!guest
<1>0. /\ fetch' = fetch /\ stalled' = stalled /\ reset' = reset /\ unpacked' = unpacked /\ relay' = relay
      /\ fetch # "starting" \/ origin # "idle"
      /\ origin \in {"request", "streaming"}
      /\ Sound' => Sound
  BY DEF Artifact!NoArtifact, Artifact!StartExport, Artifact!Stream,
         Artifact!ExportEnds, Artifact!StreamEnds, Artifact!ClientGone,
         Artifact!ServerDies, Sound
<1>1. DOMAIN link' = 1 .. Relays + 1 /\ export' \in {"running", "whole", "cut"}
  BY DEF Artifact!NoArtifact, Artifact!StartExport, Artifact!Stream, ArtifactInv,
         Artifact!ExportEnds, Artifact!StreamEnds, Artifact!ClientGone,
         Artifact!ServerDies
<1>2. ASSUME fetch = "reading", Sound'
      PROVE  Reading'
  <2>1. Reading /\ 1 \in open /\ Sound
    BY <1>0, <1>2 DEF ArtifactInv, Reading
  <2>2. PICK passed : Counts(passed)
    BY <2>1 DEF Reading
  <2>3. /\ 1 \in 1 .. Relays + 1 /\ 1 \in 1 .. Relays + 2
        /\ Relays + 2 \in 2 .. Relays + 2
        /\ \A n \in 1 .. Relays + 1 : n + 1 \in 2 .. Relays + 2
    BY ReplaysAssumption
  <2>4. ASSUME link' = link, exported' = exported, open' = open \/ (open' = open \ {1} /\ exported \in {0, Members})
        PROVE  Counts(passed)'
    BY <2>2, <2>4, <1>0 DEF Counts
  <2>5. CASE Artifact!NoArtifact
    <3>1. Counts(passed)'
      BY <2>1, <2>4, <2>5 DEF Artifact!NoArtifact, Reading
    <3>2. QED
      BY <3>1, <2>1, <2>5, ReplaysAssumption DEF Artifact!NoArtifact, Reading
  <2>6. CASE Artifact!StartExport
    BY <2>1, <2>4, <2>6 DEF Artifact!StartExport, Reading
  <2>7. CASE Artifact!Stream
    <3>1. link[1] \in Seq({"member"}) /\ passed[1] \in Nat
      BY <2>2, <2>3 DEF Counts
    <3>2. /\ Append(link[1], "member") \in Seq({"member"})
          /\ Len(Append(link[1], "member")) = Len(link[1]) + 1 /\ Len(link[1]) \in Nat
      BY <3>1, AppendProperties, LenProperties
    <3>3. /\ link' = [link EXCEPT ![1] = Append(link[1], "member")] /\ open' = open
          /\ exported' = exported + 1
      BY <2>7 DEF Artifact!Stream
    <3>4. PICK more \in [1 .. Relays + 2 -> Nat] :
             /\ more[1] = passed[1] + 1
             /\ \A n \in 1 .. Relays + 2 : n # 1 => more[n] = passed[n]
      <4>1. passed \in [1 .. Relays + 2 -> Nat]
        BY <2>2 DEF Counts
      <4>2. 1 \in 1 .. Relays + 2
        BY <2>3
      <4>3. QED
        BY <4>1, <4>2, OneMore
    <3>5. ASSUME NEW n \in 1 .. Relays + 1
          PROVE  /\ link'[n] \in Seq({"member"})
                 /\ more[n] = more[n + 1] + Len(link'[n])
                 /\ n \notin open' => more[n] \in {0, Members}
      <4>0. /\ link'[n] = IF n = 1 THEN Append(link[1], "member") ELSE link[n]
            /\ n + 1 # 1 /\ n + 1 \in 1 .. Relays + 2 /\ n \in 1 .. Relays + 2
        <5>1. n \in DOMAIN link
          BY DEF ArtifactInv
        <5>2. link'[n] = IF n = 1 THEN Append(link[1], "member") ELSE link[n]
          BY <3>3, <5>1
        <5>3. n + 1 # 1 /\ n + 1 \in 1 .. Relays + 2 /\ n \in 1 .. Relays + 2
          BY ReplaysAssumption
        <5>4. QED
          BY <5>2, <5>3
      <4>1. more[n + 1] = passed[n + 1] /\ passed[n + 1] \in Nat
        BY <4>0, <3>4, <2>2 DEF Counts
      <4>2. CASE n = 1
        <5>1. passed[1] = passed[1 + 1] + Len(link[1])
          BY <2>2, <2>3 DEF Counts
        <5>2. QED
          BY <4>0, <4>1, <4>2, <5>1, <2>1, <3>1, <3>2, <3>3, <3>4
      <4>3. CASE n # 1
        BY <4>0, <4>1, <4>3, <2>1, <2>2, <3>3, <3>4 DEF Counts
      <4>4. QED
        BY <4>2, <4>3
    <3>6. Counts(more)'
      BY <2>2, <2>3, <3>3, <3>4, <3>5, <1>0 DEF Counts
    <3>7. QED
      BY <3>6, <2>1, <2>7 DEF Reading, Artifact!Stream
  <2>8. CASE Artifact!ExportEnds
    <3>1. /\ export' = "whole" /\ link' = link /\ exported = Members
          /\ UNCHANGED <<open, exported, origin>>
      BY <2>8, <1>2 DEF Artifact!ExportEnds, Sound
    <3>2. Counts(passed)'
      BY <2>4, <3>1
    <3>3. QED
      BY <3>1, <3>2, <2>1, <2>8, <1>0 DEF Reading, Artifact!ExportEnds
  <2>9. CASE Artifact!StreamEnds
    <3>1. exported = Members
      BY <2>1, <2>9 DEF ArtifactInv, Reading, Sound, Artifact!StreamEnds
    <3>2. Counts(passed)'
      BY <2>4, <2>9, <3>1 DEF Artifact!StreamEnds
    <3>3. QED
      BY <3>2, <2>1, <2>9, ReplaysAssumption DEF Artifact!StreamEnds, Reading
  <2>10. CASE Artifact!ClientGone
    BY <2>1, <2>3, <2>10, <1>2, HeardWhileOpen DEF Artifact!ClientGone
  <2>11. CASE Artifact!ServerDies
    BY <1>2, <2>11 DEF Artifact!ServerDies, Sound
  <2>12. QED
    BY <2>5, <2>6, <2>7, <2>8, <2>9, <2>10, <2>11
<1>3. Artifact!ReadyIsWhole'
  <2>1. export = "cut" => export' = "cut"
    BY DEF Artifact!NoArtifact, Artifact!StartExport, Artifact!Stream,
           Artifact!ExportEnds, Artifact!StreamEnds, Artifact!ClientGone,
           Artifact!ServerDies
  <2>2. QED
    BY <2>1, <1>0 DEF ArtifactInv, Artifact!ReadyIsWhole
<1>4. QED
  BY <1>0, <1>1, <1>2, <1>3 DEF ArtifactInv

(* A relay moves what it reads from its link to the next.                  *)
LEMMA PassStep ==
  ASSUME ArtifactInv, NEW h \in 1 .. Relays, Artifact!Pass(h)
  PROVE  ArtifactInv'
<1> USE DEF Artifact!server, Artifact!relays, Artifact!guest
<1>0. /\ UNCHANGED <<origin, exported, export, open, relay, stalled, reset, fetch, unpacked>>
      /\ link' = [link EXCEPT ![h] = Tail(link[h]), ![h + 1] = Append(link[h + 1], Head(link[h]))]
      /\ relay[h] = "relaying" /\ link[h] # <<>>
  BY DEF Artifact!Pass
<1>1. DOMAIN link' = 1 .. Relays + 1
  BY <1>0 DEF ArtifactInv
<1>2. fetch # "starting"
  BY <1>0, ReplaysAssumption DEF ArtifactInv
<1>3. ASSUME fetch = "reading", Sound
      PROVE  Reading'
  <2>1. Reading
    BY <1>3 DEF ArtifactInv
  <2>2. PICK passed : Counts(passed)
    BY <2>1 DEF Reading
  <2>3. /\ h \in Nat /\ h \in 1 .. Relays + 1 /\ h + 1 \in 1 .. Relays + 1
        /\ h \in 1 .. Relays + 2 /\ h + 1 \in 1 .. Relays + 2 /\ h + 1 # h
        /\ h + 1 # 1 /\ h + 1 # Relays + 2
        /\ 1 \in 1 .. Relays + 2 /\ Relays + 2 \in 1 .. Relays + 2
    BY ReplaysAssumption
  <2>4. /\ passed \in [1 .. Relays + 2 -> Nat]
        /\ link[h] \in Seq({"member"}) /\ link[h + 1] \in Seq({"member"})
        /\ h + 1 \in open
    BY <1>0, <2>1, <2>2, <2>3 DEF Counts, Reading
  <2>5. PICK more \in [1 .. Relays + 2 -> Nat] :
           /\ more[h + 1] = passed[h + 1] + 1
           /\ \A n \in 1 .. Relays + 2 : n # h + 1 => more[n] = passed[n]
    BY <2>3, <2>4, OneMore
  <2>6. /\ Tail(link[h]) \in Seq({"member"}) /\ Len(Tail(link[h])) = Len(link[h]) - 1
        /\ Head(link[h]) \in {"member"} /\ Len(link[h]) \in Nat
    BY <1>0, <2>4, HeadTailProperties, LenProperties
  <2>7. /\ Append(link[h + 1], Head(link[h])) \in Seq({"member"})
        /\ Len(Append(link[h + 1], Head(link[h]))) = Len(link[h + 1]) + 1
        /\ Len(link[h + 1]) \in Nat
    BY <2>4, <2>6, AppendProperties, LenProperties
  <2>8. ASSUME NEW n \in 1 .. Relays + 1
        PROVE  /\ link'[n] \in Seq({"member"})
               /\ more[n] = more[n + 1] + Len(link'[n])
               /\ n \notin open' => more[n] \in {0, Members}
    <3>1. /\ n \in DOMAIN link /\ n \in 1 .. Relays + 2 /\ n + 1 \in 1 .. Relays + 2
          /\ n \in Nat
      BY ReplaysAssumption DEF ArtifactInv
    <3>2. link'[n] = IF n = h + 1 THEN Append(link[h + 1], Head(link[h]))
                     ELSE IF n = h THEN Tail(link[h]) ELSE link[n]
      BY <1>0, <2>3, <3>1 DEF ArtifactInv
    <3>3. /\ passed[n] = passed[n + 1] + Len(link[n]) /\ link[n] \in Seq({"member"})
          /\ n \notin open => passed[n] \in {0, Members}
          /\ passed[n + 1] \in Nat /\ passed[n] \in Nat
      BY <2>2, <3>1 DEF Counts
    <3>4. CASE n = h
      <4>1. link'[n] = Tail(link[h]) /\ more[n] = passed[n]
        BY <2>3, <2>5, <3>1, <3>2, <3>4
      <4>2. more[n + 1] = passed[n + 1] + 1 /\ Len(link'[n]) = Len(link[n]) - 1
            /\ Len(link[n]) \in Nat
        BY <2>5, <2>6, <4>1, <3>4
      <4>3. /\ more[n] = more[n + 1] + Len(link'[n])
            /\ link'[n] \in Seq({"member"})
        BY <2>6, <3>3, <3>4, <4>1, <4>2
      <4>4. open' = open /\ (n \notin open => passed[n] \in {0, Members})
        BY <1>0, <3>3
      <4>5. QED
        BY <4>1, <4>3, <4>4
    <3>5. CASE n = h + 1
      BY <2>3, <2>4, <2>5, <2>7, <3>1, <3>2, <3>3, <3>5, <1>0
    <3>6. CASE n # h /\ n # h + 1
      <4>1. link'[n] = link[n] /\ more[n] = passed[n] /\ more[n + 1] = passed[n + 1]
        BY <2>3, <2>5, <3>1, <3>2, <3>6
      <4>2. open' = open
        BY <1>0
      <4>3. QED
        BY <3>3, <4>1, <4>2
    <3>7. QED
      BY <3>4, <3>5, <3>6
  <2>9. Counts(more)'
    <3>1. more[1] = exported' /\ more[Relays + 2] = unpacked'
      BY <1>0, <2>2, <2>3, <2>5 DEF Counts
    <3>2. QED
      BY <3>1, <2>5, <2>8 DEF Counts
  <2>10. QED
    BY <2>1, <2>9, <1>0 DEF Reading
<1>4. QED
  BY <1>0, <1>1, <1>2, <1>3 DEF ArtifactInv, Sound, Artifact!ReadyIsWhole

(* A relay that ends without having given up, or having been reset, has    *)
(* passed on what there was.                                               *)
LEMMA LeaveStep ==
  ASSUME ArtifactInv, NEW h \in 1 .. Relays,
         Artifact!RelayEnds(h) \/ Artifact!RelayStalls(h) \/ Artifact!RelayReset(h)
  PROVE  ArtifactInv'
<1> USE DEF Artifact!server, Artifact!relays, Artifact!guest
<1>0. /\ UNCHANGED <<origin, exported, export, link, fetch, unpacked>>
      /\ open' = open \ {h + 1} /\ relay' = [relay EXCEPT ![h] = "gone"]
      /\ relay[h] = "relaying" /\ (stalled => stalled') /\ (reset => reset')
  BY DEF Artifact!RelayEnds, Artifact!RelayStalls, Artifact!RelayReset, Artifact!Leave
<1>1. DOMAIN relay' = 1 .. Relays
  BY <1>0 DEF ArtifactInv
<1>2. ASSUME fetch = "reading", Sound'
      PROVE  Reading'
  <2>1. Sound /\ Reading /\ Artifact!RelayEnds(h)
    BY <1>0, <1>2 DEF ArtifactInv, Sound, Artifact!RelayStalls, Artifact!RelayReset
  <2>2. PICK passed : Counts(passed)
    BY <2>1 DEF Reading
  <2>3. /\ h \in Nat /\ h \in 1 .. Relays + 1 /\ h + 1 \in 1 .. Relays + 1
        /\ h + 1 \in 1 .. Relays + 2 /\ h \in 1 .. Relays + 2 /\ h + 1 # h /\ h + 1 # 1
    BY ReplaysAssumption
  <2>4. h + 1 \in open
    BY <1>0, <2>1 DEF Reading
  <2>5. h \notin open /\ link[h] = <<>>
    BY <1>2, <2>1, <2>3, <2>4, HeardWhileOpen DEF Artifact!RelayEnds, Artifact!AtEnd
  <2>6. passed[h + 1] \in {0, Members}
    <3>1. passed[h] \in {0, Members} /\ passed[h] = passed[h + 1] + Len(link[h])
      BY <2>2, <2>3, <2>5 DEF Counts
    <3>2. Len(link[h]) = 0 /\ passed[h + 1] \in Nat
      BY <2>2, <2>3, <2>5 DEF Counts
    <3>3. QED
      BY <3>1, <3>2
  <2>7. Counts(passed)'
    BY <1>0, <2>2, <2>6 DEF Counts
  <2>8. \A g \in 1 .. Relays : /\ relay'[g] = "relaying" => g + 1 \in open'
                               /\ relay'[g] # "relaying" => g \notin open'
    <3>1. ASSUME NEW g \in 1 .. Relays
          PROVE  /\ relay'[g] = "relaying" => g + 1 \in open'
                 /\ relay'[g] # "relaying" => g \notin open'
      <4>1. relay'[g] = IF g = h THEN "gone" ELSE relay[g]
        BY <1>0 DEF ArtifactInv
      <4>2. g + 1 = h + 1 => g = h
        OBVIOUS
      <4>3. QED
        BY <4>1, <4>2, <1>0, <2>1, <2>5 DEF Reading
    <3>2. QED
      BY <3>1
  <2>9. QED
    BY <1>0, <2>1, <2>3, <2>7, <2>8 DEF Reading
<1>3. QED
  BY <1>0, <1>1, <1>2 DEF ArtifactInv, Artifact!ReadyIsWhole

(* The guest takes a member from the last link, or finds its end.          *)
LEMMA GuestStep ==
  ASSUME ArtifactInv, Artifact!Unpack \/ Artifact!UnpackEnds
  PROVE  ArtifactInv'
<1> DEFINE last == Relays + 1
<1> USE DEF Artifact!server, Artifact!relays, Artifact!guest, Artifact!Last
<1>0. /\ UNCHANGED <<origin, exported, export, open, relay, stalled, reset>> /\ fetch = "reading"
      /\ DOMAIN link' = DOMAIN link
  BY DEF Artifact!Unpack, Artifact!UnpackEnds
<1>1. /\ last \in Nat /\ last \in 1 .. Relays + 1 /\ last \in 1 .. Relays + 2
      /\ last + 1 = Relays + 2 /\ last + 1 \in 1 .. Relays + 2 /\ last + 1 # 1
      /\ 1 \in 1 .. Relays + 2
  BY ReplaysAssumption
<1>2. CASE Artifact!UnpackEnds
  <2>1. ASSUME Sound, unpacked > 0
        PROVE  unpacked = Members
    <3>1. PICK passed : Counts(passed)
      BY <1>0, <2>1 DEF ArtifactInv, Reading
    <3>2. /\ passed[last] \in {0, Members} /\ passed[last] = unpacked + Len(link[last])
          /\ unpacked \in Nat
      BY <1>1, <1>2, <3>1 DEF Counts, Artifact!UnpackEnds
    <3>3. Len(link[last]) = 0
      BY <1>2 DEF Artifact!UnpackEnds
    <3>4. QED
      BY <2>1, <3>2, <3>3
  <2>2. /\ fetch' \in {"ready", "failed"} /\ (fetch' = "ready" => unpacked > 0)
        /\ link' = link /\ unpacked' = unpacked
    BY <1>2 DEF Artifact!UnpackEnds
  <2>3. QED
    BY <1>0, <2>1, <2>2 DEF ArtifactInv, Artifact!ReadyIsWhole, Sound
<1>3. CASE Artifact!Unpack
  <2>0. /\ link' = [link EXCEPT ![last] = Tail(link[last])] /\ unpacked' = unpacked + 1
        /\ fetch' = fetch /\ link[last] # <<>>
    BY <1>3 DEF Artifact!Unpack
  <2>1. ASSUME Sound
        PROVE  Reading'
    <3>1. PICK passed : Counts(passed)
      BY <1>0, <2>1 DEF ArtifactInv, Reading
    <3>2. passed \in [1 .. Relays + 2 -> Nat] /\ link[last] \in Seq({"member"})
      BY <1>1, <3>1 DEF Counts
    <3>3. PICK more \in [1 .. Relays + 2 -> Nat] :
             /\ more[last + 1] = passed[last + 1] + 1
             /\ \A n \in 1 .. Relays + 2 : n # last + 1 => more[n] = passed[n]
      BY <1>1, <3>2, OneMore
    <3>4. /\ Tail(link[last]) \in Seq({"member"}) /\ Len(link[last]) \in Nat
          /\ Len(Tail(link[last])) = Len(link[last]) - 1
      BY <2>0, <3>2, HeadTailProperties, LenProperties
    <3>5. ASSUME NEW n \in 1 .. Relays + 1
          PROVE  /\ link'[n] \in Seq({"member"})
                 /\ more[n] = more[n + 1] + Len(link'[n])
                 /\ n \notin open' => more[n] \in {0, Members}
      <4>1. /\ n \in DOMAIN link /\ n \in 1 .. Relays + 2 /\ n + 1 \in 1 .. Relays + 2
            /\ n \in Nat /\ n # last + 1 /\ (n + 1 = last + 1 => n = last)
        BY ReplaysAssumption DEF ArtifactInv
      <4>2. link'[n] = IF n = last THEN Tail(link[last]) ELSE link[n]
        BY <2>0, <4>1
      <4>3. /\ passed[n] = passed[n + 1] + Len(link[n]) /\ link[n] \in Seq({"member"})
            /\ n \notin open => passed[n] \in {0, Members}
            /\ passed[n + 1] \in Nat /\ passed[n] \in Nat
        BY <3>1, <4>1 DEF Counts
      <4>4. CASE n = last
        <5>1. link'[n] = Tail(link[last]) /\ more[n] = passed[n]
          BY <3>3, <4>1, <4>2, <4>4
        <5>2. more[n + 1] = passed[n + 1] + 1 /\ Len(link'[n]) = Len(link[n]) - 1
              /\ Len(link[n]) \in Nat
          BY <3>3, <3>4, <4>2, <4>4
        <5>3. QED
          BY <3>4, <4>3, <5>1, <5>2, <1>0
      <4>5. CASE n # last
        BY <1>0, <3>3, <4>1, <4>2, <4>3, <4>5
      <4>6. QED
        BY <4>4, <4>5
    <3>6. Counts(more)'
      <4>1. more[1] = exported' /\ more[Relays + 2] = unpacked'
        BY <1>0, <1>1, <2>0, <3>1, <3>3 DEF Counts
      <4>2. QED
        BY <4>1, <3>3, <3>5 DEF Counts
    <3>7. QED
      BY <1>0, <2>1, <3>6 DEF ArtifactInv, Reading
  <2>2. QED
    BY <1>0, <2>0, <2>1 DEF ArtifactInv, Artifact!ReadyIsWhole, Sound
<1>4. QED
  BY <1>2, <1>3

(* Every step of the server, the relays and the guest.                     *)
LEMMA ArtifactStep ==
  ASSUME ArtifactInv, Artifact!ArtifactNext \/ UNCHANGED artifactVars
  PROVE  ArtifactInv'
<1> USE DEF Artifact!server, Artifact!relays, Artifact!guest
<1>1. CASE Artifact!BootFails \/ Artifact!Refused \/ Artifact!UnpackFails
  <2>1. /\ fetch' = "failed" /\ link' = link /\ relay' = relay /\ export' = export
        /\ unpacked' = unpacked
    BY <1>1 DEF Artifact!BootFails, Artifact!Refused, Artifact!UnpackFails
  <2>2. QED
    BY <2>1 DEF ArtifactInv, Artifact!ReadyIsWhole
<1>2. CASE Artifact!CloseForwarder \/ UNCHANGED artifactVars
  <2>1. /\ UNCHANGED <<origin, exported, export, link, open, relay, stalled, reset, fetch, unpacked>>
    BY <1>2 DEF Artifact!CloseForwarder, artifactVars
  <2>2. Reading => Reading'
    BY <2>1 DEF Reading, Counts
  <2>3. QED
    BY <2>1, <2>2 DEF ArtifactInv, Artifact!ReadyIsWhole, Sound
<1>3. QED
  BY <1>1, <1>2, ConnectStep, ServerStep, PassStep, LeaveStep, GuestStep
     DEF Artifact!ArtifactNext, Artifact!Hops

-----------------------------------------------------------------------------
(***************************************************************************)
(* Batches: what \div and % say about whole ones.                          *)
(***************************************************************************)

(* A number is so many whole batches and a rest.                           *)
LEMMA Quotient ==
  ASSUME NEW s \in Nat
  PROVE  /\ s \div Batch \in Nat /\ s % Batch \in 0 .. Batch - 1
         /\ s = (s \div Batch) * Batch + (s % Batch)
<1>1. /\ s \div Batch \in Nat /\ s % Batch \in 0 .. Batch - 1
      /\ s = Batch * (s \div Batch) + (s % Batch)
  BY ReplaysAssumption
<1>2. QED
  BY <1>1, ReplaysAssumption

(* ... in one way only.                                                    *)
LEMMA UniqueQuotient ==
  ASSUME NEW p \in Nat, NEW q \in Nat, NEW r \in 0 .. Batch - 1, NEW t \in 0 .. Batch - 1,
         p * Batch + r = q * Batch + t
  PROVE  p = q /\ r = t
<1>1. (p - q) * Batch = t - r /\ p - q \in Int
  BY ReplaysAssumption
<1>2. t - r < Batch /\ r - t < Batch
  BY ReplaysAssumption
<1>3. ~(p - q >= 1)
  BY <1>1, <1>2, ReplaysAssumption
<1>4. ~(p - q <= -1)
  BY <1>1, <1>2, ReplaysAssumption
<1>5. p = q
  BY <1>1, <1>3, <1>4, ReplaysAssumption
<1>6. QED
  BY <1>1, <1>5, ReplaysAssumption

(* Whole batches leave no rest.                                            *)
LEMMA WholeBatches ==
  ASSUME NEW q \in Nat
  PROVE  (q * Batch) % Batch = 0
<1>1. q * Batch \in Nat /\ 0 \in 0 .. Batch - 1
  BY ReplaysAssumption
<1>2. /\ (q * Batch) \div Batch \in Nat /\ (q * Batch) % Batch \in 0 .. Batch - 1
      /\ ((q * Batch) \div Batch) * Batch + ((q * Batch) % Batch) = q * Batch + 0
  BY <1>1, Quotient
<1>3. QED
  BY <1>1, <1>2, UniqueQuotient

(* The end of the batch that session s + 1 belongs to.                     *)
LEMMA BatchFacts ==
  ASSUME NEW s \in Nat
  PROVE  /\ (s \div Batch) * Batch \in Nat /\ (s \div Batch) * Batch <= s
         /\ (s \div Batch + 1) * Batch \in Nat /\ s < (s \div Batch + 1) * Batch
         /\ ((s \div Batch + 1) * Batch) % Batch = 0
         /\ s + 1 < (s \div Batch + 1) * Batch => (s + 1) \div Batch = s \div Batch
<1>1. PICK q \in Nat, r \in 0 .. Batch - 1 : q = s \div Batch /\ s = q * Batch + r
  BY Quotient
<1>2. (q + 1) * Batch = q * Batch + Batch /\ q * Batch \in Nat
  BY ReplaysAssumption
<1>3. (q + 1) * Batch \in Nat /\ s < (q + 1) * Batch /\ q * Batch <= s
  BY <1>1, <1>2, ReplaysAssumption
<1>4. ((q + 1) * Batch) % Batch = 0
  BY WholeBatches
<1>5. ASSUME s + 1 < (q + 1) * Batch
      PROVE  (s + 1) \div Batch = q
  <2>1. PICK p \in Nat, t \in 0 .. Batch - 1 : p = (s + 1) \div Batch /\ s + 1 = p * Batch + t
    BY Quotient
  <2>2. r + 1 \in 0 .. Batch - 1 /\ q * Batch + (r + 1) = p * Batch + t
    BY <1>1, <1>2, <1>5, <2>1, ReplaysAssumption
  <2>3. QED
    BY <2>1, <2>2, UniqueQuotient
<1>6. QED
  BY <1>1, <1>2, <1>3, <1>4, <1>5

-----------------------------------------------------------------------------
(***************************************************************************)
(* DockerReplays.                                                          *)
(***************************************************************************)

Replicas == 1 .. Sessions

ReplayStates == {"none", "create", "manifest", "steps", "hold", "remove", "exited"}

FleetTypeOK ==
  /\ script \in {"node0", "colocate"}
  /\ active \in BOOLEAN /\ fleetRunning \in BOOLEAN
  /\ fleet \in {"launch", "start", "await", "steps", "sample", "collect", "finally", "list",
                "over", "died"}
  /\ script = "node0" => fleet # "collect"
  /\ script = "colocate" => fleet \notin {"steps", "sample", "finally", "list"}
  /\ started \in 0 .. Sessions
  /\ replay \in [Replicas -> ReplayStates]
  /\ starting \subseteq 1 .. started /\ container \subseteq 1 .. started
  /\ removing \subseteq 1 .. started
  /\ written \subseteq 1 .. started

(* A replay that has not ended waits for its container, or holds it, or    *)
(* waits for its removal; the container of one that has ended is there     *)
(* because a signal ended it, or because nobody could remove it.           *)
ContainersInv ==
  /\ \A i \in Replicas : replay[i] = "none" <=> i > started
  /\ \A i \in Replicas : replay[i] \in {"manifest", "steps", "hold"} => i \in container
  /\ starting \cap (container \cup removing) = {}
  /\ \A i \in starting : replay[i] \in {"create", "exited"}
  /\ \A i \in removing : replay[i] \in {"remove", "exited"}
  /\ \A i \in starting \cup container : replay[i] = "exited" => i \in cut \cup left
  /\ fleet = "start" => started < Sessions
  /\ script = "colocate" /\ fleet = "launch" => started = 0
  /\ fleet \in {"list", "over"} => \A i \in Replicas : replay[i] \in {"none", "exited"}
  /\ fleet = "over" /\ script = "node0" =>
       starting \subseteq missed /\ container \subseteq left \cup missed

(* The sessions of the batches before the one that is under way.           *)
Before ==
  CASE fleet = "start" -> (started \div Batch) * Batch
    [] fleet \in {"await", "steps"} -> ((started - 1) \div Batch) * Batch
    [] OTHER -> started

(* node0 goes on with a batch when the one before it is written; what is   *)
(* written is held, until a signal.                                        *)
BatchesInv ==
  script = "node0" =>
    /\ fleet \in {"launch", "await", "steps", "sample"} =>
         started % Batch = 0 \/ started = Sessions
    /\ ~active /\ fleet \in {"launch", "start", "await", "steps", "sample"} =>
         /\ \A i \in 1 .. started : i <= Before => i \in written
         /\ fleetRunning => \A i \in written : replay[i] = "hold"
    /\ fleet \in {"await", "steps"} => started > 0

FleetInv == FleetTypeOK /\ ContainersInv /\ BatchesInv

(* What the drivers promise of their containers and samples.               *)
LEMMA FleetPromise == FleetInv => FleetAccountedFor
<1> SUFFICES ASSUME FleetInv
             PROVE  FleetAccountedFor
  OBVIOUS
<1> USE DEF FleetInv, FleetTypeOK, ContainersInv, Replicas, ReplayStates
<1>1. Docker!ContainersExplained
  <2>1. ASSUME fleet = "over"
        PROVE  /\ \A i \in Replicas : replay[i] \in {"none", "exited"}
               /\ script = "node0" => container \subseteq left \cup missed
               /\ script # "node0" => container \subseteq left \cup cut
    <3>1. \A i \in Replicas : replay[i] \in {"none", "exited"}
      BY <2>1
    <3>2. \A i \in container : i \in Replicas /\ replay[i] # "none"
      BY ReplaysAssumption
    <3>3. QED
      BY <2>1, <3>1, <3>2
  <2>2. QED
    BY <2>1 DEF Docker!ContainersExplained, Docker!Live, Docker!Replicas
<1>2. Docker!SampledWhenResident
  <2>1. ASSUME fleet = "sample"
        PROVE  /\ started % Batch = 0 \/ started = Sessions
               /\ ~active => 1 .. started \subseteq written
               /\ ~active /\ fleetRunning => 1 .. started \subseteq container
    <3>1. script = "node0" /\ Before = started
      BY <2>1 DEF Before
    <3>2. ~active => 1 .. started \subseteq written
      BY <2>1, <3>1 DEF BatchesInv
    <3>3. ~active /\ fleetRunning => \A i \in written : replay[i] = "hold"
      BY <2>1, <3>1 DEF BatchesInv
    <3>4. 1 .. started \subseteq Replicas
      BY ReplaysAssumption
    <3>5. QED
      BY <2>1, <3>1, <3>2, <3>3, <3>4 DEF BatchesInv
  <2>2. QED
    BY <2>1 DEF Docker!SampledWhenResident
<1>3. QED
  BY <1>1, <1>2 DEF FleetAccountedFor

(* A driver begins with no replay.                                         *)
LEMMA FleetInitInv ==
  ASSUME Docker!FleetInit
  PROVE  FleetInv
<1>1. Sessions \in Nat /\ Sessions > 0 /\ Batch \in Nat /\ 0 % Batch = 0
  <2>1. (0 * Batch) % Batch = 0 /\ 0 * Batch = 0
    BY WholeBatches, ReplaysAssumption
  <2>2. QED
    BY <2>1, ReplaysAssumption
<1>2. script \in {"node0", "colocate"} /\ active \in BOOLEAN
  BY DEF Docker!FleetInit
<1>s. FleetTypeOK /\ ContainersInv
  BY <1>1, <1>2 DEF Docker!FleetInit, Docker!Replicas, Replicas, ReplayStates, FleetTypeOK, ContainersInv
<1>3. BatchesInv
  BY <1>1 DEF Docker!FleetInit, BatchesInv
<1>4. QED
  BY <1>s, <1>3 DEF FleetInv

(* One step of a replay, for each that there is.                           *)
LEMMA ReplayStep ==
  ASSUME FleetInv, NEW i \in Replicas,
         \/ Docker!ContainerStarts(i) \/ Docker!CreateFails(i)
         \/ Docker!WriteManifest(i) \/ Docker!ManifestFails(i)
         \/ Docker!StepsEnd(i) \/ Docker!ReplayEnds(i) \/ Docker!Remove(i)
  PROVE  FleetInv'
<1> USE DEF Docker!options, Docker!driverVars, Docker!dockerVars, Docker!causes, Docker!Becomes,
            Replicas, ReplayStates, FleetInv
<1>0. UNCHANGED <<script, active, fleet, started, fleetRunning, missed, cut>>
  BY DEF Docker!ContainerStarts, Docker!CreateFails, Docker!WriteManifest, Docker!ManifestFails,
         Docker!StepsEnd, Docker!ReplayEnds, Docker!Remove
<1>1. CASE Docker!ContainerStarts(i)
  <2>0. /\ \A j \in Replicas : replay'[j] = IF j = i /\ replay[i] = "create" THEN "manifest" ELSE replay[j]
        /\ replay' \in [Replicas -> ReplayStates]
        /\ i \in starting /\ starting' = starting \ {i} /\ container' = container \cup {i}
        /\ UNCHANGED <<removing, written, left>>
    BY <1>1 DEF Docker!ContainerStarts, FleetTypeOK
  <2>1. FleetTypeOK'
    BY <1>0, <2>0 DEF FleetTypeOK
  <2>2. ContainersInv'
    BY <1>0, <2>0, ReplaysAssumption DEF FleetTypeOK, ContainersInv
  <2>3. BatchesInv'
    <3>1. Before' = Before
      BY <1>0 DEF Before
    <3>2. fleetRunning /\ i \in written /\ script = "node0" /\ ~active
              /\ fleet \in {"launch", "start", "await", "steps", "sample"} => replay[i] = "hold"
      BY DEF BatchesInv
    <3>3. \A j \in written : j \in Replicas
      BY ReplaysAssumption DEF FleetTypeOK
    <3>4. QED
      BY <1>0, <2>0, <3>1, <3>2, <3>3 DEF BatchesInv
  <2>4. QED
    BY <2>1, <2>2, <2>3
<1>2. CASE Docker!CreateFails(i)
  <2>0. /\ \A j \in Replicas : replay'[j] = IF j = i /\ replay[i] = "create" THEN "exited" ELSE replay[j]
        /\ replay' \in [Replicas -> ReplayStates]
        /\ i \in starting /\ starting' = starting \ {i}
        /\ UNCHANGED <<removing, container, written, left>>
    BY <1>2 DEF Docker!CreateFails, FleetTypeOK
  <2>1. FleetTypeOK'
    BY <1>0, <2>0 DEF FleetTypeOK
  <2>2. ContainersInv'
    BY <1>0, <2>0, ReplaysAssumption DEF FleetTypeOK, ContainersInv
  <2>3. BatchesInv'
    <3>1. Before' = Before
      BY <1>0 DEF Before
    <3>2. fleetRunning /\ i \in written /\ script = "node0" /\ ~active
              /\ fleet \in {"launch", "start", "await", "steps", "sample"} => replay[i] = "hold"
      BY DEF BatchesInv
    <3>3. \A j \in written : j \in Replicas
      BY ReplaysAssumption DEF FleetTypeOK
    <3>4. QED
      BY <1>0, <2>0, <3>1, <3>2, <3>3 DEF BatchesInv
  <2>4. QED
    BY <2>1, <2>2, <2>3
<1>3. CASE Docker!WriteManifest(i)
  <2>1. FleetTypeOK'
    BY <1>0, <1>3 DEF Docker!WriteManifest, FleetTypeOK
  <2>2. ContainersInv'
    BY <1>0, <1>3 DEF Docker!WriteManifest, FleetTypeOK, ContainersInv
  <2>3. BatchesInv'
    BY <1>0, <1>3 DEF Docker!WriteManifest, FleetTypeOK, BatchesInv, Before
  <2>4. QED
    BY <2>1, <2>2, <2>3
<1>4. CASE Docker!ManifestFails(i)
  <2>1. FleetTypeOK'
    BY <1>0, <1>4 DEF Docker!ManifestFails, FleetTypeOK
  <2>2. ContainersInv'
    BY <1>0, <1>4 DEF Docker!ManifestFails, FleetTypeOK, ContainersInv
  <2>3. BatchesInv'
    BY <1>0, <1>4 DEF Docker!ManifestFails, FleetTypeOK, BatchesInv, Before
  <2>4. QED
    BY <2>1, <2>2, <2>3
<1>5. CASE Docker!StepsEnd(i)
  <2>0. i \in 1 .. started
    BY <1>5, ReplaysAssumption DEF Docker!StepsEnd, FleetTypeOK, ContainersInv
  <2>1. FleetTypeOK'
    BY <1>0, <1>5, <2>0 DEF Docker!StepsEnd, FleetTypeOK
  <2>2. ContainersInv'
    BY <1>0, <1>5 DEF Docker!StepsEnd, FleetTypeOK, ContainersInv
  <2>3. BatchesInv'
    BY <1>0, <1>5 DEF Docker!StepsEnd, FleetTypeOK, BatchesInv, Before
  <2>4. QED
    BY <2>1, <2>2, <2>3
<1>6. CASE Docker!ReplayEnds(i)
  <2>0. i \in 1 .. started
    BY <1>6, ReplaysAssumption DEF Docker!ReplayEnds, FleetTypeOK, ContainersInv
  <2>1. FleetTypeOK'
    BY <1>0, <1>6, <2>0 DEF Docker!ReplayEnds, FleetTypeOK
  <2>2. ContainersInv'
    BY <1>0, <1>6 DEF Docker!ReplayEnds, FleetTypeOK, ContainersInv
  <2>3. BatchesInv'
    BY <1>0, <1>6 DEF Docker!ReplayEnds, FleetTypeOK, BatchesInv, Before
  <2>4. QED
    BY <2>1, <2>2, <2>3
<1>7. CASE Docker!Remove(i)
  <2>0. /\ \A j \in Replicas : replay'[j] = IF j = i /\ replay[i] = "remove" THEN "exited" ELSE replay[j]
        /\ replay' \in [Replicas -> ReplayStates]
        /\ i \in removing /\ removing' = removing \ {i}
        /\ \/ container' = container \ {i} /\ left' = left
           \/ container' = container /\ left' = left \cup {i}
        /\ UNCHANGED <<starting, written>>
    BY <1>7 DEF Docker!Remove, FleetTypeOK
  <2>1. FleetTypeOK'
    BY <1>0, <2>0 DEF FleetTypeOK
  <2>2. ContainersInv'
    <3>1. \A j \in starting \cup removing \cup container : j \in Replicas
      BY ReplaysAssumption DEF FleetTypeOK
    <3>2. i \notin starting /\ (i \in container' => i \in left') /\ left \subseteq left'
      BY <2>0 DEF ContainersInv
    <3>3. \A j \in Replicas : replay'[j] = "none" <=> j > started'
      BY <1>0, <2>0 DEF ContainersInv
    <3>4. \A j \in Replicas : replay'[j] \in {"manifest", "steps", "hold"} => j \in container'
      BY <2>0 DEF ContainersInv
    <3>5. starting' \cap (container' \cup removing') = {}
      BY <2>0 DEF ContainersInv
    <3>6. /\ \A j \in starting' : replay'[j] \in {"create", "exited"}
          /\ \A j \in removing' : replay'[j] \in {"remove", "exited"}
      BY <2>0, <3>1, <3>2 DEF ContainersInv
    <3>7. \A j \in starting' \cup container' : replay'[j] = "exited" => j \in cut' \cup left'
      BY <1>0, <2>0, <3>1, <3>2 DEF ContainersInv
    <3>8. fleet \in {"list", "over"} => \A j \in Replicas : replay'[j] \in {"none", "exited"}
      BY <2>0 DEF ContainersInv
    <3>9. fleet = "over" /\ script = "node0" =>
            starting' \subseteq missed' /\ container' \subseteq left' \cup missed'
      BY <1>0, <2>0 DEF ContainersInv
    <3>10. QED
      BY <1>0, <3>3, <3>4, <3>5, <3>6, <3>7, <3>8, <3>9 DEF ContainersInv
  <2>3. BatchesInv'
    <3>1. Before' = Before
      BY <1>0 DEF Before
    <3>2. fleetRunning /\ i \in written /\ script = "node0" /\ ~active
              /\ fleet \in {"launch", "start", "await", "steps", "sample"} => replay[i] = "hold"
      BY DEF BatchesInv
    <3>3. \A j \in written : j \in Replicas
      BY ReplaysAssumption DEF FleetTypeOK
    <3>4. QED
      BY <1>0, <2>0, <3>1, <3>2, <3>3 DEF BatchesInv
  <2>4. QED
    BY <2>1, <2>2, <2>3
<1>8. QED
  BY <1>1, <1>2, <1>3, <1>4, <1>5, <1>6, <1>7

(* Kill ends every replay that is alive, each for a reason that is kept.   *)
LEMMA KillFacts ==
  ASSUME FleetTypeOK, ContainersInv, Docker!Kill(Docker!Live)
  PROVE  /\ \A i \in Replicas : replay'[i] \in {"none", "exited"}
         /\ replay' \in [Replicas -> ReplayStates]
         /\ \A i \in Replicas : replay'[i] = "none" <=> i > started
         /\ \A i \in starting \cup container : replay'[i] = "exited" => i \in cut' \cup left
<1> USE DEF Docker!Kill, Docker!Live, Docker!Replicas, Replicas, ReplayStates
<1>1. \A i \in Replicas : replay'[i] = IF replay[i] = "none" THEN "none" ELSE "exited"
  OBVIOUS
<1>2. replay' \in [Replicas -> ReplayStates]
  BY DEF FleetTypeOK
<1>3. \A i \in Replicas : replay'[i] = "none" <=> i > started
  BY <1>1 DEF ContainersInv
<1>4. ASSUME NEW i \in starting \cup container, replay'[i] = "exited"
      PROVE  i \in cut' \cup left
  <2>1. i \in Replicas /\ replay[i] # "none"
    BY ReplaysAssumption DEF FleetTypeOK, ContainersInv
  <2>2. CASE replay[i] = "exited"
    BY <2>2 DEF ContainersInv
  <2>3. CASE replay[i] # "exited"
    BY <2>1, <2>3
  <2>4. QED
    BY <2>2, <2>3
<1>5. QED
  BY <1>1, <1>2, <1>3, <1>4

(* Ctrl-C ends the replays; SIGTERM and SIGKILL come from their driver.    *)
LEMMA SignalStep ==
  ASSUME FleetInv,
         \/ Docker!Interrupt \/ Docker!Terminate \/ Docker!CleanupReplays
         \/ Docker!CleanupContainers \/ Docker!LoopEnds \/ Docker!CollectReplays
  PROVE  FleetInv'
<1> USE DEF Docker!options, Docker!replayVars, Docker!dockerVars, Docker!causes,
            Docker!Unhandled, Docker!Goes, FleetInv
<1>1. CASE Docker!Interrupt
  <2> DEFINE In == {i \in Replicas : replay[i] \in {"steps", "hold"}}
  <2>1. /\ replay' = [i \in Replicas |-> IF replay[i] = "none" THEN "none"
                                        ELSE IF i \in In THEN "remove" ELSE "exited"]
        /\ removing' = removing \cup In
        /\ \A i \in Replicas : replay[i] \notin {"none", "steps", "hold", "exited"} => i \in cut'
        /\ cut \subseteq cut'
        /\ UNCHANGED <<script, active, started, starting, container, written, left, missed>>
        /\ fleetRunning' = FALSE /\ fleet' \in {fleet, "died"}
    BY <1>1 DEF Docker!Interrupt, Docker!InTry, Docker!Live, Docker!Replicas, Replicas
  <2>2. \A i \in starting \cup container \cup removing : i \in Replicas
    BY ReplaysAssumption DEF FleetTypeOK, Replicas
  <2>3. In \subseteq 1 .. started /\ In \subseteq container
    BY ReplaysAssumption DEF FleetTypeOK, ContainersInv, Replicas
  <2>4. FleetTypeOK'
    BY <2>1, <2>3 DEF FleetTypeOK, ReplayStates
  <2>5. ContainersInv'
    <3>1. \A i \in Replicas : replay'[i] = "none" <=> i > started'
      BY <2>1 DEF ContainersInv
    <3>2. \A i \in Replicas : replay'[i] \notin {"manifest", "steps", "hold"}
      BY <2>1
    <3>3. starting' \cap (container' \cup removing') = {}
      BY <2>1, <2>3 DEF ContainersInv
    <3>4. \A i \in starting' : replay'[i] \in {"create", "exited"}
      BY <2>1, <2>2 DEF ContainersInv
    <3>5. \A i \in removing' : replay'[i] \in {"remove", "exited"}
      BY <2>1, <2>2 DEF ContainersInv
    <3>6. \A i \in starting' \cup container' : replay'[i] = "exited" => i \in cut' \cup left'
      BY <2>1, <2>2 DEF ContainersInv
    <3>7. fleet' \in {"list", "over"} => \A i \in Replicas : replay'[i] \in {"none", "exited"}
      BY <2>1 DEF ContainersInv
    <3>8. /\ fleet' = "start" => started' < Sessions
          /\ script' = "colocate" /\ fleet' = "launch" => started' = 0
          /\ fleet' = "over" /\ script' = "node0" =>
               starting' \subseteq missed' /\ container' \subseteq left' \cup missed'
      BY <2>1 DEF ContainersInv
    <3>9. QED
      BY <3>1, <3>2, <3>3, <3>4, <3>5, <3>6, <3>7, <3>8 DEF ContainersInv
  <2>6. BatchesInv'
    BY <2>1 DEF BatchesInv, Before
  <2>7. QED
    BY <2>4, <2>5, <2>6
<1>2. CASE Docker!Terminate
  BY <1>2 DEF Docker!Terminate, FleetTypeOK, ContainersInv, BatchesInv, Before
<1>3. CASE Docker!CleanupContainers
  BY <1>3 DEF Docker!CleanupContainers, FleetTypeOK, ContainersInv, BatchesInv
<1>4. CASE Docker!LoopEnds /\ UNCHANGED <<replay, cut>>
  BY <1>4 DEF Docker!LoopEnds, FleetTypeOK, ContainersInv, BatchesInv
<1>5. CASE /\ Docker!Kill(Docker!Live)
           /\ Docker!CleanupReplays \/ Docker!LoopEnds \/ Docker!CollectReplays
  <2>1. /\ UNCHANGED <<script, active, started, fleetRunning, starting, removing, container,
                       written, left, missed>>
        /\ \/ script = "node0" /\ fleet' = "list"
           \/ script = "colocate" /\ fleet' \in {"collect", "over"}
    BY <1>5 DEF Docker!CleanupReplays, Docker!LoopEnds, Docker!CollectReplays
  <2>2. /\ \A i \in Replicas : replay'[i] \in {"none", "exited"}
        /\ replay' \in [Replicas -> ReplayStates]
        /\ \A i \in Replicas : replay'[i] = "none" <=> i > started
        /\ \A i \in starting \cup container : replay'[i] = "exited" => i \in cut' \cup left
    BY <1>5, KillFacts
  <2>3. \A i \in starting \cup removing : i \in Replicas /\ replay'[i] = "exited"
    BY <2>2, ReplaysAssumption DEF FleetTypeOK, Replicas
  <2>4. FleetTypeOK'
    BY <2>1, <2>2 DEF FleetTypeOK
  <2>5. ContainersInv'
    <3>1. /\ \A i \in Replicas : replay'[i] = "none" <=> i > started'
          /\ \A i \in Replicas : replay'[i] \notin {"manifest", "steps", "hold"}
          /\ starting' \cap (container' \cup removing') = {}
      BY <2>1, <2>2 DEF ContainersInv
    <3>2. /\ \A i \in starting' : replay'[i] \in {"create", "exited"}
          /\ \A i \in removing' : replay'[i] \in {"remove", "exited"}
          /\ \A i \in starting' \cup container' : replay'[i] = "exited" => i \in cut' \cup left'
      BY <2>1, <2>2, <2>3
    <3>3. QED
      BY <2>1, <2>2, <3>1, <3>2 DEF ContainersInv
  <2>6. BatchesInv'
    BY <2>1 DEF BatchesInv
  <2>7. QED
    BY <2>4, <2>5, <2>6
<1>6. QED
  BY <1>1, <1>2, <1>3, <1>4, <1>5
     DEF Docker!CleanupReplays, Docker!LoopEnds, Docker!CollectReplays

(* The next session; after the last of a batch the batch is whole.         *)
LEMMA LaunchKeeps ==
  ASSUME FleetInv, Docker!Launch
  PROVE  FleetInv'
<1> USE DEF Docker!options, Docker!causes, Replicas, ReplayStates, FleetInv
<1>0. /\ started \in Nat /\ started < Sessions /\ Sessions \in Nat /\ started' = started + 1
      /\ started + 1 \in Replicas /\ fleet = "start"
      /\ fleet' = IF started + 1 = Docker!BatchLast THEN "await" ELSE "start"
      /\ replay' = [replay EXCEPT ![started + 1] = "create"]
      /\ starting' = starting \cup {started + 1}
      /\ UNCHANGED <<script, active, fleetRunning, removing, container, written, cut, left, missed>>
  BY ReplaysAssumption DEF Docker!Launch, Docker!Becomes, FleetTypeOK, ContainersInv
<1>1. fleet' = "start" => started' < Sessions
  <2>1. /\ (started \div Batch + 1) * Batch \in Nat
        /\ started < (started \div Batch + 1) * Batch
    BY <1>0, BatchFacts
  <2>2. Docker!BatchLast \in Nat /\ started < Docker!BatchLast /\ Docker!BatchLast <= Sessions
    BY <1>0, <2>1 DEF Docker!BatchLast
  <2>3. QED
    BY <1>0, <2>2
<1>2. 1 .. started' = (1 .. started) \cup {started + 1} /\ started + 1 \notin 1 .. started
  BY <1>0
<1>3. FleetTypeOK'
  BY <1>0, <1>1, <1>2 DEF FleetTypeOK
<1>4. ContainersInv'
  BY <1>0, <1>1, <1>2 DEF FleetTypeOK, ContainersInv
<1>5. BatchesInv'
  <2> SUFFICES ASSUME script = "node0"
               PROVE  BatchesInv'
    BY <1>0 DEF BatchesInv
  <2> DEFINE whole == (started \div Batch + 1) * Batch
  <2>1. Docker!BatchLast = IF whole > Sessions THEN Sessions ELSE whole
    BY DEF Docker!BatchLast
  <2>2. fleet' = "await" => started' % Batch = 0 \/ started' = Sessions
    BY <1>0, <2>1, BatchFacts
  <2>3. Before = (started \div Batch) * Batch
    BY <1>0 DEF Before
  <2>4. Before' = Before
    <3>1. CASE fleet' = "await"
      BY <1>0, <2>3, <3>1 DEF Before
    <3>2. CASE fleet' = "start"
      <4>1. started + 1 < whole
        BY <1>0, <2>1, <3>2, BatchFacts
      <4>2. started' \div Batch = started \div Batch
        BY <1>0, <4>1, BatchFacts
      <4>3. QED
        BY <2>3, <3>2, <4>2 DEF Before
    <3>3. QED
      BY <1>0, <3>1, <3>2
  <2>5. Before <= started /\ Before \in Nat
    BY <1>0, <2>3, BatchFacts
  <2>6. \A i \in 1 .. started' : i <= Before => i \in 1 .. started
    BY <1>0, <2>5
  <2>7. QED
    BY <1>0, <1>2, <2>2, <2>4, <2>6 DEF BatchesInv, FleetTypeOK
<1>6. QED
  BY <1>3, <1>4, <1>5

(* The drivers' own steps that touch no replay.                            *)
LEMMA DriverStep ==
  ASSUME FleetInv,
         \/ Docker!LaunchFails \/ Docker!NextBatch \/ Docker!BatchResident
         \/ Docker!BatchReplayed \/ Docker!BatchFails \/ Docker!Sample
         \/ Docker!SummaryFails \/ Docker!Begin \/ Docker!SampleFails
  PROVE  FleetInv'
<1> USE DEF Docker!options, Docker!replayVars, Docker!dockerVars, Docker!causes, Docker!Goes,
            Docker!Stays, Replicas, FleetInv
<1>0. UNCHANGED <<script, active, started, fleetRunning, replay, starting, removing, container,
                  written, cut, left, missed>>
  BY DEF Docker!LaunchFails, Docker!NextBatch, Docker!BatchResident, Docker!BatchReplayed,
         Docker!BatchFails, Docker!Sample, Docker!SummaryFails, Docker!Begin,
         Docker!SampleFails
<1>1. FleetTypeOK' /\ ContainersInv'
  BY <1>0, ReplaysAssumption
     DEF Docker!LaunchFails, Docker!NextBatch, Docker!BatchResident, Docker!BatchReplayed,
         Docker!BatchFails, Docker!Sample, Docker!SummaryFails, Docker!Begin, Docker!SampleFails,
         FleetTypeOK, ContainersInv
<1>2. ASSUME script = "node0"
      PROVE  BatchesInv'
  <2>1. CASE fleet' \in {"finally", "died"}
    BY <1>0, <1>2, <2>1 DEF BatchesInv
  <2>2. CASE Docker!NextBatch /\ fleet' = "start"
    <3>1. fleet = "launch"
      BY <2>2 DEF Docker!NextBatch
    <3>2. Before = started
      BY <3>1 DEF Before
    <3>3. QED
      BY <1>0, <2>2, <3>1, <3>2 DEF BatchesInv
  <2>3. CASE Docker!BatchResident
    <3>1. fleet = "await" /\ fleet' = "steps"
      BY <2>3 DEF Docker!BatchResident
    <3>2. Before' = Before
      BY <3>1, <1>0 DEF Before
    <3>3. QED
      BY <1>0, <1>2, <3>1, <3>2 DEF BatchesInv
  <2>4. CASE Docker!BatchReplayed
    <3>1. fleet = "steps" /\ fleet' = "sample" /\ (active \/ Docker!NewSessions \subseteq written)
      BY <2>4 DEF Docker!BatchReplayed
    <3>2. ~active => \A i \in 1 .. started : i \in written
      <4>1. Before = ((started - 1) \div Batch) * Batch
        BY <3>1 DEF Before
      <4>2. started - 1 \in Nat /\ started \in Nat
        BY <1>2, <3>1 DEF BatchesInv, FleetTypeOK
      <4>3. Before \in Nat
        BY <4>1, <4>2, BatchFacts
      <4>4. ~active => \A i \in 1 .. started : i > Before => i \in written
        BY <3>1, <4>1 DEF Docker!NewSessions
      <4>5. QED
        BY <1>2, <3>1, <4>2, <4>3, <4>4 DEF BatchesInv
    <3>3. QED
      BY <1>0, <1>2, <3>1, <3>2 DEF BatchesInv
  <2>5. CASE Docker!Sample /\ fleet' = "launch"
    <3>1. fleet = "sample"
      BY <2>5 DEF Docker!Sample
    <3>2. Before' = Before
      BY <1>0, <2>5, <3>1 DEF Before
    <3>3. QED
      BY <1>0, <1>2, <2>5, <3>1, <3>2 DEF BatchesInv
  <2>6. QED
    BY <1>2, <2>1, <2>2, <2>3, <2>4, <2>5
       DEF Docker!LaunchFails, Docker!NextBatch, Docker!BatchFails, Docker!Sample,
           Docker!SummaryFails, Docker!Begin, Docker!SampleFails
<1>3. BatchesInv'
  BY <1>0, <1>2 DEF BatchesInv
<1>4. QED
  BY <1>1, <1>3

(* Every step of the drivers and their replays.                            *)
LEMMA FleetStep ==
  ASSUME FleetInv, Docker!FleetNext \/ UNCHANGED dockerVars
  PROVE  FleetInv'
<1>1. CASE UNCHANGED dockerVars
  <2>1. Before' = Before
    BY <1>1 DEF dockerVars, Before
  <2>2. FleetTypeOK' /\ ContainersInv'
    BY <1>1 DEF dockerVars, FleetInv, FleetTypeOK, ContainersInv
  <2>3. BatchesInv'
    BY <1>1, <2>1 DEF dockerVars, FleetInv, BatchesInv
  <2>4. QED
    BY <2>2, <2>3 DEF FleetInv
<1>2. CASE Docker!FleetNext
  BY <1>2, ReplayStep, SignalStep, LaunchKeeps, DriverStep
     DEF Docker!FleetNext, Docker!Replicas, Replicas
<1>3. QED
  BY <1>1, <1>2

-----------------------------------------------------------------------------
(***************************************************************************)
(* TenantReplay.                                                           *)
(***************************************************************************)

Procs == 1 .. Tenants

Results == [run : 1 .. Jobs, error : BOOLEAN]

Stopping == {"stop after grading", "stop after patch_apply_failed", "stop after empty_patch",
             "stop after an error"}

(* Where a tenant has a run in its hands.                                  *)
Busy == {"admit", "boot", "agent", "evaluate", "record", "record error"} \cup Stopping

TenantTypeOK ==
  /\ queue \in Seq(0 .. Jobs)
  /\ results \in Seq(Results) /\ done \in Seq(Results)
  /\ driver \in 0 .. Tenants + 2
  /\ pc \in [Procs -> {"unborn", "check", "get", "exited"} \cup Busy]
  /\ job \in [Procs -> 0 .. Jobs]
  /\ vm \in [Procs -> BOOLEAN]
  /\ lost \subseteq 1 .. Jobs
  /\ late \in BOOLEAN /\ low \in BOOLEAN

(* What has been taken from the queue: the runs in their order, then ends  *)
(* of work.                                                                *)
Off == Jobs + Tenants - Len(queue)

QueueInv ==
  /\ Len(queue) <= Jobs + Tenants
  /\ \A n \in 1 .. Len(queue) : queue[n] = IF n + Off <= Jobs THEN n + Off ELSE 0

TakenRuns == IF Off <= Jobs THEN Off ELSE Jobs

(* A tenant has a run where it is busy with one, and a VM only then; no    *)
(* two have the same run.                                                  *)
HandsInv ==
  /\ \A t \in Procs : pc[t] \in Busy <=> job[t] # 0
  /\ \A t \in Procs : vm[t] => pc[t] \in {"agent", "evaluate"} \cup Stopping
  /\ \A t, u \in Procs : job[t] # 0 /\ job[t] = job[u] => t = u
  /\ \A t \in Procs : pc[t] = "unborn" <=> t > driver

RunsOf(s) == {s[n].run : n \in 1 .. Len(s)}

Held == {job[t] : t \in Procs} \ {0}

(* Every run that was taken is in one place, and is counted there.         *)
CountInv ==
  /\ RunsOf(done) \cup RunsOf(results) \cup Held \cup lost = 1 .. TakenRuns
  /\ Held \cap lost = {}
  /\ IsFiniteSet(Held) /\ IsFiniteSet(lost)
  /\ Len(done) + Len(results) + Cardinality(Held) + Cardinality(lost) = TakenRuns

(* When the driver no longer collects nothing can be put; and a tenant     *)
(* exits for an end of work, the deadline, or a run that was lost.         *)
EndInv ==
  /\ driver > Tenants =>
       results = <<>> /\ (Len(done) >= Jobs \/ \A t \in Procs : pc[t] = "exited")
  /\ driver = Tenants + 2 => \A t \in Procs : pc[t] = "exited"
  /\ (\E t \in Procs : pc[t] = "exited") => late \/ lost # {} \/ Off > Jobs

TenantInv == TenantTypeOK /\ QueueInv /\ HandsInv /\ CountInv /\ EndInv

(* One result more at the end, or one fewer at the beginning.              *)
LEMMA RunsAppended ==
  ASSUME NEW s \in Seq(Results), NEW e \in Results
  PROVE  /\ Append(s, e) \in Seq(Results) /\ Len(Append(s, e)) = Len(s) + 1 /\ Len(s) \in Nat
         /\ RunsOf(Append(s, e)) = RunsOf(s) \cup {e.run}
<1>1. /\ Append(s, e) \in Seq(Results) /\ Len(Append(s, e)) = Len(s) + 1 /\ Len(s) \in Nat
      /\ \A n \in 1 .. Len(s) : Append(s, e)[n] = s[n]
      /\ Append(s, e)[Len(s) + 1] = e
  BY AppendProperties, LenProperties
<1>2. 1 .. Len(Append(s, e)) = (1 .. Len(s)) \cup {Len(s) + 1}
  BY <1>1
<1>3. QED
  BY <1>1, <1>2 DEF RunsOf

(* The runs of a sequence are its first one and those behind it.           *)
LEMMA RunsTaken ==
  ASSUME NEW s \in Seq(Results), s # <<>>
  PROVE  /\ Tail(s) \in Seq(Results) /\ Len(Tail(s)) = Len(s) - 1 /\ Len(s) \in Nat \ {0}
         /\ Head(s) \in Results
         /\ RunsOf(s) = RunsOf(Tail(s)) \cup {Head(s).run}
<1>1. /\ Tail(s) \in Seq(Results) /\ Len(Tail(s)) = Len(s) - 1 /\ Len(s) \in Nat \ {0}
      /\ Head(s) \in Results /\ Head(s) = s[1]
      /\ \A n \in 1 .. Len(Tail(s)) : Tail(s)[n] = s[n + 1]
  BY HeadTailProperties, LenProperties, EmptySeq
<1>2. RunsOf(s) \subseteq RunsOf(Tail(s)) \cup {Head(s).run}
  <2>1. ASSUME NEW n \in 1 .. Len(s)
        PROVE  s[n].run \in RunsOf(Tail(s)) \cup {Head(s).run}
    <3>1. CASE n = 1
      BY <1>1, <3>1
    <3>2. CASE n # 1
      <4>1. n - 1 \in 1 .. Len(Tail(s)) /\ Tail(s)[n - 1] = s[n - 1 + 1] /\ n - 1 + 1 = n
        BY <1>1, <3>2
      <4>2. QED
        BY <4>1 DEF RunsOf
    <3>3. QED
      BY <3>1, <3>2
  <2>2. QED
    BY <2>1 DEF RunsOf
<1>3. RunsOf(Tail(s)) \cup {Head(s).run} \subseteq RunsOf(s)
  <2>1. 1 \in 1 .. Len(s) /\ \A n \in 1 .. Len(Tail(s)) : n + 1 \in 1 .. Len(s)
    BY <1>1
  <2>2. QED
    BY <1>1, <2>1 DEF RunsOf
<1>4. QED
  BY <1>1, <1>2, <1>3

(* A benchmark begins with a full queue and unborn tenants.                *)
LEMMA TenantInitInv ==
  ASSUME Tenancy!Init
  PROVE  TenantInv
<1> USE DEF Procs
<1>0. Tenants \in Nat /\ Tenants > 0 /\ Jobs \in Nat
  BY ReplaysAssumption
<1>1. /\ queue \in Seq(0 .. Jobs) /\ Len(queue) = Jobs + Tenants
      /\ \A n \in 1 .. Len(queue) : queue[n] = IF n <= Jobs THEN n ELSE 0
  <2>1. PICK f \in Seq(0 .. Jobs), g \in Seq(0 .. Jobs) :
           /\ queue = f \o g /\ Len(f) = Jobs /\ Len(g) = Tenants
           /\ \A n \in 1 .. Jobs : f[n] = n
           /\ \A n \in 1 .. Tenants : g[n] = 0
    <3>1. /\ [n \in 1 .. Jobs |-> n] \in Seq(0 .. Jobs)
          /\ Len([n \in 1 .. Jobs |-> n]) = Jobs
      BY <1>0
    <3>2. /\ [n \in 1 .. Tenants |-> 0] \in Seq(0 .. Jobs)
          /\ Len([n \in 1 .. Tenants |-> 0]) = Tenants
      BY <1>0
    <3>3. queue = [n \in 1 .. Jobs |-> n] \o [n \in 1 .. Tenants |-> 0]
      BY DEF Tenancy!Init, Tenancy!FillQueue, Tenancy!Procs, Tenancy!None
    <3>4. QED
      BY <3>1, <3>2, <3>3
  <2>2. /\ f \o g \in Seq(0 .. Jobs) /\ Len(f \o g) = Len(f) + Len(g)
        /\ \A n \in 1 .. Len(f) + Len(g) :
             (f \o g)[n] = IF n <= Len(f) THEN f[n] ELSE g[n - Len(f)]
    BY ConcatProperties
  <2>3. ASSUME NEW n \in 1 .. Len(queue)
        PROVE  queue[n] = IF n <= Jobs THEN n ELSE 0
    <3>1. n \in 1 .. Jobs + Tenants /\ (n > Jobs => n - Jobs \in 1 .. Tenants)
          /\ (n <= Jobs => n \in 1 .. Jobs)
      BY <1>0, <2>1, <2>2
    <3>2. QED
      BY <1>0, <2>1, <2>2, <3>1
  <2>4. QED
    BY <2>1, <2>2, <2>3
<1>2. Off = 0 /\ QueueInv
  BY <1>0, <1>1 DEF Off, QueueInv
<1>3. TenantTypeOK
  <2>1. results \in Seq(Results) /\ done \in Seq(Results)
    BY EmptySeq DEF Tenancy!Init
  <2>2. /\ driver \in 0 .. Tenants + 2
        /\ pc \in [Procs -> {"unborn", "check", "get", "exited"} \cup Busy]
        /\ job \in [Procs -> 0 .. Jobs]
    BY <1>0 DEF Tenancy!Init, Tenancy!Procs, Tenancy!None
  <2>3. vm \in [Procs -> BOOLEAN] /\ lost = {} /\ late \in BOOLEAN /\ low \in BOOLEAN
    BY DEF Tenancy!Init, Tenancy!Procs
  <2>4. QED
    BY <1>1, <2>1, <2>2, <2>3 DEF TenantTypeOK
<1>4. HandsInv
  BY <1>0 DEF Tenancy!Init, Tenancy!Procs, Tenancy!None, HandsInv, Busy, Stopping
<1>5. CountInv
  <2>1. Held = {} /\ lost = {} /\ results = <<>> /\ done = <<>>
    BY DEF Tenancy!Init, Tenancy!Procs, Tenancy!None, Held
  <2>2. RunsOf(done) = {} /\ RunsOf(results) = {} /\ Len(done) = 0 /\ Len(results) = 0
    <3>1. Len(<<>>) = 0 /\ 1 .. 0 = {}
      OBVIOUS
    <3>2. QED
      BY <2>1, <3>1 DEF RunsOf
  <2>3. TakenRuns = 0 /\ 1 .. 0 = {}
    BY <1>0, <1>2 DEF TakenRuns
  <2>4. QED
    BY <2>1, <2>2, <2>3, FS_EmptySet DEF CountInv
<1>6. EndInv
  BY <1>0 DEF Tenancy!Init, Tenancy!Procs, EndInv
<1>7. QED
  BY <1>2, <1>3, <1>4, <1>5, <1>6 DEF TenantInv

(* Steps that move no run from one place to another.                       *)
LEMMA RunsStay ==
  ASSUME TenantInv, UNCHANGED <<queue, results, done, job, lost>>
  PROVE  QueueInv' /\ CountInv' /\ Off' = Off
BY DEF TenantInv, QueueInv, CountInv, Off, TakenRuns, Held, RunsOf

(* The driver starts a tenant, stops collecting, or joins its tenants.     *)
LEMMA DriverKeeps ==
  ASSUME TenantInv, Tenancy!StartTenant \/ Tenancy!StopCollecting \/ Tenancy!Join
  PROVE  TenantInv'
<1> USE DEF Tenancy!hostVars, Tenancy!collecting, Tenancy!Procs, Procs
<1>0. /\ UNCHANGED <<queue, results, done, job, vm, lost, late, low>>
      /\ Tenants \in Nat /\ Tenants > 0 /\ driver \in 0 .. Tenants + 2
      /\ pc \in [Procs -> {"unborn", "check", "get", "exited"} \cup Busy]
  BY ReplaysAssumption
     DEF Tenancy!StartTenant, Tenancy!StopCollecting, Tenancy!Join, TenantInv, TenantTypeOK
<1>1. QueueInv' /\ CountInv' /\ Off' = Off
  BY <1>0, RunsStay
<1>2. CASE Tenancy!StartTenant
  <2>1. /\ driver < Tenants /\ driver' = driver + 1 /\ driver' \in Procs
        /\ pc' = [pc EXCEPT ![driver + 1] = "check"] /\ pc[driver + 1] = "unborn"
    BY <1>0, <1>2 DEF Tenancy!StartTenant, TenantInv, HandsInv
  <2>2. TenantTypeOK'
    BY <1>0, <2>1 DEF TenantInv, TenantTypeOK
  <2>3. HandsInv'
    <3>1. \A t \in Procs : pc'[t] = IF t = driver + 1 THEN "check" ELSE pc[t]
      BY <1>0, <2>1
    <3>2. "unborn" \notin Busy /\ "check" \notin Busy
      BY DEF Busy, Stopping
    <3>3. job[driver + 1] = 0 /\ ~vm[driver + 1]
      BY <2>1, <3>2 DEF TenantInv, HandsInv, Stopping
    <3>4. /\ \A t \in Procs : pc'[t] \in Busy <=> job'[t] # 0
          /\ \A t \in Procs : vm'[t] => pc'[t] \in {"agent", "evaluate"} \cup Stopping
      BY <1>0, <2>1, <3>1, <3>2, <3>3 DEF TenantInv, HandsInv
    <3>5. \A t \in Procs : pc'[t] = "unborn" <=> t > driver'
      BY <1>0, <2>1, <3>1 DEF TenantInv, HandsInv
    <3>6. QED
      BY <1>0, <3>4, <3>5 DEF TenantInv, HandsInv
  <2>4. EndInv'
    BY <1>0, <1>1, <2>1 DEF TenantInv, EndInv
  <2>5. QED
    BY <1>1, <2>2, <2>3, <2>4 DEF TenantInv
<1>3. CASE Tenancy!StopCollecting
  <2>1. /\ driver = Tenants /\ driver' = Tenants + 1 /\ pc' = pc /\ results = <<>>
        /\ Len(done) >= Jobs \/ \A t \in Procs : pc[t] \in {"unborn", "exited"}
    BY <1>3 DEF Tenancy!StopCollecting, Tenancy!Joining, Tenancy!Alive
  <2>2. \A t \in Procs : pc[t] # "unborn"
    BY <1>0, <2>1 DEF TenantInv, HandsInv
  <2>3. TenantTypeOK'
    BY <1>0, <2>1 DEF TenantInv, TenantTypeOK
  <2>4. HandsInv'
    BY <1>0, <2>1 DEF TenantInv, HandsInv
  <2>5. EndInv'
    BY <1>0, <1>1, <2>1, <2>2 DEF TenantInv, EndInv
  <2>6. QED
    BY <1>1, <2>3, <2>4, <2>5 DEF TenantInv
<1>4. CASE Tenancy!Join
  <2>1. /\ driver = Tenants + 1 /\ driver' = Tenants + 2 /\ pc' = pc
        /\ \A t \in Procs : pc[t] = "exited"
    BY <1>4 DEF Tenancy!Join, Tenancy!Joining, Tenancy!Over
  <2>2. TenantTypeOK'
    BY <1>0, <2>1 DEF TenantInv, TenantTypeOK
  <2>3. HandsInv'
    BY <1>0, <2>1 DEF TenantInv, HandsInv
  <2>4. EndInv'
    BY <1>0, <1>1, <2>1 DEF TenantInv, EndInv
  <2>5. QED
    BY <1>1, <2>2, <2>3, <2>4 DEF TenantInv
<1>5. QED
  BY <1>2, <1>3, <1>4

(* The driver moves a result from the queue to its list.                   *)
LEMMA CollectKeeps ==
  ASSUME TenantInv, Tenancy!Collect
  PROVE  TenantInv'
<1> USE DEF Tenancy!hostVars
<1>0. /\ UNCHANGED <<queue, driver, pc, job, vm, lost, late, low>>
      /\ driver = Tenants /\ results # <<>>
      /\ done' = Append(done, Head(results)) /\ results' = Tail(results)
      /\ results \in Seq(Results) /\ done \in Seq(Results)
  BY DEF Tenancy!Collect, TenantInv, TenantTypeOK
<1>1. /\ Tail(results) \in Seq(Results) /\ Len(Tail(results)) = Len(results) - 1
      /\ Len(results) \in Nat \ {0} /\ Head(results) \in Results
      /\ RunsOf(results) = RunsOf(Tail(results)) \cup {Head(results).run}
  BY <1>0, RunsTaken
<1>2. /\ Append(done, Head(results)) \in Seq(Results)
      /\ Len(Append(done, Head(results))) = Len(done) + 1 /\ Len(done) \in Nat
      /\ RunsOf(Append(done, Head(results))) = RunsOf(done) \cup {Head(results).run}
  BY <1>0, <1>1, RunsAppended
<1>3. Off' = Off /\ TakenRuns' = TakenRuns /\ Held' = Held
  BY <1>0 DEF Off, TakenRuns, Held
<1>4. RunsOf(done)' \cup RunsOf(results)' = RunsOf(done) \cup RunsOf(results)
  <2>1. /\ RunsOf(done)' = RunsOf(Append(done, Head(results)))
        /\ RunsOf(results)' = RunsOf(Tail(results))
    BY <1>0 DEF RunsOf
  <2>2. QED
    BY <1>1, <1>2, <2>1
<1>5. Len(done') + Len(results') = Len(done) + Len(results)
  BY <1>0, <1>1, <1>2
<1>6. CountInv'
  BY <1>0, <1>3, <1>4, <1>5 DEF TenantInv, CountInv
<1>7. TenantTypeOK'
  BY <1>0, <1>1, <1>2 DEF TenantInv, TenantTypeOK
<1>8. QueueInv' /\ HandsInv'
  BY <1>0, <1>3 DEF TenantInv, QueueInv, HandsInv
<1>9. EndInv'
  BY <1>0, <1>3, ReplaysAssumption DEF TenantInv, EndInv
<1>10. QED
  BY <1>6, <1>7, <1>8, <1>9 DEF TenantInv

(* A tenant that has a run in its hands goes on with it.                   *)
LEMMA WorkKeeps ==
  ASSUME TenantInv, NEW t \in Procs,
         \/ Tenancy!CheckDeadline(t) \/ Tenancy!Admit(t) \/ Tenancy!Boot(t)
         \/ Tenancy!RunAgent(t) \/ Tenancy!Evaluate(t) \/ Tenancy!StopVM(t)
  PROVE  TenantInv'
<1> USE DEF Tenancy!hostVars, Tenancy!collecting, Tenancy!Goto
<1>0. /\ UNCHANGED <<queue, results, done, driver, job, lost, late, low>>
      /\ pc \in [Procs -> {"unborn", "check", "get", "exited"} \cup Busy]
      /\ vm \in [Procs -> BOOLEAN]
  BY DEF TenantInv, TenantTypeOK, Tenancy!CheckDeadline, Tenancy!Admit, Tenancy!Boot,
         Tenancy!RunAgent, Tenancy!Evaluate, Tenancy!StopVM
<1>1. QueueInv' /\ CountInv' /\ Off' = Off
  BY <1>0, RunsStay
<1>2. /\ pc' = [pc EXCEPT ![t] = pc'[t]]
      /\ pc'[t] \in {"get", "exited"} \cup Busy
      /\ pc[t] \notin {"unborn", "exited"}
      /\ pc[t] \in Busy <=> pc'[t] \in Busy
      /\ pc'[t] = "exited" => late
      /\ \/ vm' = vm /\ (pc'[t] \in {"agent", "evaluate"} \cup Stopping \/ ~vm[t])
         \/ vm' = [vm EXCEPT ![t] = TRUE] /\ pc'[t] \in {"agent"} \cup Stopping
         \/ vm' = [vm EXCEPT ![t] = FALSE]
  <2> USE DEF Busy, Stopping
  <2>1. CASE Tenancy!CheckDeadline(t)
    <3>1. pc[t] = "check" /\ vm' = vm /\ pc' = [pc EXCEPT ![t] = IF late THEN "exited" ELSE "get"]
      BY <2>1 DEF Tenancy!CheckDeadline
    <3>2. ~vm[t]
      BY <3>1 DEF TenantInv, HandsInv
    <3>3. CASE late
      BY <1>0, <3>1, <3>2, <3>3
    <3>4. CASE ~late
      BY <1>0, <3>1, <3>2, <3>4
    <3>5. QED
      BY <3>3, <3>4
  <2>2. CASE Tenancy!Admit(t)
    <3>1. pc[t] = "admit" /\ vm' = vm /\ pc' = [pc EXCEPT ![t] = "boot"]
      BY <2>2 DEF Tenancy!Admit
    <3>2. pc'[t] = "boot" /\ ~vm[t]
      BY <1>0, <3>1 DEF TenantInv, HandsInv
    <3>3. QED
      BY <3>1, <3>2
  <2>3. CASE Tenancy!Boot(t)
    BY <2>3, <1>0 DEF Tenancy!Boot
  <2>4. CASE Tenancy!RunAgent(t)
    BY <2>4, <1>0 DEF Tenancy!RunAgent
  <2>5. CASE Tenancy!Evaluate(t)
    BY <2>5, <1>0 DEF Tenancy!Evaluate
  <2>6. CASE Tenancy!StopVM(t)
    <3>1. PICK s \in Stopping : /\ pc[t] = s
                               /\ pc' = [pc EXCEPT ![t] = IF s = "stop after an error"
                                                          THEN "record error" ELSE "record"]
      BY <2>6 DEF Tenancy!StopVM, Tenancy!Outcomes
    <3>2. pc'[t] \in {"record error", "record"} /\ vm' = [vm EXCEPT ![t] = FALSE]
      BY <1>0, <2>6, <3>1 DEF Tenancy!StopVM
    <3>3. QED
      BY <1>0, <3>1, <3>2
  <2>7. QED
    BY <2>1, <2>2, <2>3, <2>4, <2>5, <2>6
<1>3. /\ pc' \in [Procs -> {"unborn", "check", "get", "exited"} \cup Busy]
      /\ \A u \in Procs : u # t => pc'[u] = pc[u]
  BY <1>0, <1>2
<1>4. vm' \in [Procs -> BOOLEAN] /\ \A u \in Procs : u # t => vm'[u] = vm[u]
  BY <1>0, <1>2
<1>5. vm'[t] => pc'[t] \in {"agent", "evaluate"} \cup Stopping
  BY <1>0, <1>2
<1>6. TenantTypeOK'
  BY <1>0, <1>3, <1>4 DEF TenantInv, TenantTypeOK
<1>7. HandsInv'
  <2>1. \A u \in Procs : pc'[u] \in Busy <=> job'[u] # 0
    BY <1>0, <1>2, <1>3 DEF TenantInv, HandsInv
  <2>2. \A u \in Procs : vm'[u] => pc'[u] \in {"agent", "evaluate"} \cup Stopping
    BY <1>3, <1>4, <1>5 DEF TenantInv, HandsInv
  <2>3. \A u \in Procs : pc'[u] = "unborn" <=> u > driver'
    BY <1>0, <1>2, <1>3 DEF TenantInv, HandsInv, Busy, Stopping
  <2>4. \A u, v \in Procs : job'[u] # 0 /\ job'[u] = job'[v] => u = v
    BY <1>0 DEF TenantInv, HandsInv
  <2>5. QED
    BY <2>1, <2>2, <2>3, <2>4 DEF HandsInv
<1>8. EndInv'
  BY <1>0, <1>1, <1>2, <1>3 DEF TenantInv, EndInv
<1>9. QED
  BY <1>1, <1>6, <1>7, <1>8 DEF TenantInv

(* What a queue that has been taken from shows at its head.                *)
LEMMA HeadOfQueue ==
  ASSUME TenantInv, queue # <<>>, queue' = Tail(queue)
  PROVE  /\ Off \in Nat /\ Off' = Off + 1 /\ QueueInv' /\ queue' \in Seq(0 .. Jobs)
         /\ Head(queue) = IF Off + 1 <= Jobs THEN Off + 1 ELSE 0
<1>1. /\ queue \in Seq(0 .. Jobs) /\ Jobs \in Nat /\ Tenants \in Nat
      /\ Len(queue) <= Jobs + Tenants
      /\ \A n \in 1 .. Len(queue) : queue[n] = IF n + Off <= Jobs THEN n + Off ELSE 0
  BY ReplaysAssumption DEF TenantInv, TenantTypeOK, QueueInv
<1>2. /\ queue' \in Seq(0 .. Jobs) /\ Len(queue') = Len(queue) - 1 /\ Head(queue) = queue[1]
      /\ Len(queue) \in Nat \ {0}
      /\ \A n \in 1 .. Len(queue') : queue'[n] = queue[n + 1]
  BY <1>1, HeadTailProperties, LenProperties, EmptySeq
<1>3. Off \in Nat /\ Off' = Off + 1
  BY <1>1, <1>2 DEF Off
<1>4. \A n \in 1 .. Len(queue') : queue'[n] = IF n + Off' <= Jobs THEN n + Off' ELSE 0
  <2>1. ASSUME NEW n \in 1 .. Len(queue')
        PROVE  queue'[n] = IF n + Off' <= Jobs THEN n + Off' ELSE 0
    <3>1. n + 1 \in 1 .. Len(queue) /\ (n + 1) + Off = n + Off'
      BY <1>2, <1>3
    <3>2. QED
      BY <1>1, <1>2, <3>1
  <2>2. QED
    BY <2>1
<1>5. Head(queue) = IF Off + 1 <= Jobs THEN Off + 1 ELSE 0
  BY <1>1, <1>2, <1>3
<1>6. QED
  BY <1>1, <1>2, <1>3, <1>4, <1>5 DEF QueueInv

(* A tenant takes the next run, which nobody has, or an end of work.       *)
LEMMA TakeKeeps ==
  ASSUME TenantInv, NEW t \in Procs, Tenancy!Take(t)
  PROVE  TenantInv'
<1> USE DEF Tenancy!hostVars, Tenancy!collecting, Tenancy!Goto
<1>0. /\ UNCHANGED <<results, done, driver, vm, lost, late, low>>
      /\ queue # <<>> /\ queue' = Tail(queue) /\ pc[t] = "get"
      /\ pc' = [pc EXCEPT ![t] = IF Head(queue) = 0 THEN "exited" ELSE "admit"]
      /\ job' = [job EXCEPT ![t] = Head(queue)]
      /\ pc \in [Procs -> {"unborn", "check", "get", "exited"} \cup Busy]
      /\ job \in [Procs -> 0 .. Jobs] /\ Jobs \in Nat
  BY ReplaysAssumption DEF Tenancy!Take, Tenancy!None, TenantInv, TenantTypeOK
<1>1. /\ Off \in Nat /\ Off' = Off + 1 /\ QueueInv' /\ queue' \in Seq(0 .. Jobs)
      /\ Head(queue) = IF Off + 1 <= Jobs THEN Off + 1 ELSE 0
  BY <1>0, HeadOfQueue
<1>2. /\ "get" \notin Busy /\ "exited" \notin Busy /\ "admit" \in Busy /\ "unborn" \notin Busy
      /\ {"agent", "evaluate"} \cup Stopping \subseteq Busy
  BY DEF Busy, Stopping
<1>3. job[t] = 0 /\ ~vm[t]
  BY <1>0, <1>2 DEF TenantInv, HandsInv
<1>4. /\ \A u \in Procs : pc'[u] = IF u = t THEN (IF Head(queue) = 0 THEN "exited" ELSE "admit")
                                   ELSE pc[u]
      /\ \A u \in Procs : job'[u] = IF u = t THEN Head(queue) ELSE job[u]
      /\ Head(queue) \in 0 .. Jobs
  BY <1>0, <1>1
<1>5. TenantTypeOK'
  <2>1. pc' \in [Procs -> {"unborn", "check", "get", "exited"} \cup Busy]
    BY <1>0, <1>2
  <2>2. job' \in [Procs -> 0 .. Jobs]
    BY <1>0, <1>4
  <2>3. QED
    BY <1>0, <1>1, <2>1, <2>2 DEF TenantInv, TenantTypeOK
<1>6. /\ RunsOf(done)' = RunsOf(done) /\ RunsOf(results)' = RunsOf(results)
  BY <1>0 DEF RunsOf
<1>7. TakenRuns \in Nat /\ TakenRuns <= Off
  BY <1>0, <1>1 DEF TakenRuns
<1>8. \A u \in Procs : job[u] \in 0 .. TakenRuns
  <2>1. \A u \in Procs : job[u] # 0 => job[u] \in Held
    BY DEF Held
  <2>2. Held \subseteq 1 .. TakenRuns
    BY DEF TenantInv, CountInv
  <2>3. \A u \in Procs : job[u] \in Int
    BY <1>0
  <2>4. ASSUME NEW u \in Procs
        PROVE  job[u] \in 0 .. TakenRuns
    <3>1. CASE job[u] = 0
      BY <1>7, <3>1
    <3>2. CASE job[u] # 0
      <4>1. job[u] \in 1 .. TakenRuns
        BY <2>1, <2>2, <3>2
      <4>2. QED
        BY <1>7, <4>1
    <3>3. QED
      BY <3>1, <3>2
  <2>5. QED
    BY <2>4
<1>9. HandsInv'
  <2>1. \A u \in Procs : pc'[u] \in Busy <=> job'[u] # 0
    BY <1>2, <1>4 DEF TenantInv, HandsInv
  <2>2. \A u \in Procs : vm'[u] => pc'[u] \in {"agent", "evaluate"} \cup Stopping
    BY <1>0, <1>3, <1>4 DEF TenantInv, HandsInv
  <2>3. \A u, v \in Procs : job'[u] # 0 /\ job'[u] = job'[v] => u = v
    <3>1. Head(queue) # 0 => \A u \in Procs : job[u] # Head(queue)
      BY <1>1, <1>7, <1>8
    <3>2. QED
      BY <1>4, <3>1 DEF TenantInv, HandsInv
  <2>4. \A u \in Procs : pc'[u] = "unborn" <=> u > driver'
    BY <1>0, <1>4 DEF TenantInv, HandsInv
  <2>5. QED
    BY <2>1, <2>2, <2>3, <2>4 DEF HandsInv
<1>10. CountInv'
  <2>1. CASE Head(queue) = 0
    <3>1. Held' = Held
      BY <1>3, <1>4, <2>1 DEF Held
    <3>2. TakenRuns' = TakenRuns
      BY <1>0, <1>1, <2>1 DEF TakenRuns
    <3>3. QED
      BY <1>0, <1>6, <3>1, <3>2 DEF TenantInv, CountInv
  <2>2. CASE Head(queue) # 0
    <3>1. /\ Head(queue) = Off + 1 /\ TakenRuns = Off /\ TakenRuns' = Off + 1
          /\ 1 .. TakenRuns' = (1 .. TakenRuns) \cup {Off + 1} /\ Off + 1 \notin 1 .. TakenRuns
      BY <1>0, <1>1, <2>2 DEF TakenRuns
    <3>2. Held' = Held \cup {Off + 1}
      BY <1>1, <1>3, <1>4, <3>1 DEF Held
    <3>3. /\ IsFiniteSet(Held) /\ IsFiniteSet(lost) /\ Off + 1 \notin Held
          /\ Off + 1 \notin lost
      BY <3>1 DEF TenantInv, CountInv
    <3>4. /\ IsFiniteSet(Held \cup {Off + 1})
          /\ Cardinality(Held \cup {Off + 1}) = Cardinality(Held) + 1
      BY <3>3, FS_AddElement
    <3>5. /\ Cardinality(Held) \in Nat /\ Cardinality(lost) \in Nat
          /\ Len(done) \in Nat /\ Len(results) \in Nat
      BY <1>0, <3>3, FS_CardinalityType, LenProperties DEF TenantInv, TenantTypeOK
    <3>6. Len(done) + Len(results) + (Cardinality(Held) + 1) + Cardinality(lost) = TakenRuns'
      <4>1. Len(done) + Len(results) + Cardinality(Held) + Cardinality(lost) = TakenRuns
        BY DEF TenantInv, CountInv
      <4>2. QED
        BY <3>1, <3>5, <4>1, <1>1
    <3>7. RunsOf(done) \cup RunsOf(results) \cup (Held \cup {Off + 1}) \cup lost = 1 .. TakenRuns'
      BY <3>1 DEF TenantInv, CountInv
    <3>8. QED
      BY <1>0, <1>6, <3>2, <3>3, <3>4, <3>6, <3>7 DEF TenantInv, CountInv
  <2>3. QED
    BY <2>1, <2>2
<1>11. EndInv'
  <2>1. \A u \in Procs : pc'[u] = "exited" => pc[u] = "exited" \/ Off' > Jobs
    BY <1>0, <1>1, <1>4
  <2>2. Off > Jobs => Off' > Jobs
    BY <1>0, <1>1
  <2>3. pc[t] # "exited" /\ \A u \in Procs : pc[u] = "exited" => pc'[u] = "exited"
    BY <1>0, <1>4
  <2>4. QED
    BY <1>0, <2>1, <2>2, <2>3 DEF TenantInv, EndInv
<1>12. QED
  BY <1>1, <1>5, <1>9, <1>10, <1>11 DEF TenantInv

(* A run leaves a tenant's hands, for the results or with the tenant.      *)
LEMMA HandsEmpty ==
  ASSUME TenantInv, NEW t \in Procs, job[t] # 0, job' = [job EXCEPT ![t] = 0]
  PROVE  /\ job' \in [Procs -> 0 .. Jobs]
         /\ \A u \in Procs : job'[u] = IF u = t THEN 0 ELSE job[u]
         /\ job[t] \in Held /\ job[t] \in 1 .. Jobs /\ job[t] \notin lost
         /\ Held' = Held \ {job[t]} /\ IsFiniteSet(Held')
         /\ Cardinality(Held) \in Nat /\ Cardinality(Held') = Cardinality(Held) - 1
         /\ \A u, v \in Procs : job'[u] # 0 /\ job'[u] = job'[v] => u = v
<1>1. job \in [Procs -> 0 .. Jobs] /\ Jobs \in Nat /\ IsFiniteSet(Held)
  BY ReplaysAssumption DEF TenantInv, TenantTypeOK, CountInv
<1>2. \A u \in Procs : job'[u] = IF u = t THEN 0 ELSE job[u]
  BY <1>1
<1>3. job' \in [Procs -> 0 .. Jobs] /\ job[t] \in Held /\ job[t] \in 1 .. Jobs
  BY <1>1 DEF Held
<1>4. \A u, v \in Procs : job'[u] # 0 /\ job'[u] = job'[v] => u = v
  BY <1>2 DEF TenantInv, HandsInv
<1>5. Held' = Held \ {job[t]}
  BY <1>2 DEF Held, TenantInv, HandsInv
<1>6. job[t] \notin lost
  BY <1>3 DEF TenantInv, CountInv
<1>7. /\ IsFiniteSet(Held \ {job[t]}) /\ Cardinality(Held) \in Nat
      /\ Cardinality(Held \ {job[t]}) = Cardinality(Held) - 1
  BY <1>1, <1>3, FS_RemoveElement, FS_CardinalityType
<1>8. QED
  BY <1>2, <1>3, <1>4, <1>5, <1>6, <1>7

(* The runs that wait in the queue are those that were not taken.          *)
LEMMA WaitingRuns ==
  ASSUME TenantInv
  PROVE  /\ Tenancy!ToSet(queue) \ {0} = (TakenRuns + 1) .. Jobs
         /\ Cardinality((TakenRuns + 1) .. Jobs) = Jobs - TakenRuns
         /\ TakenRuns \in 0 .. Jobs
<1>1. /\ queue \in Seq(0 .. Jobs) /\ Jobs \in Nat /\ Tenants \in Nat
      /\ Len(queue) <= Jobs + Tenants /\ Len(queue) \in Nat
      /\ \A n \in 1 .. Len(queue) : queue[n] = IF n + Off <= Jobs THEN n + Off ELSE 0
  BY ReplaysAssumption, LenProperties DEF TenantInv, TenantTypeOK, QueueInv
<1>2. Off \in Nat /\ Len(queue) = Jobs + Tenants - Off
  BY <1>1 DEF Off
<1>3. TakenRuns \in 0 .. Jobs
  BY <1>1, <1>2 DEF TakenRuns
<1>4. Tenancy!ToSet(queue) = {queue[n] : n \in 1 .. Len(queue)}
  <2>1. DOMAIN queue = 1 .. Len(queue)
    BY <1>1
  <2>2. QED
    BY <2>1 DEF Tenancy!ToSet
<1>5. \A r \in (TakenRuns + 1) .. Jobs : r \in Tenancy!ToSet(queue) \ {0}
  <2>1. ASSUME NEW r \in (TakenRuns + 1) .. Jobs
        PROVE  r - Off \in 1 .. Len(queue) /\ queue[r - Off] = r /\ r # 0
    <3>1. /\ TakenRuns = Off /\ r - Off \in 1 .. Len(queue) /\ (r - Off) + Off = r
          /\ r <= Jobs /\ r # 0
      BY <1>1, <1>2 DEF TakenRuns
    <3>2. QED
      BY <1>1, <3>1
  <2>2. QED
    BY <1>4, <2>1
<1>6. \A r \in Tenancy!ToSet(queue) \ {0} : r \in (TakenRuns + 1) .. Jobs
  BY <1>1, <1>2, <1>4 DEF TakenRuns
<1>7. Cardinality((TakenRuns + 1) .. Jobs) = Jobs - TakenRuns
  <2>1. TakenRuns + 1 \in Int /\ Jobs \in Int
    BY <1>1, <1>3
  <2>2. Cardinality((TakenRuns + 1) .. Jobs)
          = IF TakenRuns + 1 > Jobs THEN 0 ELSE Jobs - (TakenRuns + 1) + 1
    BY <2>1, FS_Interval
  <2>3. QED
    BY <1>1, <1>3, <2>2
<1>8. QED
  BY <1>3, <1>5, <1>6, <1>7

(* The tenant puts its result, and looks for the next run.                 *)
LEMMA RecordKeeps ==
  ASSUME TenantInv, NEW t \in Procs, Tenancy!Record(t)
  PROVE  TenantInv'
<1> USE DEF Tenancy!hostVars, Tenancy!Goto
<1> DEFINE e == [run |-> job[t], error |-> pc[t] = "record error"]
<1>0. /\ UNCHANGED <<queue, done, driver, vm, lost, late, low>>
      /\ pc[t] \in {"record", "record error"} /\ pc' = [pc EXCEPT ![t] = "check"]
      /\ results' = Append(results, e) /\ job' = [job EXCEPT ![t] = 0]
      /\ pc \in [Procs -> {"unborn", "check", "get", "exited"} \cup Busy]
      /\ results \in Seq(Results) /\ done \in Seq(Results)
  BY DEF Tenancy!Record, Tenancy!None, TenantInv, TenantTypeOK
<1>1. /\ pc[t] \in Busy /\ "check" \notin Busy /\ "unborn" \notin Busy
      /\ pc[t] \notin {"agent", "evaluate"} \cup Stopping
  BY <1>0 DEF Busy, Stopping
<1>2. job[t] # 0 /\ ~vm[t]
  BY <1>1 DEF TenantInv, HandsInv
<1>3. /\ job' \in [Procs -> 0 .. Jobs]
      /\ \A u \in Procs : job'[u] = IF u = t THEN 0 ELSE job[u]
      /\ job[t] \in Held /\ job[t] \in 1 .. Jobs /\ job[t] \notin lost
      /\ Held' = Held \ {job[t]} /\ IsFiniteSet(Held')
      /\ Cardinality(Held) \in Nat /\ Cardinality(Held') = Cardinality(Held) - 1
      /\ \A u, v \in Procs : job'[u] # 0 /\ job'[u] = job'[v] => u = v
  BY <1>0, <1>2, HandsEmpty
<1>4. e \in Results /\ e.run = job[t]
  BY <1>3 DEF Results
<1> HIDE DEF e
<1>5. /\ results' \in Seq(Results) /\ Len(results') = Len(results) + 1 /\ Len(results) \in Nat
      /\ RunsOf(results)' = RunsOf(results) \cup {job[t]}
  <2>1. /\ Append(results, e) \in Seq(Results)
        /\ Len(Append(results, e)) = Len(results) + 1 /\ Len(results) \in Nat
        /\ RunsOf(Append(results, e)) = RunsOf(results) \cup {e.run}
    BY <1>0, <1>4, RunsAppended
  <2>2. RunsOf(results)' = RunsOf(Append(results, e))
    BY <1>0 DEF RunsOf
  <2>3. QED
    BY <1>0, <1>4, <2>1, <2>2
<1>6. /\ pc' \in [Procs -> {"unborn", "check", "get", "exited"} \cup Busy]
      /\ \A u \in Procs : pc'[u] = IF u = t THEN "check" ELSE pc[u]
  BY <1>0
<1>7. Off' = Off /\ TakenRuns' = TakenRuns /\ RunsOf(done)' = RunsOf(done)
  BY <1>0 DEF Off, TakenRuns, RunsOf
<1>8. TenantTypeOK'
  BY <1>0, <1>3, <1>5, <1>6 DEF TenantInv, TenantTypeOK
<1>9. QueueInv'
  BY <1>0, <1>7 DEF TenantInv, QueueInv
<1>10. HandsInv'
  BY <1>0, <1>1, <1>2, <1>3, <1>6 DEF TenantInv, HandsInv
<1>11. CountInv'
  <2>1. Cardinality(lost) \in Nat /\ Len(done) \in Nat
    BY <1>0, FS_CardinalityType, LenProperties DEF TenantInv, CountInv
  <2>2. /\ RunsOf(done)' \cup RunsOf(results)' \cup Held' \cup lost' = 1 .. TakenRuns'
        /\ Held' \cap lost' = {}
    <3>1. /\ RunsOf(done) \cup RunsOf(results) \cup Held \cup lost = 1 .. TakenRuns
          /\ Held \cap lost = {}
      BY DEF TenantInv, CountInv
    <3>2. /\ RunsOf(done)' = RunsOf(done) /\ TakenRuns' = TakenRuns /\ lost' = lost
          /\ RunsOf(results)' = RunsOf(results) \cup {job[t]}
          /\ Held' = Held \ {job[t]} /\ job[t] \in Held
      BY <1>0, <1>3, <1>5, <1>7
    <3>3. QED
      BY <3>1, <3>2
  <2>3. Len(done') + Len(results') + Cardinality(Held') + Cardinality(lost') = TakenRuns'
    <3>1. Len(done) + Len(results) + Cardinality(Held) + Cardinality(lost) = TakenRuns
      BY DEF TenantInv, CountInv
    <3>2. Len(done') = Len(done) /\ Cardinality(lost') = Cardinality(lost)
      BY <1>0
    <3>3. Len(results') = Len(results) + 1 /\ Cardinality(Held') = Cardinality(Held) - 1
      BY <1>3, <1>5
    <3>4. /\ Len(done) \in Nat /\ Len(results) \in Nat /\ Cardinality(Held) \in Nat
          /\ Cardinality(lost) \in Nat /\ TakenRuns' = TakenRuns
      BY <1>3, <1>5, <1>7, <2>1
    <3>5. QED
      BY <3>1, <3>2, <3>3, <3>4
  <2>4. QED
    BY <1>0, <1>3, <2>2, <2>3 DEF TenantInv, CountInv
<1>12. EndInv'
  <2>1. driver <= Tenants
    <3>1. Len(done) < Jobs
      <4>1. IsFiniteSet(Held) /\ IsFiniteSet(lost)
        BY DEF TenantInv, CountInv
      <4>2. Cardinality(Held) # 0
        BY <1>3, <4>1, FS_EmptySet
      <4>3. Len(done) \in Nat /\ Cardinality(lost) \in Nat
        BY <1>0, <4>1, FS_CardinalityType, LenProperties
      <4>4. TakenRuns <= Jobs
        BY WaitingRuns, ReplaysAssumption
      <4>5. Len(done) + Len(results) + Cardinality(Held) + Cardinality(lost) = TakenRuns
        BY DEF TenantInv, CountInv
      <4>6. QED
        BY <1>3, <1>5, <4>2, <4>3, <4>4, <4>5, ReplaysAssumption
    <3>2. pc[t] # "exited"
      BY <1>0
    <3>3. QED
      BY <3>1, <3>2, ReplaysAssumption DEF TenantInv, EndInv, TenantTypeOK
  <2>2. \A u \in Procs : pc'[u] = "exited" => pc[u] = "exited"
    BY <1>6
  <2>3. driver' = driver /\ driver \in Int /\ Tenants \in Int
    <3>1. driver' = driver
      BY <1>0
    <3>2. driver \in 0 .. Tenants + 2 /\ Tenants \in Nat
      BY ReplaysAssumption DEF TenantInv, TenantTypeOK
    <3>3. QED
      BY <3>1, <3>2
  <2>4. ~(driver' > Tenants) /\ driver' # Tenants + 2
    BY <2>1, <2>3
  <2>5. (\E u \in Procs : pc'[u] = "exited") => late' \/ lost' # {} \/ Off' > Jobs
    BY <1>0, <1>7, <2>2 DEF TenantInv, EndInv
  <2>6. QED
    BY <2>4, <2>5 DEF EndInv
<1>13. QED
  BY <1>8, <1>9, <1>10, <1>11, <1>12 DEF TenantInv

(* A tenant that dies on a write takes its run with it.                    *)
LEMMA WriteFailsLoses ==
  ASSUME TenantInv, NEW t \in Procs, Tenancy!WriteFails(t)
  PROVE  TenantInv'
<1> USE DEF Tenancy!hostVars, Tenancy!collecting, Tenancy!Goto
<1>0. /\ UNCHANGED <<queue, results, done, driver, vm, late, low>>
      /\ pc[t] \in {"boot", "record", "record error"} /\ pc' = [pc EXCEPT ![t] = "exited"]
      /\ lost' = lost \cup {job[t]} /\ job' = [job EXCEPT ![t] = 0]
      /\ pc \in [Procs -> {"unborn", "check", "get", "exited"} \cup Busy]
      /\ results \in Seq(Results) /\ done \in Seq(Results)
  BY DEF Tenancy!WriteFails, Tenancy!None, TenantInv, TenantTypeOK
<1>1. /\ pc[t] \in Busy /\ "exited" \notin Busy /\ "unborn" \notin Busy
      /\ pc[t] \notin {"agent", "evaluate"} \cup Stopping
  BY <1>0 DEF Busy, Stopping
<1>2. job[t] # 0 /\ ~vm[t]
  BY <1>1 DEF TenantInv, HandsInv
<1>3. /\ job' \in [Procs -> 0 .. Jobs]
      /\ \A u \in Procs : job'[u] = IF u = t THEN 0 ELSE job[u]
      /\ job[t] \in Held /\ job[t] \in 1 .. Jobs /\ job[t] \notin lost
      /\ Held' = Held \ {job[t]} /\ IsFiniteSet(Held')
      /\ Cardinality(Held) \in Nat /\ Cardinality(Held') = Cardinality(Held) - 1
      /\ \A u, v \in Procs : job'[u] # 0 /\ job'[u] = job'[v] => u = v
  BY <1>0, <1>2, HandsEmpty
<1>4. /\ IsFiniteSet(lost') /\ Cardinality(lost) \in Nat
      /\ Cardinality(lost') = Cardinality(lost) + 1
  BY <1>0, <1>3, FS_AddElement, FS_CardinalityType DEF TenantInv, CountInv
<1>5. /\ pc' \in [Procs -> {"unborn", "check", "get", "exited"} \cup Busy]
      /\ \A u \in Procs : pc'[u] = IF u = t THEN "exited" ELSE pc[u]
  BY <1>0
<1>6. /\ Off' = Off /\ TakenRuns' = TakenRuns
      /\ RunsOf(done)' = RunsOf(done) /\ RunsOf(results)' = RunsOf(results)
  BY <1>0 DEF Off, TakenRuns, RunsOf
<1>7. TenantTypeOK'
  BY <1>0, <1>3, <1>5 DEF TenantInv, TenantTypeOK
<1>8. QueueInv'
  BY <1>0, <1>6 DEF TenantInv, QueueInv
<1>9. HandsInv'
  BY <1>0, <1>1, <1>2, <1>3, <1>5 DEF TenantInv, HandsInv
<1>10. CountInv'
  <2>1. Len(results) \in Nat /\ Len(done) \in Nat
    BY <1>0, LenProperties
  <2>2. /\ RunsOf(done)' \cup RunsOf(results)' \cup Held' \cup lost' = 1 .. TakenRuns'
        /\ Held' \cap lost' = {}
    BY <1>0, <1>3, <1>6 DEF TenantInv, CountInv
  <2>3. Len(done') + Len(results') + Cardinality(Held') + Cardinality(lost') = TakenRuns'
    <3>1. Len(done) + Len(results) + Cardinality(Held) + Cardinality(lost) = TakenRuns
      BY DEF TenantInv, CountInv
    <3>2. Len(done') = Len(done) /\ Len(results') = Len(results)
      BY <1>0
    <3>3. /\ Cardinality(lost') = Cardinality(lost) + 1
          /\ Cardinality(Held') = Cardinality(Held) - 1
      BY <1>3, <1>4
    <3>4. /\ Len(done) \in Nat /\ Len(results) \in Nat /\ Cardinality(Held) \in Nat
          /\ Cardinality(lost) \in Nat /\ TakenRuns' = TakenRuns
      BY <1>3, <1>4, <1>6, <2>1
    <3>5. QED
      BY <3>1, <3>2, <3>3, <3>4
  <2>4. QED
    BY <1>3, <1>4, <2>2, <2>3 DEF CountInv
<1>11. EndInv'
  <2>1. \A u \in Procs : pc[u] = "exited" => pc'[u] = "exited"
    BY <1>5
  <2>2. lost' # {}
    BY <1>0
  <2>3. QED
    BY <1>0, <1>6, <2>1, <2>2 DEF TenantInv, EndInv
<1>12. QED
  BY <1>7, <1>8, <1>9, <1>10, <1>11 DEF TenantInv

(* The deadline passes once; the memory comes and goes.                    *)
LEMMA HostKeeps ==
  ASSUME TenantInv,
         \/ Tenancy!DeadlinePasses \/ Tenancy!MemoryFalls \/ Tenancy!MemoryRises
         \/ UNCHANGED tenantVars
  PROVE  TenantInv'
<1>0. /\ UNCHANGED <<queue, results, done, driver, pc, job, vm, lost>>
      /\ late' \in BOOLEAN /\ low' \in BOOLEAN /\ (late => late')
  BY DEF Tenancy!DeadlinePasses, Tenancy!MemoryFalls, Tenancy!MemoryRises, Tenancy!Outside,
         Tenancy!collecting, tenantVars, TenantInv, TenantTypeOK
<1>1. QueueInv' /\ CountInv' /\ Off' = Off
  BY <1>0, RunsStay
<1>2. TenantTypeOK' /\ HandsInv'
  BY <1>0 DEF TenantInv, TenantTypeOK, HandsInv
<1>3. EndInv'
  BY <1>0, <1>1 DEF TenantInv, EndInv
<1>4. QED
  BY <1>1, <1>2, <1>3 DEF TenantInv

(* Every step of the driver, of a tenant and of the host.                  *)
LEMMA TenantStep ==
  ASSUME TenantInv, Tenancy!Next \/ UNCHANGED tenantVars
  PROVE  TenantInv'
<1>1. ASSUME NEW t \in Procs, Tenancy!Tenant(t)
      PROVE  TenantInv'
  BY <1>1, WorkKeeps, TakeKeeps, RecordKeeps, WriteFailsLoses DEF Tenancy!Tenant
<1>2. CASE Tenancy!Driver
  BY <1>2, DriverKeeps, CollectKeeps DEF Tenancy!Driver
<1>3. QED
  BY <1>1, <1>2, HostKeeps DEF Tenancy!Next, Tenancy!Procs, Procs

(* Each run is in one place, and what the driver never gets has a reason.  *)
LEMMA TenantPromise == TenantInv => RunsAccountedFor
<1> SUFFICES ASSUME TenantInv
             PROVE  RunsAccountedFor
  OBVIOUS
<1>1. /\ Tenancy!ToSet(queue) \ {0} = (TakenRuns + 1) .. Jobs
      /\ Cardinality((TakenRuns + 1) .. Jobs) = Jobs - TakenRuns
      /\ TakenRuns \in 0 .. Jobs /\ Jobs \in Nat /\ Tenants \in Nat \ {0}
  BY WaitingRuns, ReplaysAssumption
<1>2. \A S : Tenancy!Cardinality(S) = Cardinality(S)
  BY DEF Tenancy!Cardinality, Cardinality, Tenancy!IsFiniteSet, IsFiniteSet
<1>3. Tenancy!Recorded = RunsOf(done) \cup RunsOf(results)
  <2>1. DOMAIN done = 1 .. Len(done) /\ DOMAIN results = 1 .. Len(results)
    BY DEF TenantInv, TenantTypeOK
  <2>2. QED
    BY <2>1 DEF Tenancy!Recorded, RunsOf
<1>4. Tenancy!Recorded \cup Held \cup ((TakenRuns + 1) .. Jobs) \cup lost = 1 .. Jobs
  <2>1. 1 .. Jobs = (1 .. TakenRuns) \cup ((TakenRuns + 1) .. Jobs)
    BY <1>1
  <2>2. QED
    BY <1>3, <2>1 DEF TenantInv, CountInv
<1>5. Len(done) + Len(results) + Cardinality(Held) + Cardinality((TakenRuns + 1) .. Jobs)
        + Cardinality(lost) = Jobs
  <2>1. /\ Len(done) \in Nat /\ Len(results) \in Nat /\ Cardinality(Held) \in Nat
        /\ Cardinality(lost) \in Nat
    BY FS_CardinalityType, LenProperties DEF TenantInv, TenantTypeOK, CountInv
  <2>2. Len(done) + Len(results) + Cardinality(Held) + Cardinality(lost) = TakenRuns
    BY DEF TenantInv, CountInv
  <2>3. TakenRuns \in Int /\ Jobs \in Int
    BY <1>1
  <2>4. QED
    BY <1>1, <2>1, <2>2, <2>3
<1>6. \A t \in Procs : job[t] = 0 => ~vm[t]
  BY DEF TenantInv, HandsInv, Busy
<1>7. ASSUME driver = Tenants + 2
      PROVE  /\ Held = {} /\ results = <<>>
             /\ (TakenRuns + 1) .. Jobs # {} => late \/ lost # {}
  <2>1. \A t \in Procs : pc[t] = "exited" /\ 1 \in Procs
    BY <1>1, <1>7 DEF TenantInv, EndInv, Procs
  <2>2. Held = {}
    BY <2>1 DEF TenantInv, HandsInv, Held, Busy, Stopping
  <2>3. results = <<>>
    BY <1>1, <1>7 DEF TenantInv, EndInv
  <2>4. Off > Jobs => (TakenRuns + 1) .. Jobs = {}
    BY <1>1 DEF TakenRuns, Off
  <2>5. late \/ lost # {} \/ Off > Jobs
    <3>1. 1 \in Procs /\ pc[1] = "exited"
      BY <1>1, <1>7 DEF TenantInv, EndInv, Procs
    <3>2. QED
      BY <3>1 DEF TenantInv, EndInv
  <2>6. QED
    BY <2>2, <2>3, <2>4, <2>5
<1>8. Tenancy!RunsAccountedFor
  <2>1. Held = {job[t] : t \in Tenancy!Procs} \ {Tenancy!None} /\ Tenancy!None = 0
    BY DEF Held, Procs, Tenancy!Procs, Tenancy!None
  <2>2. QED
    BY <1>1, <1>2, <1>4, <1>5, <1>6, <1>7, <2>1
       DEF Tenancy!RunsAccountedFor, Tenancy!Over, Tenancy!Procs, Procs
<1>9. QED
  BY <1>8 DEF RunsAccountedFor

-----------------------------------------------------------------------------
(***************************************************************************)
(* Conversation.                                                           *)
(***************************************************************************)

Kinds == {"message", "action", "answer", "update", "error"}

Events == [kind : Kinds, turn : Nat, chat : Nat, n : Nat]

CaptureTypeOK ==
  /\ capture \in {"before", "post", "wait", "decide", "over", "died"}
  /\ index \in Nat \ {0} /\ chat \in Nat /\ before \in Nat /\ spans \in Nat
  /\ worker \in {"idle", "run", "call", "reply", "announce"}
  /\ recorded \in Seq({"finished", "stalled", "timeout", "error"})
  /\ Len(recorded) + 1 = index
  /\ stream \in Seq(Events) /\ log \in Seq(Events)

(* An event is known by its conversation and its number there, and belongs *)
(* to a turn that was begun.                                               *)
EventsInv ==
  /\ \A n \in 1 .. Len(log) : log[n].n = n /\ log[n].chat = chat /\ log[n].turn <= index
  /\ \A n \in 1 .. Len(stream) : stream[n].chat <= chat /\ stream[n].turn <= index
  /\ \A m, n \in 1 .. Len(stream) : stream[m] = stream[n] => m = n

(* What was written of this conversation is not looked at again.           *)
Unread ==
  /\ capture \in {"post", "wait"} => before <= Multiturn!Visible
  /\ \A n \in 1 .. Len(stream) :
       stream[n].chat = chat =>
         stream[n].n <= IF capture \in {"post", "wait"} THEN before ELSE Multiturn!Visible

Asked == {m \in 1 .. Len(log) : log[m].kind = "message"}

Latest(m) == \A k \in Asked : k <= m

(* An agent works on the last message.  While the script is between two    *)
(* turns it has answered; while the script waits, the last message is the  *)
(* turn's, and so is every answer that comes.                              *)
WorkInv ==
  /\ worker # "idle" => \E m \in Asked : Latest(m)
  /\ capture \in {"before", "post"} => worker \in {"idle", "announce"}
  /\ capture = "post" => \A n \in 1 .. Len(log) :
                             n > before /\ n <= Page => log[n].kind # "answer"
  /\ capture = "wait" =>
       /\ \E m \in Asked : log[m].turn = index /\ Latest(m)
       /\ \A n \in 1 .. Len(log) :
            n > before /\ n <= Page /\ log[n].kind = "answer" =>
              log[n].turn = index /\ worker \in {"idle", "announce"}

AnswerWritten(t) == \E n \in 1 .. Len(stream) : stream[n].turn = t /\ stream[n].kind = "answer"

RecordInv ==
  /\ capture = "decide" /\ status = "finished" =>
       worker \in {"idle", "announce"} /\ AnswerWritten(index)
  /\ capture = "decide" => status \in {"finished", "stalled", "timeout", "error"}
  /\ \A t \in 1 .. Len(recorded) : recorded[t] = "finished" => AnswerWritten(t)
  /\ \A t \in 1 .. Len(recorded) :
       recorded[t] # "finished" => t = Len(recorded) /\ capture = "over"

(* Of the calls that have a span at most the one whose reply is under way  *)
(* has not become an action or an answer.                                  *)
Acts ==
  {e \in {stream[n] : n \in 1 .. Len(stream)} \cup {log[n] : n \in 1 .. Len(log)} :
     e.kind \in {"action", "answer"}}

SpansInv ==
  /\ IsFiniteSet(Acts)
  /\ Cardinality(Acts) + (IF worker = "reply" THEN 1 ELSE 0) <= spans

CaptureInv == CaptureTypeOK /\ EventsInv /\ Unread /\ WorkInv /\ RecordInv /\ SpansInv

(* The capture begins with nothing recorded.                               *)
LEMMA CaptureInitInv == Multiturn!CaptureInit => CaptureInv
<1> SUFFICES ASSUME Multiturn!CaptureInit
             PROVE  CaptureInv
  OBVIOUS
<1> USE DEF Multiturn!CaptureInit
<1>1. stream = <<>> /\ log = <<>> /\ recorded = <<>> /\ Len(<<>>) = 0
  BY EmptySeq
<1>2. CaptureTypeOK
  BY <1>1, EmptySeq DEF CaptureTypeOK
<1>3. EventsInv /\ Unread /\ WorkInv /\ RecordInv
  BY <1>1 DEF EventsInv, Unread, WorkInv, RecordInv, Asked
<1>4. Acts = {}
  BY <1>1 DEF Acts
<1>5. SpansInv
  BY <1>4, FS_EmptySet DEF SpansInv
<1>6. QED
  BY <1>2, <1>3, <1>5 DEF CaptureInv

(* What is visible of a conversation.                                      *)
LEMMA VisibleFacts ==
  ASSUME CaptureTypeOK
  PROVE  Multiturn!Visible \in Nat /\ Multiturn!Visible <= Len(log) /\ Len(log) \in Nat
  BY ReplaysAssumption, LenProperties DEF CaptureTypeOK, Multiturn!Visible

(* The agent's next event.                                                 *)
LEMMA EmitFacts ==
  ASSUME CaptureInv, worker # "idle", NEW kind \in Kinds \ {"message"}, Multiturn!Emit(kind)
  PROVE  \E e \in Events :
           /\ log' = Append(log, e) /\ e.kind = kind
           /\ e.turn <= index /\ e.chat = chat /\ e.n = Len(log) + 1
           /\ capture = "wait" => e.turn = index
<1> USE DEF CaptureInv, CaptureTypeOK
<1> DEFINE last == CHOOSE m \in Asked : \A k \in Asked : m >= k
           e == [kind |-> kind, turn |-> log[last].turn, chat |-> chat, n |-> Len(log) + 1]
<1>1. Asked \subseteq 1 .. Len(log) /\ Asked # {} /\ Len(log) \in Nat
  BY LenProperties DEF WorkInv, Asked
<1>2. \E m \in Asked : \A k \in Asked : m >= k
  BY <1>1 DEF WorkInv, Latest
<1>3. last \in Asked /\ \A k \in Asked : last >= k
  BY <1>2
<1> HIDE DEF last
<1>4. log[last] \in Events /\ last \in 1 .. Len(log)
  BY <1>1, <1>3, ElementOfSeq
<1>5. e \in Events /\ e.turn <= index
  <2>1. log[last].turn \in Nat /\ log[last].turn <= index
    BY <1>4 DEF Events, EventsInv
  <2> QED
    BY <1>1, <2>1 DEF Events
<1>6. capture = "wait" => e.turn = index
  <2>1. ASSUME NEW m \in Asked, Latest(m)
        PROVE  m = last
    <3>1. m \in Nat /\ last \in Nat /\ m <= last /\ last <= m
      BY <1>1, <1>3, <2>1 DEF Latest
    <3> QED
      BY <3>1
  <2> QED
    BY <2>1 DEF WorkInv
<1>7. log' = Append(log, e)
  BY <1>1 DEF last, Multiturn!Emit, Multiturn!Event, Multiturn!SelectLastInSeq, Multiturn!Max, Asked
<1>8. QED
  BY <1>5, <1>6, <1>7

(* The agent's steps change the log by one event of its own at most.       *)
LEMMA LogGrows ==
  ASSUME CaptureInv, NEW e \in Events, log' = Append(log, e)
  PROVE  /\ log' \in Seq(Events) /\ Len(log) \in Nat /\ Len(log') = Len(log) + 1
         /\ \A n \in 1 .. Len(log) : log'[n] = log[n]
         /\ log'[Len(log) + 1] = e
         /\ Multiturn!Visible <= Multiturn!Visible'
         /\ e.kind # "message" => Asked' = Asked
<1>1. log' \in Seq(Events) /\ Len(log) \in Nat /\ Len(log') = Len(log) + 1
  BY AppendProperties, LenProperties DEF CaptureInv, CaptureTypeOK
<1>2. /\ \A n \in 1 .. Len(log) : log'[n] = log[n]
      /\ log'[Len(log) + 1] = e
  BY AppendProperties DEF CaptureInv, CaptureTypeOK
<1>3. Multiturn!Visible <= Multiturn!Visible'
  BY <1>1, ReplaysAssumption DEF Multiturn!Visible
<1>4. e.kind # "message" => Asked' = Asked
  BY <1>1, <1>2 DEF Asked
<1>5. QED
  BY <1>1, <1>2, <1>3, <1>4

(* The server's steps that leave the log alone.                            *)
LEMMA CallKeeps ==
  ASSUME CaptureInv,
         Multiturn!CallModel \/ Multiturn!Forward \/ Multiturn!ForwardFails
  PROVE  CaptureInv'
<1> USE DEF CaptureInv
<1>1. /\ UNCHANGED <<capture, index, chat, before, status, recorded, stream, log>>
      /\ worker \in {"run", "call"} /\ worker' \in {"run", "call", "reply"}
      /\ spans' = IF worker' = "reply" THEN spans + 1 ELSE spans
  BY DEF Multiturn!CallModel, Multiturn!Forward, Multiturn!ForwardFails, Multiturn!sessionVars
<1>2. CaptureTypeOK'
  BY <1>1 DEF CaptureTypeOK
<1>3. EventsInv' /\ Unread'
  BY <1>1 DEF EventsInv, Unread, Multiturn!Visible
<1>4. WorkInv'
  BY <1>1 DEF WorkInv, Asked, Latest
<1>5. RecordInv'
  BY <1>1 DEF RecordInv, AnswerWritten
<1>6. Acts' = Acts
  BY <1>1 DEF Acts
<1>7. SpansInv'
  <2>1. Cardinality(Acts) \in Nat
    BY FS_CardinalityType DEF SpansInv
  <2>2. QED
    BY <1>1, <1>6, <2>1 DEF SpansInv, CaptureTypeOK
<1>8. QED
  BY <1>2, <1>3, <1>4, <1>5, <1>7

(* An action comes with a reply, whose span was written; an answer ends    *)
(* the agent's work.                                                       *)
LEMMA EmitKeeps ==
  ASSUME CaptureInv, worker # "idle", NEW kind \in Kinds \ {"message"}, Multiturn!Emit(kind),
         worker' \in {"idle", "run", "announce"},
         kind \in {"action", "answer"} => worker = "reply",
         kind = "answer" => worker' = "announce",
         worker = "announce" => worker' = "idle",
         UNCHANGED <<capture, index, chat, before, status, recorded, stream, spans>>
  PROVE  CaptureInv'
<1> USE DEF CaptureInv
<1>1. PICK e \in Events :
        /\ log' = Append(log, e) /\ e.kind = kind
        /\ e.turn <= index /\ e.chat = chat /\ e.n = Len(log) + 1
        /\ capture = "wait" => e.turn = index
  BY EmitFacts
<1>2. /\ log' \in Seq(Events) /\ Len(log) \in Nat /\ Len(log') = Len(log) + 1
      /\ \A n \in 1 .. Len(log) : log'[n] = log[n]
      /\ log'[Len(log) + 1] = e
      /\ Multiturn!Visible <= Multiturn!Visible'
      /\ Asked' = Asked
  BY <1>1, LogGrows
<1>3. 1 .. Len(log') = (1 .. Len(log)) \cup {Len(log) + 1}
  BY <1>2
<1>4. Multiturn!Visible \in Nat /\ Multiturn!Visible' \in Nat
  BY <1>2, ReplaysAssumption DEF Multiturn!Visible
<1>5. CaptureTypeOK'
  BY <1>2 DEF CaptureTypeOK
<1>6. EventsInv'
  BY <1>1, <1>2, <1>3 DEF EventsInv
<1>7. Unread'
  <2>1. \A n \in 1 .. Len(stream) : stream[n].n \in Nat
    <3>1. \A n \in 1 .. Len(stream) : stream[n] \in Events
      BY ElementOfSeq DEF CaptureTypeOK
    <3> QED
      BY <3>1 DEF Events
  <2>2. before \in Nat
    BY DEF CaptureTypeOK
  <2>3. capture' \in {"post", "wait"} => before' <= Multiturn!Visible'
    BY <1>2, <1>4, <2>2 DEF Unread
  <2>4. ASSUME NEW n \in 1 .. Len(stream'), stream'[n].chat = chat'
        PROVE  stream'[n].n <= IF capture' \in {"post", "wait"} THEN before'
                               ELSE Multiturn!Visible'
    BY <1>2, <1>4, <2>1, <2>2, <2>4 DEF Unread
  <2> QED
    BY <2>3, <2>4 DEF Unread
<1>8. WorkInv'
  <2>1. worker' # "idle" => \E m \in Asked' : Latest(m)'
    BY <1>2 DEF WorkInv, Latest
  <2>2. capture' \in {"before", "post"} => worker' \in {"idle", "announce"}
    BY DEF WorkInv
  <2>3. capture' = "post" => \A n \in 1 .. Len(log') :
                               n > before' /\ n <= Page => log'[n].kind # "answer"
    BY <1>1, <1>2, <1>3 DEF WorkInv
  <2>4. ASSUME capture = "wait"
        PROVE  \E m \in Asked' : log'[m].turn = index' /\ Latest(m)'
    BY <1>2, <2>4 DEF WorkInv, Latest, Asked
  <2>5. ASSUME capture = "wait", NEW n \in 1 .. Len(log'), n > before, n <= Page,
               log'[n].kind = "answer"
        PROVE  log'[n].turn = index' /\ worker' \in {"idle", "announce"}
    <3>1. CASE n = Len(log) + 1
      BY <1>1, <1>2, <2>5, <3>1
    <3>2. CASE n \in 1 .. Len(log)
      BY <1>2, <2>5, <3>2 DEF WorkInv
    <3> QED
      BY <1>3, <3>1, <3>2
  <2> QED
    BY <2>1, <2>2, <2>3, <2>4, <2>5 DEF WorkInv
<1>9. RecordInv'
  BY DEF RecordInv, AnswerWritten, WorkInv, CaptureTypeOK
<1>10. SpansInv'
  <2>1. Acts' = IF kind \in {"action", "answer"} THEN Acts \cup {e} ELSE Acts
    BY <1>1, <1>2, <1>3 DEF Acts
  <2>2. Cardinality(Acts) \in Nat
    BY FS_CardinalityType DEF SpansInv
  <2>3. /\ IsFiniteSet(Acts \cup {e})
        /\ Cardinality(Acts \cup {e}) <= Cardinality(Acts) + 1
    BY <2>2, FS_AddElement DEF SpansInv
  <2>4. Cardinality(Acts \cup {e}) \in Nat
    BY <2>3, FS_CardinalityType
  <2>5. CASE kind \in {"action", "answer"}
    BY <2>1, <2>2, <2>3, <2>4, <2>5 DEF SpansInv, CaptureTypeOK
  <2>6. CASE kind \notin {"action", "answer"}
    BY <2>1, <2>2, <2>6 DEF SpansInv, CaptureTypeOK
  <2> QED
    BY <2>5, <2>6
<1>11. QED
  BY <1>5, <1>6, <1>7, <1>8, <1>9, <1>10

(* A call of an earlier conversation adds a span at most.                  *)
LEMMA OrphanKeeps ==
  ASSUME CaptureInv, Multiturn!OrphanCalls
  PROVE  CaptureInv'
<1> USE DEF CaptureInv
<1>1. /\ UNCHANGED <<capture, index, chat, before, status, recorded, stream, log, worker>>
      /\ spans' \in {spans, spans + 1}
  BY DEF Multiturn!OrphanCalls, Multiturn!sessionVars
<1>2. CaptureTypeOK' /\ spans' \in Nat /\ spans <= spans'
  BY <1>1 DEF CaptureTypeOK
<1>3. EventsInv' /\ Unread'
  BY <1>1 DEF EventsInv, Unread, Multiturn!Visible
<1>4. WorkInv'
  BY <1>1 DEF WorkInv, Asked, Latest
<1>5. RecordInv'
  BY <1>1 DEF RecordInv, AnswerWritten
<1>6. SpansInv'
  <2>1. Acts' = Acts
    BY <1>1 DEF Acts
  <2>2. Cardinality(Acts) \in Nat
    BY FS_CardinalityType DEF SpansInv
  <2> QED
    BY <1>1, <1>2, <2>1, <2>2 DEF SpansInv, CaptureTypeOK
<1>7. QED
  BY <1>2, <1>3, <1>4, <1>5, <1>6

(* Every step of the agents and the proxy preserves the invariant.         *)
LEMMA ServerKeeps ==
  ASSUME CaptureInv, Multiturn!Server
  PROVE  CaptureInv'
<1>1. CASE Multiturn!CallModel \/ Multiturn!Forward \/ Multiturn!ForwardFails
  BY <1>1, CallKeeps
<1>2. CASE Multiturn!Act
  BY <1>2, EmitKeeps DEF Multiturn!Act, Multiturn!sessionVars, Kinds
<1>3. CASE Multiturn!Announce
  BY <1>3, EmitKeeps DEF Multiturn!Announce, Multiturn!sessionVars, Kinds
<1>4. CASE Multiturn!Fails
  BY <1>4, EmitKeeps DEF Multiturn!Fails, Multiturn!sessionVars, Kinds
<1>5. CASE Multiturn!OrphanCalls
  BY <1>5, OrphanKeeps
<1>6. QED
  BY <1>1, <1>2, <1>3, <1>4, <1>5 DEF Multiturn!Server

(***************************************************************************)
(* The script.                                                             *)
(***************************************************************************)

(* A step that leaves the stream and the log as they are does not change   *)
(* what was recorded of them.                                              *)
LEMMA ActsStay ==
  ASSUME SpansInv, CaptureTypeOK, UNCHANGED <<stream, spans>>,
         log' = log \/ log' = <<>>, worker' = "reply" => worker = "reply"
  PROVE  SpansInv'
<1>1. Acts' \subseteq Acts
  BY LenProperties, EmptySeq DEF Acts
<1>2. IsFiniteSet(Acts') /\ Cardinality(Acts') <= Cardinality(Acts)
  BY <1>1, FS_Subset DEF SpansInv
<1>3. Cardinality(Acts') \in Nat /\ Cardinality(Acts) \in Nat
  BY <1>2, FS_CardinalityType DEF SpansInv
<1>4. QED
  BY <1>2, <1>3 DEF SpansInv, CaptureTypeOK

(* What is visible now is not looked at again, and nothing is beyond it.   *)
LEMMA ReadBeforeKeeps ==
  ASSUME CaptureInv, Multiturn!ReadBefore
  PROVE  CaptureInv'
<1> USE DEF CaptureInv
<1>1. /\ capture = "before" /\ capture' = "post" /\ before' = Multiturn!Visible
      /\ UNCHANGED <<index, attempt, chat, status, recorded, stream, log, worker, calls, spans>>
  BY DEF Multiturn!ReadBefore, Multiturn!agentVars
<1>2. Multiturn!Visible \in Nat /\ Multiturn!Visible' = Multiturn!Visible
  BY <1>1, VisibleFacts DEF Multiturn!Visible
<1>3. CaptureTypeOK'
  BY <1>1, <1>2 DEF CaptureTypeOK
<1>4. EventsInv' /\ Unread'
  BY <1>1, <1>2 DEF EventsInv, Unread
<1>5. \A n \in 1 .. Len(log) : ~(n > Multiturn!Visible /\ n <= Page)
  BY ReplaysAssumption, VisibleFacts DEF Multiturn!Visible
<1>6. WorkInv'
  BY <1>1, <1>5 DEF WorkInv, Asked, Latest
<1>7. RecordInv'
  BY <1>1 DEF RecordInv, AnswerWritten
<1>8. SpansInv'
  BY <1>1, ActsStay
<1>9. QED
  BY <1>3, <1>4, <1>6, <1>7, <1>8

(* The message is the conversation's last, and nothing answers it yet.     *)
LEMMA PostKeeps ==
  ASSUME CaptureInv, Multiturn!Post
  PROVE  CaptureInv'
<1> USE DEF CaptureInv
<1> DEFINE e == [kind |-> "message", turn |-> index, chat |-> chat, n |-> Len(log) + 1]
<1>1. /\ capture = "post" /\ capture' = "wait" /\ worker = "idle" /\ worker' = "run"
      /\ log' = Append(log, e)
      /\ UNCHANGED <<index, chat, before, status, recorded, stream, spans>>
  BY DEF Multiturn!Post, Multiturn!Event
<1>2. e \in Events /\ e.kind = "message" /\ e.turn = index /\ e.chat = chat /\ e.n = Len(log) + 1
  BY LenProperties DEF Events, Kinds, CaptureTypeOK
<1> HIDE DEF e
<1>3. /\ log' \in Seq(Events) /\ Len(log) \in Nat /\ Len(log') = Len(log) + 1
      /\ \A n \in 1 .. Len(log) : log'[n] = log[n]
      /\ log'[Len(log) + 1] = e
      /\ Multiturn!Visible <= Multiturn!Visible'
  BY <1>1, <1>2, LogGrows
<1>4. 1 .. Len(log') = (1 .. Len(log)) \cup {Len(log) + 1}
  BY <1>3
<1>5. Multiturn!Visible \in Nat /\ Multiturn!Visible' \in Nat /\ before \in Nat
  BY <1>3, ReplaysAssumption DEF Multiturn!Visible, CaptureTypeOK
<1>6. CaptureTypeOK'
  BY <1>1, <1>3 DEF CaptureTypeOK
<1>7. EventsInv'
  <2>1. index \in Nat
    BY DEF CaptureTypeOK
  <2> QED
    BY <1>1, <1>2, <1>3, <1>4, <2>1 DEF EventsInv
<1>8. Unread'
  BY <1>1, <1>3, <1>5 DEF Unread
<1>9. WorkInv'
  <2>1. ASSUME NEW m, m = Len(log) + 1
        PROVE  m \in Asked' /\ log'[m].turn = index' /\ Latest(m)'
    BY <1>1, <1>2, <1>3, <2>1 DEF Asked, Latest
  <2>2. ASSUME NEW n \in 1 .. Len(log'), n > before', n <= Page, log'[n].kind = "answer"
        PROVE  FALSE
    BY <1>1, <1>2, <1>3, <1>4, <2>2 DEF WorkInv
  <2> QED
    BY <1>1, <2>1, <2>2 DEF WorkInv
<1>10. RecordInv'
  BY <1>1 DEF RecordInv, AnswerWritten
<1>11. SpansInv'
  <2>1. Acts' = Acts
    BY <1>1, <1>2, <1>3, <1>4 DEF Acts
  <2> QED
    BY <1>1, <2>1 DEF SpansInv
<1>12. QED
  BY <1>6, <1>7, <1>8, <1>9, <1>10, <1>11

(* What the script sees of its turn.                                       *)
LEMMA CurrentFacts ==
  ASSUME CaptureInv, capture = "wait"
  PROVE  /\ Multiturn!Current \in Seq(Events) /\ Len(Multiturn!Current) \in Nat
         /\ \A k \in 1 .. Len(Multiturn!Current) :
              /\ before + k \in 1 .. Len(log) /\ before + k <= Multiturn!Visible
              /\ before + k > before /\ before + k <= Page
              /\ Multiturn!Current[k] = log[before + k]
<1> USE DEF CaptureInv
<1>1. /\ Multiturn!Visible \in Nat /\ Multiturn!Visible <= Len(log) /\ Len(log) \in Nat
      /\ before \in Nat /\ before <= Multiturn!Visible
  BY VisibleFacts DEF Unread, CaptureTypeOK
<1>2. Multiturn!Visible <= Page /\ Page \in Nat
  BY <1>1, ReplaysAssumption DEF Multiturn!Visible
<1> DEFINE v == Multiturn!Visible
<1>3. \A i \in before + 1 .. v : log[i] \in Events
  BY <1>1, ElementOfSeq DEF CaptureTypeOK
<1>4. Multiturn!Current = SubSeq(log, before + 1, v)
  BY DEF Multiturn!Current
<1> HIDE DEF v
<1>5. before + 1 \in Int /\ v \in Int
  BY <1>1 DEF v
<1>6. /\ SubSeq(log, before + 1, v) \in Seq(Events)
      /\ Len(SubSeq(log, before + 1, v)) = IF before + 1 <= v THEN v - (before + 1) + 1 ELSE 0
      /\ \A i \in 1 .. v - (before + 1) + 1 : SubSeq(log, before + 1, v)[i] = log[before + 1 + i - 1]
  BY <1>3, <1>5, SubSeqProperties
<1>7. Len(Multiturn!Current) = v - before
  BY <1>1, <1>4, <1>6 DEF v
<1>8. \A k \in 1 .. v - before : Multiturn!Current[k] = log[before + k]
  <2>1. \A k \in 1 .. v - before : before + 1 + k - 1 = before + k
    BY <1>1 DEF v
  <2>2. v - (before + 1) + 1 = v - before
    BY <1>1 DEF v
  <2>3. \A k \in 1 .. v - before : SubSeq(log, before + 1, v)[k] = log[before + 1 + k - 1]
    BY <1>6, <2>2
  <2> QED
    BY <1>4, <2>1, <2>3
<1>9. QED
  BY <1>1, <1>2, <1>4, <1>6, <1>7, <1>8 DEF v

(* What the stream gains are new events of this conversation.              *)
LEMMA WaitEndsKeeps ==
  ASSUME CaptureInv, Multiturn!WaitEnds
  PROVE  CaptureInv'
<1> USE DEF CaptureInv
<1> DEFINE current == Multiturn!Current
<1>1. /\ capture = "wait" /\ capture' = "decide"
      /\ status' \in {"finished", "stalled", "timeout", "error"}
      /\ status' = "finished" => \E k \in DOMAIN current : current[k].kind = "answer"
      /\ stream' = stream \o current
      /\ UNCHANGED <<index, chat, before, recorded, log, worker, spans>>
  BY DEF Multiturn!WaitEnds, Multiturn!agentVars, Multiturn!Shows
<1>2. /\ current \in Seq(Events) /\ Len(current) \in Nat
      /\ \A k \in 1 .. Len(current) :
           /\ before + k \in 1 .. Len(log) /\ before + k <= Multiturn!Visible
           /\ before + k > before /\ before + k <= Page
           /\ current[k] = log[before + k]
  BY <1>1, CurrentFacts
<1> HIDE DEF current
<1>3. stream \in Seq(Events) /\ Len(stream) \in Nat
  BY LenProperties DEF CaptureTypeOK
<1>4. /\ stream' \in Seq(Events) /\ Len(stream') = Len(stream) + Len(current)
      /\ \A n \in 1 .. Len(stream) + Len(current) :
           stream'[n] = IF n <= Len(stream) THEN stream[n] ELSE current[n - Len(stream)]
  BY <1>1, <1>2, <1>3, ConcatProperties
<1>5. /\ \A n \in 1 .. Len(stream) : n \in 1 .. Len(stream') /\ stream'[n] = stream[n]
      /\ \A k \in 1 .. Len(current) : /\ Len(stream) + k \in 1 .. Len(stream')
                                      /\ stream'[Len(stream) + k] = log[before + k]
  <2>1. \A k \in 1 .. Len(current) :
          Len(stream) + k - Len(stream) = k /\ ~(Len(stream) + k <= Len(stream))
    BY <1>2, <1>3
  <2>2. ASSUME NEW k \in 1 .. Len(current)
        PROVE  Len(stream) + k \in 1 .. Len(stream) + Len(current)
    BY <1>2, <1>3
  <2>3. ASSUME NEW n \in 1 .. Len(stream)
        PROVE  n \in 1 .. Len(stream) + Len(current) /\ n <= Len(stream)
    BY <1>2, <1>3
  <2>4. ASSUME NEW k \in 1 .. Len(current)
        PROVE  stream'[Len(stream) + k] = log[before + k]
    <3>1. stream'[Len(stream) + k] = current[Len(stream) + k - Len(stream)]
      BY <1>4, <2>1, <2>2
    <3> QED
      BY <1>2, <2>1, <3>1
  <2>5. \A n \in 1 .. Len(stream) : stream'[n] = stream[n]
    BY <1>4, <2>3
  <2> QED
    BY <1>4, <2>2, <2>3, <2>4, <2>5
<1>6. ASSUME NEW n \in 1 .. Len(stream')
      PROVE  n \in 1 .. Len(stream) \/ \E k \in 1 .. Len(current) : n = Len(stream) + k
  <2>1. CASE n > Len(stream)
    <3>1. n - Len(stream) \in 1 .. Len(current) /\ n = Len(stream) + (n - Len(stream))
      BY <1>2, <1>3, <1>4, <2>1
    <3> QED
      BY <3>1
  <2> QED
    BY <1>3, <1>4, <2>1
<1>7. \A k \in 1 .. Len(current) :
        /\ log[before + k].n = before + k /\ log[before + k].chat = chat
        /\ log[before + k].turn <= index
  BY <1>2 DEF EventsInv
<1>8. before \in Nat /\ Multiturn!Visible \in Nat /\ Multiturn!Visible' = Multiturn!Visible
      /\ before <= Multiturn!Visible /\ chat \in Nat
  BY <1>1, VisibleFacts DEF Unread, Multiturn!Visible, CaptureTypeOK
<1>9. CaptureTypeOK'
  BY <1>1, <1>4 DEF CaptureTypeOK
<1>10. EventsInv'
  <2>1. \A n \in 1 .. Len(stream') : stream'[n].chat <= chat /\ stream'[n].turn <= index
    <3>1. ASSUME NEW n \in 1 .. Len(stream)
          PROVE  stream'[n].chat <= chat /\ stream'[n].turn <= index
      BY <1>5 DEF EventsInv
    <3>2. ASSUME NEW k \in 1 .. Len(current), NEW n, n = Len(stream) + k
          PROVE  stream'[n].chat <= chat /\ stream'[n].turn <= index
      <4>1. stream'[n] = log[before + k]
        BY <1>5, <3>2
      <4> QED
        BY <1>7, <1>8, <4>1
    <3> QED
      BY <1>6, <3>1, <3>2
  <2>2. ASSUME NEW m \in 1 .. Len(stream'), NEW n \in 1 .. Len(stream'), stream'[m] = stream'[n]
        PROVE  m = n
    <3>1. CASE m \in 1 .. Len(stream) /\ n \in 1 .. Len(stream)
      BY <1>5, <2>2, <3>1 DEF EventsInv
    <3>2. ASSUME NEW i \in 1 .. Len(stream), NEW k \in 1 .. Len(current)
          PROVE  stream[i] # log[before + k]
      <4>1. stream[i].chat = chat => stream[i].n <= before
        BY <1>1 DEF Unread
      <4>2. log[before + k].chat = chat /\ log[before + k].n = before + k /\ k \in Nat /\ k > 0
        BY <1>2, <1>7
      <4> QED
        BY <1>8, <4>1, <4>2
    <3>3. ASSUME NEW i \in 1 .. Len(current), NEW k \in 1 .. Len(current),
                 m = Len(stream) + i, n = Len(stream) + k
          PROVE  m = n
      <4>1. log[before + i].n = log[before + k].n
        BY <1>5, <2>2, <3>3
      <4>2. before + i = before + k
        BY <1>7, <4>1
      <4>3. i = k
        BY <1>2, <1>8, <4>2
      <4> QED
        BY <3>3, <4>3
    <3>4. CASE m \in 1 .. Len(stream) /\ n \notin 1 .. Len(stream)
      <4>1. PICK k \in 1 .. Len(current) : n = Len(stream) + k
        BY <1>6, <3>4
      <4>2. stream'[m] = stream[m] /\ stream'[n] = log[before + k]
        BY <1>5, <3>4, <4>1
      <4> QED
        BY <2>2, <3>2, <3>4, <4>2
    <3>5. CASE m \notin 1 .. Len(stream) /\ n \in 1 .. Len(stream)
      <4>1. PICK k \in 1 .. Len(current) : m = Len(stream) + k
        BY <1>6, <3>5
      <4>2. stream'[n] = stream[n] /\ stream'[m] = log[before + k]
        BY <1>5, <3>5, <4>1
      <4> QED
        BY <2>2, <3>2, <3>5, <4>2
    <3>6. CASE m \notin 1 .. Len(stream) /\ n \notin 1 .. Len(stream)
      BY <1>6, <3>3, <3>6
    <3> QED
      BY <3>1, <3>4, <3>5, <3>6
  <2> QED
    BY <1>1, <2>1, <2>2 DEF EventsInv
<1>11. Unread'
  <2>1. ASSUME NEW n \in 1 .. Len(stream'), stream'[n].chat = chat
        PROVE  stream'[n].n <= Multiturn!Visible
    <3>1. CASE n \in 1 .. Len(stream)
      <4>1. stream'[n] = stream[n] /\ stream[n] \in Events
        BY <1>3, <1>5, <3>1, ElementOfSeq
      <4>2. stream[n].n \in Nat /\ stream[n].n <= before
        BY <1>1, <2>1, <3>1, <4>1 DEF Unread, Events
      <4> QED
        BY <1>8, <4>1, <4>2
    <3>2. ASSUME NEW k \in 1 .. Len(current), n = Len(stream) + k
          PROVE  stream'[n].n <= Multiturn!Visible
      BY <1>2, <1>5, <1>7, <3>2
    <3> QED
      BY <1>6, <3>1, <3>2
  <2> QED
    BY <1>1, <1>8, <2>1 DEF Unread
<1>12. WorkInv'
  BY <1>1 DEF WorkInv, Asked, Latest
<1>13. \A t : AnswerWritten(t) => AnswerWritten(t)'
  BY <1>5 DEF AnswerWritten
<1>14. RecordInv'
  <2>1. ASSUME status' = "finished"
        PROVE  worker \in {"idle", "announce"} /\ AnswerWritten(index)'
    <3>1. PICK k \in 1 .. Len(current) : current[k].kind = "answer"
      BY <1>1, <1>2, <2>1, LenProperties
    <3>2. log[before + k].turn = index /\ worker \in {"idle", "announce"}
      BY <1>1, <1>2, <3>1 DEF WorkInv
    <3>3. stream'[Len(stream) + k] = log[before + k] /\ Len(stream) + k \in 1 .. Len(stream')
      BY <1>5
    <3>4. log[before + k].kind = "answer"
      BY <1>2, <3>1
    <3> QED
      BY <1>1, <3>2, <3>3, <3>4 DEF AnswerWritten
  <2>2. capture' = "decide" /\ status' = "finished" =>
          worker' \in {"idle", "announce"} /\ AnswerWritten(index)'
    BY <1>1, <2>1
  <2>3. \A t \in 1 .. Len(recorded) : recorded[t] = "finished" /\ AnswerWritten(t)
    BY <1>1 DEF RecordInv
  <2>4. \A t \in 1 .. Len(recorded) : recorded[t] = "finished" /\ AnswerWritten(t)'
    BY <1>13, <2>3
  <2>5. \A t \in 1 .. Len(recorded') : recorded'[t] = "finished" /\ AnswerWritten(t)'
    BY <1>1, <2>4
  <2>6. capture' = "decide" => status' \in {"finished", "stalled", "timeout", "error"}
    BY <1>1
  <2> HIDE DEF CaptureInv
  <2> QED
    BY <2>2, <2>5, <2>6 DEF RecordInv
<1>15. SpansInv'
  <2>1. Acts' = Acts
    <3>1. ASSUME NEW n \in 1 .. Len(stream')
          PROVE  \/ \E m \in 1 .. Len(stream) : stream'[n] = stream[m]
                 \/ \E m \in 1 .. Len(log) : stream'[n] = log[m]
      <4>1. CASE n \in 1 .. Len(stream)
        BY <1>5, <4>1
      <4>2. ASSUME NEW k \in 1 .. Len(current), n = Len(stream) + k
            PROVE  stream'[n] = log[before + k] /\ before + k \in 1 .. Len(log)
        BY <1>2, <1>5, <4>2
      <4> QED
        BY <1>6, <4>1, <4>2
    <3>2. {stream'[n] : n \in 1 .. Len(stream')} \cup {log[n] : n \in 1 .. Len(log)}
            = {stream[n] : n \in 1 .. Len(stream)} \cup {log[n] : n \in 1 .. Len(log)}
      BY <1>5, <3>1
    <3> QED
      BY <1>1, <3>2 DEF Acts
  <2> QED
    BY <1>1, <2>1 DEF SpansInv
<1>16. QED
  BY <1>9, <1>10, <1>11, <1>12, <1>14, <1>15

(* A turn is recorded as finished when its answer is in the stream.        *)
LEMMA RecordTurnKeeps ==
  ASSUME CaptureInv, Multiturn!RecordTurn
  PROVE  CaptureInv'
<1> USE DEF CaptureInv
<1>1. /\ capture = "decide" /\ capture' \in {"before", "over"}
      /\ recorded' = Append(recorded, status) /\ index' = index + 1
      /\ status # "finished" => capture' = "over"
      /\ UNCHANGED <<chat, before, status, stream, log, worker, spans>>
  BY DEF Multiturn!RecordTurn, Multiturn!agentVars
<1>2. status \in {"finished", "stalled", "timeout", "error"}
  BY <1>1 DEF RecordInv
<1>3. /\ Len(recorded) \in Nat /\ Len(recorded') = Len(recorded) + 1
      /\ recorded' \in Seq({"finished", "stalled", "timeout", "error"})
      /\ \A t \in 1 .. Len(recorded) : recorded'[t] = recorded[t]
      /\ recorded'[Len(recorded) + 1] = status
  BY <1>1, <1>2, AppendProperties, LenProperties DEF CaptureTypeOK
<1>4. 1 .. Len(recorded') = (1 .. Len(recorded)) \cup {Len(recorded) + 1}
  BY <1>3
<1>5. index = Len(recorded) + 1
  BY DEF CaptureTypeOK
<1>6. CaptureTypeOK'
  BY <1>1, <1>3, <1>5 DEF CaptureTypeOK
<1>7. EventsInv'
  <2>1. /\ \A n \in 1 .. Len(log) : log[n] \in Events
        /\ \A n \in 1 .. Len(stream) : stream[n] \in Events
    BY ElementOfSeq DEF CaptureTypeOK
  <2>2. /\ \A n \in 1 .. Len(log) : log[n].turn \in Nat
        /\ \A n \in 1 .. Len(stream) : stream[n].turn \in Nat
    BY <2>1 DEF Events
  <2>3. index \in Nat
    BY DEF CaptureTypeOK
  <2> QED
    BY <1>1, <2>2, <2>3 DEF EventsInv
<1>8. Unread'
  BY <1>1 DEF Unread, Multiturn!Visible
<1>9. WorkInv'
  BY <1>1 DEF WorkInv, Asked, Latest, RecordInv
<1>10. RecordInv'
  <2>1. \A t : AnswerWritten(t)' <=> AnswerWritten(t)
    BY <1>1 DEF AnswerWritten
  <2>2. \A t \in 1 .. Len(recorded) : recorded[t] = "finished" /\ AnswerWritten(t)
    BY <1>1 DEF RecordInv
  <2>3. status = "finished" => AnswerWritten(index)
    BY <1>1 DEF RecordInv
  <2> QED
    BY <1>1, <1>3, <1>4, <1>5, <2>1, <2>2, <2>3 DEF RecordInv
<1>11. SpansInv'
  BY <1>1, ActsStay
<1>12. QED
  BY <1>6, <1>7, <1>8, <1>9, <1>10, <1>11

(* A new conversation: nothing of it was written, nobody works in it.      *)
LEMMA RecoverKeeps ==
  ASSUME CaptureInv, Multiturn!Recover
  PROVE  CaptureInv'
<1> USE DEF CaptureInv
<1>1. /\ capture = "decide" /\ capture' = "before" /\ chat' = chat + 1
      /\ log' = <<>> /\ worker' = "idle"
      /\ UNCHANGED <<index, before, status, recorded, stream, spans>>
  BY DEF Multiturn!Recover
<1>2. log' \in Seq(Events) /\ Len(log') = 0
  BY <1>1, EmptySeq
<1>3. CaptureTypeOK'
  BY <1>1, <1>2 DEF CaptureTypeOK
<1>4. \A n \in 1 .. Len(stream) : stream[n].chat \in Nat
  <2>1. \A n \in 1 .. Len(stream) : stream[n] \in Events
    BY ElementOfSeq DEF CaptureTypeOK
  <2> QED
    BY <2>1 DEF Events
<1>5. chat \in Nat
  BY DEF CaptureTypeOK
<1>6. EventsInv'
  BY <1>1, <1>2, <1>4, <1>5 DEF EventsInv
<1>7. Unread'
  BY <1>1, <1>4, <1>5 DEF Unread, EventsInv
<1>8. WorkInv'
  BY <1>1, <1>2 DEF WorkInv
<1>9. RecordInv'
  BY <1>1 DEF RecordInv, AnswerWritten
<1>10. SpansInv'
  BY <1>1, ActsStay
<1>11. QED
  BY <1>3, <1>6, <1>7, <1>8, <1>9, <1>10

(* When the script dies nothing else changes.                              *)
LEMMA RequestFailsKeeps ==
  ASSUME CaptureInv, Multiturn!RequestFails
  PROVE  CaptureInv'
<1> USE DEF CaptureInv
<1>1. /\ capture \in {"before", "post", "wait"} /\ capture' = "died"
      /\ UNCHANGED <<index, chat, before, status, recorded, stream, log, worker, spans>>
  BY DEF Multiturn!RequestFails, Multiturn!agentVars
<1>2. CaptureTypeOK'
  BY <1>1 DEF CaptureTypeOK
<1>3. EventsInv'
  BY <1>1 DEF EventsInv
<1>4. Unread'
  <2>1. \A n \in 1 .. Len(stream) : stream[n] \in Events
    BY ElementOfSeq DEF CaptureTypeOK
  <2>2. \A n \in 1 .. Len(stream) : stream[n].n \in Nat
    BY <2>1 DEF Events
  <2>3. before \in Nat /\ Multiturn!Visible \in Nat /\ Multiturn!Visible' = Multiturn!Visible
    BY <1>1, VisibleFacts DEF Multiturn!Visible, CaptureTypeOK
  <2> QED
    BY <1>1, <2>2, <2>3 DEF Unread
<1>5. WorkInv'
  BY <1>1 DEF WorkInv, Asked, Latest
<1>6. RecordInv'
  BY <1>1 DEF RecordInv, AnswerWritten
<1>7. SpansInv'
  BY <1>1, ActsStay
<1>8. QED
  BY <1>2, <1>3, <1>4, <1>5, <1>6, <1>7

(* Every step of the script, the agent and the proxy preserves it.         *)
LEMMA CaptureStep ==
  ASSUME CaptureInv, Multiturn!CaptureNext \/ UNCHANGED captureVars
  PROVE  CaptureInv'
<1>1. CASE Multiturn!Server
  BY <1>1, ServerKeeps
<1>2. CASE Multiturn!Script
  BY <1>2, ReadBeforeKeeps, PostKeeps, WaitEndsKeeps, RecordTurnKeeps, RecoverKeeps,
     RequestFailsKeeps DEF Multiturn!Script
<1>3. CASE UNCHANGED captureVars
  BY <1>3 DEF captureVars, CaptureInv, CaptureTypeOK, EventsInv, Unread, WorkInv, RecordInv,
              SpansInv, Asked, Latest, AnswerWritten, Acts, Multiturn!Visible
<1>4. QED
  BY <1>1, <1>2, <1>3 DEF Multiturn!CaptureNext

(* The actions and answers in the stream are among Acts, each once.        *)
LEMMA CapturePromise == CaptureInv => CaptureIsWhole
<1> SUFFICES ASSUME CaptureInv
             PROVE  CaptureIsWhole
  OBVIOUS
<1> USE DEF CaptureInv
<1>1. DOMAIN stream = 1 .. Len(stream) /\ DOMAIN recorded = 1 .. Len(recorded)
  BY LenProperties DEF CaptureTypeOK
<1>2. Multiturn!FinishedTurnsAnswered
  <2>1. \A t \in DOMAIN recorded :
          /\ recorded[t] = "finished" => Multiturn!Of(t, "answer") # {}
          /\ recorded[t] # "finished" => t = Len(recorded)
    BY <1>1 DEF RecordInv, AnswerWritten, Multiturn!Of
  <2>2. \A m, n \in DOMAIN stream : stream[m] = stream[n] => m = n
    BY <1>1 DEF EventsInv
  <2>3. ASSUME NEW t \in 1 .. Turns, Multiturn!Of(t, "message") # {}
        PROVE  t <= Len(recorded) + 1
    <3>1. PICK n \in 1 .. Len(stream) : stream[n].turn = t
      BY <1>1, <2>3 DEF Multiturn!Of
    <3> QED
      BY <3>1 DEF EventsInv, CaptureTypeOK
  <2> QED
    BY <2>1, <2>2, <2>3 DEF Multiturn!FinishedTurnsAnswered
<1>3. Multiturn!SpansCoverActions
  <2> DEFINE Places == {n \in DOMAIN stream : stream[n].kind \in {"action", "answer"}}
             at == [n \in Places |-> stream[n]]
  <2>1. at \in Injection(Places, Acts)
    BY <1>1 DEF Injection, IsInjective, EventsInv, Acts
  <2>2. IsFiniteSet(Places) /\ Cardinality(Places) <= Cardinality(Acts)
    BY <2>1, FS_Injection DEF SpansInv
  <2>3. Cardinality(Places) \in Nat /\ Cardinality(Acts) \in Nat
    BY <2>2, FS_CardinalityType DEF SpansInv
  <2>4. Cardinality(Places) <= spans
    <3> HIDE DEF Places
    <3>1. Cardinality(Acts) <= spans /\ spans \in Nat
      BY <2>3 DEF SpansInv, CaptureTypeOK
    <3> QED
      BY <2>2, <2>3, <3>1
  <2>5. Multiturn!Cardinality(Places) = Cardinality(Places)
    BY SameCardinality
  <2>6. Multiturn!Cardinality(Places) <= spans
    <3> HIDE DEF Places
    <3> QED
      BY <2>4, <2>5
  <2>7. spans >= Multiturn!Cardinality(Places)
    <3> HIDE DEF Places
    <3> QED
      BY <2>3, <2>5, <2>6 DEF CaptureTypeOK
  <2> QED
    BY <2>7 DEF Multiturn!SpansCoverActions
<1>4. QED
  BY <1>2, <1>3 DEF CaptureIsWhole

-----------------------------------------------------------------------------
(***************************************************************************)
(* The theorems.                                                           *)
(***************************************************************************)

(* ReplaysInit begins every program.                                       *)
LEMMA Begins ==
  ASSUME ReplaysInit
  PROVE  /\ Init /\ Tenancy!Init /\ Docker!FleetInit /\ Yig!YigInit /\ Multiturn!CaptureInit
         /\ Artifact!ArtifactInit /\ Gate!GateInit /\ Phase!PhaseInit
  BY DEF ReplaysInit

(* MicroVM.request and replay-agent keep at most one request under way on  *)
(* the connection that is kept, and none between two requests.             *)
THEOREM ChannelInvariant == Spec => []ChannelInv
<1>1. ChannelInv /\ [Next]_vars => ChannelInv'
  BY ChannelStep
<1>2. QED
  BY <1>1, ChannelInitInv, PTL DEF Spec

(* The state of the channel is well-formed.                                *)
THEOREM ChannelTypes == Spec => []ChannelTypeOK
<1>1. ChannelInv => ChannelTypeOK
  BY DEF ChannelInv
<1>2. QED
  BY <1>1, ChannelInvariant, PTL

(* MicroVM.request returns the reply to its own request: the late reply of *)
(* a command that timed out is never taken for that of the next one.       *)
THEOREM RepliesAreOwn == ReplaysSpec => []ReplyIsOwn
<1>1. ReplaysInit => ChannelInv
  BY Begins, ChannelInitInv
<1>2. ChannelInv /\ [ReplaysNext]_replaysVars => ChannelInv'
  BY OneProgram, ChannelStep
<1>3. ChannelInv => ReplyIsOwn
  BY DEF ChannelInv
<1>4. QED
  BY <1>1, <1>2, <1>3, PTL DEF ReplaysSpec

(* Every VM that run_yig_microvm_replay.py starts is collected, or stopped *)
(* when main dies; only one whose start raised is forgotten.  When the     *)
(* finally clause is cut short, or SIGTERM leaves it out, those that were  *)
(* not stopped are among the active ones.                                  *)
THEOREM GuestsAreCollected == ReplaysSpec => []NoGuestForgotten
<1>1. ReplaysInit => YigInv
  BY Begins, YigInitInv
<1>2. YigInv /\ [ReplaysNext]_replaysVars => YigInv'
  BY OneProgram, YigStep
<1>3. QED
  BY <1>1, <1>2, YigPromise, PTL DEF ReplaysSpec

(* The phase-priority scripts restore the host wherever they end, if the   *)
(* restore itself is not cut short, and leave no controller or recorder    *)
(* but one whose pid they had not noted; and they measure the experiment   *)
(* under their policy until a signal comes.                                *)
THEOREM PolicyIsRestored == ReplaysSpec => []PolicyRestored
<1>1. ReplaysInit => PhaseInv
  BY Begins, PhaseInitInv
<1>2. PhaseInv /\ [ReplaysNext]_replaysVars => PhaseInv'
  BY OneProgram, PhaseStep
<1>3. PhaseInv => PolicyRestored
  BY DEF PhaseInv, PhaseTypeOK, BeforeSignal, RecorderWaited, RestoreInOrder, PolicyRestored, Phase!PolicyRestored, Phase!InForce,
         Phase!ControllerUnknown, Phase!RecorderUnknown
<1>4. QED
  BY <1>1, <1>2, <1>3, PTL DEF ReplaysSpec

(* A guest reports ARTIFACT_READY for a part of its image only when the    *)
(* export failed, the server died, or a relay gave up or was reset, for    *)
(* every number of relays; and nobody passes a simultaneous gate before    *)
(* all have come.                                                          *)
THEOREM GuestsAreWhole == ReplaysSpec => []GuestsBeginWhole
<1>1. ReplaysInit => ArtifactInv /\ GateInv
  BY Begins, ArtifactInitInv, GateInitInv
<1>2. ArtifactInv /\ GateInv /\ [ReplaysNext]_replaysVars => ArtifactInv' /\ GateInv'
  BY OneProgram, ArtifactStep, GateStep
<1>3. ArtifactInv /\ GateInv => GuestsBeginWhole
  BY DEF ArtifactInv, GateInv, GuestsBeginWhole
<1>4. QED
  BY <1>1, <1>2, <1>3, PTL DEF ReplaysSpec

(* A turn of a capture that is recorded as finished was answered, nothing  *)
(* is recorded twice, and no action is recorded whose call has no span.    *)
THEOREM CapturesAreWhole == ReplaysSpec => []CaptureIsWhole
<1>1. ReplaysInit => CaptureInv
  BY Begins, CaptureInitInv
<1>2. CaptureInv /\ [ReplaysNext]_replaysVars => CaptureInv'
  BY OneProgram, CaptureStep
<1>3. QED
  BY <1>1, <1>2, CapturePromise, PTL DEF ReplaysSpec

(* A container is left behind only in the ways ContainersExplained names:  *)
(* nobody could remove it, node0's cleanup was too early for it, or a      *)
(* signal ended its replay; and node0 samples only whole batches that are  *)
(* resident.                                                               *)
THEOREM FleetIsAccountedFor == ReplaysSpec => []FleetAccountedFor
<1>1. ReplaysInit => FleetInv
  BY Begins, FleetInitInv
<1>2. FleetInv /\ [ReplaysNext]_replaysVars => FleetInv'
  BY OneProgram, FleetStep
<1>3. QED
  BY <1>1, <1>2, FleetPromise, PTL DEF ReplaysSpec

(* No run of the benchmark is lost or done twice, whatever its tenants do; *)
(* a result that is missing at the end has a deadline or a dead tenant to  *)
(* explain it.                                                             *)
THEOREM RunsAreAccountedFor == ReplaysSpec => []RunsAccountedFor
<1>1. ReplaysInit => TenantInv
  BY Begins, TenantInitInv
<1>2. TenantInv /\ [ReplaysNext]_replaysVars => TenantInv'
  BY OneProgram, TenantStep
<1>3. QED
  BY <1>1, <1>2, TenantPromise, PTL DEF ReplaysSpec
==============================================================================
