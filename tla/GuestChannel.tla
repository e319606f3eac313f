---------------------------- MODULE GuestChannel ----------------------------
(***************************************************************************)
(* One microVM of the multi-tenant benchmark as its tenant talks to it:    *)
(* MicroVM.request, _connect and _close (sdebench_mt/vmm.py) on the host,  *)
(* replay-agent and its restart by init (vm/guest/) in the guest.  The     *)
(* host sends one request at a time over a persistent connection, gives up *)
(* after a timeout, and knows a reply only by the connection it is on.     *)
(***************************************************************************)
EXTENDS Naturals, Sequences

CONSTANTS
  MaxRequests,  (* bound: requests of the tenant                           *)
  MaxFaults     (* bound: timeouts of the host and crashes of the agent    *)

ASSUME ChannelAssumption == MaxRequests \in Nat /\ MaxFaults \in Nat

VARIABLES
  asked,     (* requests made so far: the last is the one waited for       *)
  waiting,   (* request() has written its line and reads                   *)
  conn,      (* self._conn: the connection's number, 0 for None            *)
  opened,    (* connections made                                           *)
  line,      (* the request the guest's end of a connection has yet to read*)
  running,   (* the request that the connection's thread is handling       *)
  replies,   (* replies on their way to the host                           *)
  serving,   (* connections whose thread in replay-agent is alive          *)
  agent,     (* replay-agent accepts connections                           *)
  read,      (* the request the reply returned was for, 0 if none was      *)
  faults

vars == <<asked, waiting, conn, opened, line, running, replies, serving,
          agent, read, faults>>

\* A connection is made at most once for each request and after each fault.
Connections == 1 .. MaxRequests

Init ==
  /\ asked = 0
  /\ waiting = FALSE
  /\ conn = 0
  /\ opened = 0
  /\ line = [c \in Connections |-> 0]
  /\ running = [c \in Connections |-> 0]
  /\ replies = [c \in Connections |-> <<>>]
  /\ serving = {}
  /\ agent = FALSE
  /\ read = 0
  /\ faults = 0

Fault == faults < MaxFaults /\ faults' = faults + 1

(***************************************************************************)
(* The host.                                                               *)
(***************************************************************************)

\* request() without a connection, the agent not listening: _connect raises
\* and leaves _conn None.  The boot loop of start and the next command of the
\* agent both come here again.
ConnectFails ==
  /\ asked < MaxRequests
  /\ ~waiting
  /\ conn = 0
  /\ ~agent
  /\ asked' = asked + 1
  /\ read' = 0
  /\ UNCHANGED <<waiting, conn, opened, line, running, replies, serving, agent,
                 faults>>

\* request(): connect if there is no connection, write the line, read.
Request ==
  /\ asked < MaxRequests
  /\ ~waiting
  /\ asked' = asked + 1
  /\ waiting' = TRUE
  /\ \/ /\ conn # 0
        /\ UNCHANGED <<conn, opened, serving>>
     \/ /\ conn = 0
        /\ agent
        /\ opened' = opened + 1
        /\ conn' = opened'
        /\ serving' = serving \cup {opened'}
  /\ line' = [line EXCEPT ![conn'] = asked']
  /\ read' = 0
  /\ UNCHANGED <<running, replies, agent, faults>>

\* A line arrives: a result, or an "error" that raises GuestError and keeps
\* the connection.
Answered ==
  /\ waiting
  /\ replies[conn] # <<>>
  /\ read' = Head(replies[conn])
  /\ replies' = [replies EXCEPT ![conn] = Tail(@)]
  /\ waiting' = FALSE
  /\ UNCHANGED <<asked, conn, opened, line, running, serving, agent, faults>>

\* Mutant of Close: the connection is kept for the next request.
CloseNothing == UNCHANGED conn

\* _close
Close == conn' = 0

\* The read times out (OSError), or ends with an empty line because the guest
\* closed the connection: either way the connection is dropped.
GaveUp ==
  /\ waiting
  /\ \/ Fault
     \/ replies[conn] = <<>> /\ conn \notin serving /\ UNCHANGED faults
  /\ Close
  /\ waiting' = FALSE
  /\ read' = 0
  /\ UNCHANGED <<asked, opened, line, running, replies, serving, agent>>

(***************************************************************************)
(* The guest.                                                              *)
(***************************************************************************)

\* serve() reads a line and handles it.
Take(c) ==
  /\ c \in serving
  /\ line[c] # 0
  /\ running[c] = 0
  /\ running' = [running EXCEPT ![c] = line[c]]
  /\ line' = [line EXCEPT ![c] = 0]
  /\ UNCHANGED <<asked, waiting, conn, opened, replies, serving, agent, read,
                 faults>>

\* handle() returns or raises; serve() writes the reply.  When the host has
\* closed its end the write raises and the thread ends.
Reply(c) ==
  /\ c \in serving
  /\ running[c] # 0
  /\ running' = [running EXCEPT ![c] = 0]
  /\ \/ /\ replies' = [replies EXCEPT ![c] = Append(@, running[c])]
        /\ UNCHANGED serving
     \/ /\ c # conn
        /\ serving' = serving \ {c}
        /\ UNCHANGED replies
  /\ UNCHANGED <<asked, waiting, conn, opened, line, agent, read, faults>>

\* serve() reads the end of a connection that the host has closed.
Hangup(c) ==
  /\ c \in serving
  /\ c # conn
  /\ line[c] = 0
  /\ running[c] = 0
  /\ serving' = serving \ {c}
  /\ UNCHANGED <<asked, waiting, conn, opened, line, running, replies, agent,
                 read, faults>>

\* replay-agent exits with all its threads; the requests they handled and the
\* lines they had not read are gone.
AgentExits ==
  /\ agent
  /\ Fault
  /\ agent' = FALSE
  /\ serving' = {}
  /\ running' = [c \in Connections |-> 0]
  /\ line' = [c \in Connections |-> 0]
  /\ UNCHANGED <<asked, waiting, conn, opened, replies, read>>

\* init starts replay-agent, after the boot and a second after it exited.
AgentStarts ==
  /\ ~agent
  /\ agent' = TRUE
  /\ UNCHANGED <<asked, waiting, conn, opened, line, running, replies, serving,
                 read, faults>>

Next ==
  \/ ConnectFails
  \/ Request
  \/ Answered
  \/ GaveUp
  \/ \E c \in Connections : Take(c) \/ Reply(c) \/ Hangup(c)
  \/ AgentExits
  \/ AgentStarts

Spec == Init /\ [][Next]_vars

(***************************************************************************)
(* Properties.                                                             *)
(***************************************************************************)

ChannelTypeOK ==
  /\ asked \in 0 .. MaxRequests
  /\ waiting \in BOOLEAN
  /\ conn \in 0 .. MaxRequests
  /\ opened \in 0 .. MaxRequests
  /\ line \in [Connections -> 0 .. MaxRequests]
  /\ running \in [Connections -> 0 .. MaxRequests]
  /\ replies \in [Connections -> Seq(0 .. MaxRequests)]
  /\ serving \subseteq Connections
  /\ agent \in BOOLEAN
  /\ read \in 0 .. MaxRequests
  /\ faults \in 0 .. MaxFaults

\* request() returns the reply to the request it sent: after a timeout the
\* reply of the command that is still running can never be taken for the
\* reply of the next one, because the connection it is on has been dropped.
ReplyIsOwn == read # 0 => read = asked

=============================================================================
