------------------------------ MODULE StartGate ------------------------------
(***************************************************************************)
(* WorkflowStartGate: guests ask an HTTP server of the experiment for      *)
(* leave to start.  A simultaneous gate lets them wait until its owner     *)
(* releases them together, an independent one lets each go at once.  The   *)
(* owner reads ready() and sets released, as test_azure_admission.py does. *)
(***************************************************************************)
EXTENDS Naturals

CONSTANTS
  Expected,   (* sessions of the gate                                      *)
  Strangers   (* other numbers that may ask                                *)

VARIABLES
  independent,  (* independent                                             *)
  arrived,      (* arrived                                                 *)
  startedAt,    (* the sessions in started_at                              *)
  waits,        (* requests whose handler waits                            *)
  answer,       (* the last answer each session has had                    *)
  released,     (* released                                                *)
  releasedBy,   (* who set it                                              *)
  serves        (* the server accepts requests                             *)

gateVars == <<independent, arrived, startedAt, waits, answer, released, releasedBy, serves>>

GateInit ==
  /\ independent \in BOOLEAN
  /\ arrived = {}
  /\ startedAt = {}
  /\ waits = {}
  /\ answer = [s \in Expected \cup Strangers |-> "none"]
  /\ released = FALSE
  /\ releasedBy = "nobody"
  /\ serves = TRUE

Answer(s, status) == answer' = [answer EXCEPT ![s] = status]

\* do_GET for a number that is not a session.
Stranger(s) ==
  /\ serves
  /\ s \notin Expected
  /\ Answer(s, "404")
  /\ UNCHANGED <<independent, arrived, startedAt, waits, released, releasedBy, serves>>

\* do_GET: the session has arrived; its handler waits, or does not have to.
Arrive(s) ==
  /\ serves
  /\ s \in Expected \ waits
  /\ arrived' = arrived \cup {s}
  /\ startedAt' = startedAt \cup {s}
  /\ IF independent \/ released
     THEN Answer(s, "204") /\ waits' = waits
     ELSE Answer(s, "none") /\ waits' = waits \cup {s}
  /\ UNCHANGED <<independent, released, releasedBy, serves>>

\* released.wait returns true.
Start(s) ==
  /\ s \in waits
  /\ released
  /\ waits' = waits \ {s}
  /\ Answer(s, "204")
  /\ UNCHANGED <<independent, arrived, startedAt, released, releasedBy, serves>>

\* It does not for 900 s.  The session stays in arrived.
WaitTimesOut(s) ==
  /\ s \in waits
  /\ ~released
  /\ waits' = waits \ {s}
  /\ Answer(s, "504")
  /\ UNCHANGED <<independent, arrived, startedAt, released, releasedBy, serves>>

\* The owner finds ready() and releases the sessions.
Release ==
  /\ ~released
  /\ arrived = Expected
  /\ released' = TRUE
  /\ releasedBy' = "owner"
  /\ UNCHANGED <<independent, arrived, startedAt, waits, answer, serves>>

\* close
CloseGate ==
  /\ serves
  /\ serves' = FALSE
  /\ released' = TRUE
  /\ releasedBy' = IF released THEN releasedBy ELSE "close"
  /\ UNCHANGED <<independent, arrived, startedAt, waits, answer>>

GateNext ==
  \/ \E s \in Expected \cup Strangers : Stranger(s) \/ Arrive(s) \/ Start(s) \/ WaitTimesOut(s)
  \/ Release
  \/ CloseGate

(***************************************************************************)
(* Properties.                                                             *)
(***************************************************************************)

\* Nobody passes a simultaneous gate before all sessions have come to it,
\* unless it was closed first; only sessions pass; and whoever has passed is
\* in started_at.  (A session whose wait timed out still counts as having
\* come: the others may start without it.)
GateHolds ==
  \A s \in DOMAIN answer :
    answer[s] = "204" =>
      /\ s \in startedAt
      /\ ~independent => released /\ (releasedBy = "owner" => arrived = Expected)

=============================================================================
