--------------------------- MODULE ArtifactStream ---------------------------
(***************************************************************************)
(* How a guest gets its image: TraceRequestHandler.stream_artifact pipes   *)
(* "docker export | gzip" into the connection, HostVsockTcpForwarder and   *)
(* the guest's own proxy relay it (with --slurm-vsock), and the guest      *)
(* unpacks what arrives (GUEST_FETCH).  Neither a length nor a checksum    *)
(* travels with it: the end of the connection is the end of the archive.   *)
(***************************************************************************)
EXTENDS Naturals, Sequences

CONSTANTS
  Members,   (* members of the image's archive                             *)
  Relays     (* 2 with --slurm-vsock: forwarder, proxy; 0 with a tap       *)

VARIABLES
  origin,     (* the handler of GET /v1/artifacts                          *)
  container,  (* the container made for the export exists                  *)
  exported,   (* members that docker export has put out                    *)
  export,     (* "running", "whole", or where it was "cut"                 *)
  link,       (* the bytes under way: link 1 leaves the server, the last   *)
              (* one ends in the guest                                     *)
  open,       (* links whose sender has not closed them                    *)
  relay,      (* "waiting" for the request, "relaying" or "gone"           *)
  listening,  (* the forwarder accepts connections                         *)
  port,       (* the port in the artifact's URL                            *)
  fetch,      (* what fetch-swebench-artifact.py is doing                  *)
  unpacked,   (* members extracted into /rw                                *)
  stalled,    (* a relay has given the connection up for being idle        *)
  reset       (* a relay's read has failed: its connection was reset       *)

server == <<origin, container, exported, export>>
relays == <<relay, listening, stalled, reset>>
guest == <<fetch, unpacked, port>>
artifactVars == <<server, link, open, relays, guest>>

Links == 1 .. Relays + 1

Hops == 1 .. Relays

ArtifactInit ==
  /\ origin = "idle"
  /\ container = FALSE
  /\ exported = 0
  /\ export = "running"
  /\ link = [n \in Links |-> <<>>]
  /\ open = {}
  /\ relay = [h \in Hops |-> "waiting"]
  /\ listening = TRUE
  /\ port \in {"inference", "another"}
  /\ fetch = "starting"
  /\ unpacked = 0
  /\ stalled = FALSE
  /\ reset = FALSE

(***************************************************************************)
(* The way there.  The guest's proxy connects to the forwarder, which      *)
(* reads the header of the request, refuses any other destination than the *)
(* inference server (main has compared the hosts, not the ports), and      *)
(* connects to it.                                                         *)
(***************************************************************************)

Forwarded == Relays = 0 \/ (listening /\ port = "inference")

Connect ==
  /\ fetch = "starting"
  /\ Forwarded
  /\ fetch' = "reading"
  /\ relay' = [h \in Hops |-> "relaying"]
  /\ open' = Links
  /\ origin' = "request"
  /\ UNCHANGED <<container, exported, export, link, listening, stalled, reset, port, unpacked>>

\* The guest powers off before it asks: no network, no vsock module, no
\* loopback, or a proxy that did not start.
BootFails ==
  /\ fetch = "starting"
  /\ fetch' = "failed"
  /\ UNCHANGED <<server, link, open, relays, port, unpacked>>

\* No connection, or the forwarder closes it: ARTIFACT_FETCH_FAILED.
Refused ==
  /\ fetch = "starting"
  /\ ~Forwarded
  /\ fetch' = "failed"
  /\ UNCHANGED <<server, link, open, relays, port, unpacked>>

\* VM.stop closes the forwarder: its listener goes, its handlers go on.
CloseForwarder ==
  /\ listening
  /\ Relays > 0
  /\ listening' = FALSE
  /\ UNCHANGED <<server, link, open, relay, stalled, reset, guest>>

(***************************************************************************)
(* The server.                                                             *)
(***************************************************************************)

HangUp(outcome) ==
  /\ origin' = outcome
  /\ open' = open \ {1}
  /\ container' = FALSE

\* An unknown instance or architecture is answered with an error; an image
\* that is not there and cannot be pulled with nothing at all.
NoArtifact ==
  /\ origin = "request"
  /\ HangUp("failed")
  /\ UNCHANGED <<exported, export, link, relays, guest>>

\* The image is local or pulled; docker create, export and gzip start, and 200
\* is sent before the first byte of the archive is there.
StartExport ==
  /\ origin = "request"
  /\ origin' = "streaming"
  /\ container' = TRUE
  /\ UNCHANGED <<exported, export, link, open, relays, guest>>

\* Whoever reads link n is there.
Heard(n) == IF n \in Hops THEN relay[n] = "relaying" ELSE fetch = "reading"

\* A chunk is read and written to the connection.
Stream ==
  /\ origin = "streaming"
  /\ export = "running"
  /\ exported < Members
  /\ Heard(1)
  /\ exported' = exported + 1
  /\ link' = [link EXCEPT ![1] = Append(@, "member")]
  /\ UNCHANGED <<origin, container, export, open, relays, guest>>

\* docker export exits: with everything put out, or with an error after a
\* member or inside one.  gzip ends its output properly in either case.
ExportEnds ==
  /\ origin = "streaming"
  /\ export = "running"
  /\ \/ exported = Members /\ export' = "whole" /\ link' = link
     \/ exported < Members /\ export' = "cut" /\ link' \in {link, [link EXCEPT ![1] = Append(@, "part")]}
  /\ UNCHANGED <<origin, container, exported, open, relays, guest>>

\* The end of the pipe: the exit codes are looked at when everything is sent.
StreamEnds ==
  /\ origin = "streaming"
  /\ export # "running"
  /\ HangUp(IF export = "whole" THEN "streamed" ELSE "failed")
  /\ UNCHANGED <<exported, export, link, relays, guest>>

\* BrokenPipeError: export and gzip are killed, nothing is raised.
ClientGone ==
  /\ origin = "streaming"
  /\ ~Heard(1)
  /\ HangUp("abandoned")
  /\ UNCHANGED <<exported, export, link, relays, guest>>

\* The server's process dies, or its host: the kernel ends the connection for it,
\* and the container of the export is left.
ServerDies ==
  /\ origin \in {"request", "streaming"}
  /\ origin' = "dead"
  /\ open' = open \ {1}
  /\ UNCHANGED <<container, exported, export, link, relays, guest>>

(***************************************************************************)
(* The relays.                                                             *)
(***************************************************************************)

\* _relay, relay: what is readable is read and sent on.
Pass(h) ==
  /\ relay[h] = "relaying"
  /\ link[h] # <<>>
  /\ Heard(h + 1)
  /\ link' = [link EXCEPT ![h] = Tail(@), ![h + 1] = Append(@, Head(link[h]))]
  /\ UNCHANGED <<server, open, relays, guest>>

\* Mutant of AtEnd: what has been sent before the end is not passed on.
AtEndUnread(h) == h \notin open \/ ~Heard(h + 1)

\* The end of either connection, seen by the read that finds nothing more, or
\* an error of a send, ends the relay, and both connections with it.
AtEnd(h) ==
  \/ h \notin open /\ link[h] = <<>>
  \/ ~Heard(h + 1)

Leave(h) ==
  /\ relay' = [relay EXCEPT ![h] = "gone"]
  /\ open' = open \ {h + 1}
  /\ UNCHANGED <<server, link, listening, guest>>

RelayEnds(h) ==
  /\ relay[h] = "relaying"
  /\ AtEnd(h)
  /\ Leave(h)
  /\ UNCHANGED <<stalled, reset>>

\* select returns nothing for 900 s (forwarder) or 300 s (proxy).
RelayStalls(h) ==
  /\ relay[h] = "relaying"
  /\ link[h] = <<>>
  /\ Leave(h)
  /\ stalled' = TRUE
  /\ UNCHANGED reset

\* recv raises OSError: the connection was reset, and what was under way in it is
\* lost.  The relay closes its own end as it does after any other end.
RelayReset(h) ==
  /\ relay[h] = "relaying"
  /\ Leave(h)
  /\ reset' = TRUE
  /\ UNCHANGED stalled

(***************************************************************************)
(* The guest.                                                              *)
(***************************************************************************)

Last == Relays + 1

Unpack ==
  /\ fetch = "reading"
  /\ link[Last] # <<>>
  /\ Head(link[Last]) = "member"
  /\ unpacked' = unpacked + 1
  /\ link' = [link EXCEPT ![Last] = Tail(@)]
  /\ UNCHANGED <<server, open, relays, port, fetch>>

\* The data ends inside a member, a member cannot be extracted, or nothing
\* arrives for 900 s.
UnpackFails ==
  /\ fetch = "reading"
  /\ fetch' = "failed"
  /\ UNCHANGED <<server, link, open, relays, port, unpacked>>

\* tarfile takes the end of the data between two members for the end of the
\* archive; only no data at all is an error.  init writes ARTIFACT_READY.
UnpackEnds ==
  /\ fetch = "reading"
  /\ Last \notin open
  /\ link[Last] = <<>>
  /\ fetch' = IF unpacked > 0 THEN "ready" ELSE "failed"
  /\ UNCHANGED <<server, link, open, relays, port, unpacked>>

ArtifactNext ==
  \/ Connect \/ BootFails \/ Refused \/ CloseForwarder
  \/ NoArtifact \/ StartExport \/ Stream \/ ExportEnds \/ StreamEnds \/ ClientGone
  \/ ServerDies
  \/ \E h \in Hops : Pass(h) \/ RelayEnds(h) \/ RelayStalls(h) \/ RelayReset(h)
  \/ Unpack \/ UnpackFails \/ UnpackEnds

(***************************************************************************)
(* Properties.                                                             *)
(***************************************************************************)

\* A guest reports ARTIFACT_READY with a part of its image only when docker
\* export failed (which the server alone knows, after it has sent 200), the
\* server died in the middle, a relay gave up an idle connection, or one of its
\* connections was reset: all of them look to the guest like the end of the
\* archive.  Otherwise the relays lose nothing, whichever end closes first.
ReadyIsWhole ==
  fetch = "ready" =>
    \/ unpacked = Members
    \/ export = "cut" \/ origin = "dead" \/ stalled \/ reset

=============================================================================
