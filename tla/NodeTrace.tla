------------------------------ MODULE NodeTrace ------------------------------
(***************************************************************************)
(* node_trace.py: execution_node records a span of local work, and one     *)
(* daemon thread samples the process's memory while any span is open.      *)
(* Threads and tasks open and close spans concurrently; _lock guards both  *)
(* the table of open spans and the trace file, but memory is read outside  *)
(* it, by the spans and by the sampler alike.                              *)
(***************************************************************************)
EXTENDS Naturals

CONSTANTS
  SpanIds,   (* the spans of the run, each one of a thread of its own      *)
  MaxRss     (* bound of the memory sampled                                *)

VARIABLES
  span,            (* where each execution_node is                         *)
  own,             (* its last reading: started_rss, then ended_rss        *)
  sampled,         (* _active: the spans that are sampled                  *)
  peak,            (* the peak_rss_bytes of their records                  *)
  samplerStarted,  (* _sampler_started                                     *)
  samplers,        (* threads in _sample_rss, each named after the span    *)
                   (* whose opening started it                             *)
  reading,         (* what each of them has read and not yet credited; 0   *)
                   (* when it is about to read                             *)
  rss,             (* the memory of the process                            *)
  highest,         (* the highest of a span's own readings and of those    *)
                   (* that were taken while it was in _active              *)
  early, late,     (* what a sampler had read when the span was put into   *)
                   (* _active, and when it was taken out                   *)
  starts, ends     (* spans with a start, and with an end, in the trace    *)

table == <<sampled, peak, samplerStarted>>
threads == <<samplers, reading>>
history == <<highest, early, late>>
traceFile == <<starts, ends>>
nodeVars == <<span, own, table, threads, rss, history, traceFile>>

NodeInit ==
  /\ span = [s \in SpanIds |-> "none"]
  /\ own = [s \in SpanIds |-> 0]
  /\ sampled = {}
  /\ peak = [s \in SpanIds |-> 0]
  /\ samplerStarted = FALSE
  /\ samplers = {}
  /\ reading = [s \in SpanIds |-> 0]
  /\ rss = 1
  /\ highest = [s \in SpanIds |-> 0]
  /\ early = [s \in SpanIds |-> 0]
  /\ late = [s \in SpanIds |-> 0]
  /\ starts = {}
  /\ ends = {}

Higher(a, b) == IF a > b THEN a ELSE b

\* A span reads the memory when it begins and when its body is over, which
\* may have raised.
ReadOwn(s) ==
  /\ \/ span[s] = "none" /\ span' = [span EXCEPT ![s] = "opening"]
     \/ span[s] = "body" /\ span' = [span EXCEPT ![s] = "closing"]
  /\ own' = [own EXCEPT ![s] = rss]
  /\ highest' = [highest EXCEPT ![s] = Higher(@, rss)]
  /\ UNCHANGED <<table, threads, rss, early, late, traceFile>>

\* A reading that a sampler has in its hands (there is one sampler at most).
Held(held) == \E t \in samplers : held = reading[t]

InHand(held) == Held(held) \/ (samplers = {} /\ held = 0)

\* _start_sampling: the record, and the thread when there is none.  When that
\* cannot be started, the span and the flag stay in their tables, and
\* execution_node is left before its try.
OpenSpan(s) ==
  /\ span[s] = "opening"
  /\ sampled' = sampled \cup {s}
  /\ peak' = [peak EXCEPT ![s] = own[s]]
  /\ samplerStarted' = TRUE
  /\ \/ /\ samplerStarted
        /\ span' = [span EXCEPT ![s] = "registered"] /\ samplers' = samplers
     \/ /\ ~samplerStarted
        /\ span' = [span EXCEPT ![s] = "registered"] /\ samplers' = samplers \cup {s}
     \/ /\ ~samplerStarted
        /\ span' = [span EXCEPT ![s] = "unstarted"] /\ samplers' = samplers
  /\ \E held \in 0 .. MaxRss : InHand(held) /\ early' = [early EXCEPT ![s] = held]
  /\ UNCHANGED <<own, reading, rss, highest, late, traceFile>>

\* _write of the start event.  An error leaves execution_node before its try:
\* the span is sampled for ever.
WriteStart(s) ==
  /\ span[s] = "registered"
  /\ \/ span' = [span EXCEPT ![s] = "body"] /\ starts' = starts \cup {s}
     \/ span' = [span EXCEPT ![s] = "raised"] /\ starts' = starts
  /\ UNCHANGED <<own, table, threads, rss, history, ends>>

\* _stop_sampling removes the record.
StopSampling(s) ==
  /\ span[s] = "closing"
  /\ span' = [span EXCEPT ![s] = "stopped"]
  /\ sampled' = sampled \ {s}
  /\ peak' = [peak EXCEPT ![s] = Higher(@, own[s])]
  /\ \E held \in 0 .. MaxRss : InHand(held) /\ late' = [late EXCEPT ![s] = held]
  /\ UNCHANGED <<own, samplerStarted, threads, rss, highest, early, traceFile>>

\* _write of the end event with the peak, and with status ok or error.
WriteEnd(s) ==
  /\ span[s] = "stopped"
  /\ \/ span' = [span EXCEPT ![s] = "closed"] /\ ends' = ends \cup {s}
     \/ span' = [span EXCEPT ![s] = "raised"] /\ ends' = ends
  /\ UNCHANGED <<own, table, threads, rss, history, starts>>

\* A round of _sample_rss: the memory is read ...
ReadRss(t) ==
  /\ t \in samplers
  /\ reading[t] = 0
  /\ reading' = [reading EXCEPT ![t] = rss]
  /\ highest' = [s \in SpanIds |-> IF s \in sampled THEN Higher(highest[s], rss) ELSE highest[s]]
  /\ UNCHANGED <<span, own, table, samplers, rss, early, late, traceFile>>

\* ... and, under the lock, credited to all spans that are open by now ...
Credit(t) ==
  /\ t \in samplers
  /\ reading[t] # 0
  /\ sampled # {}
  /\ peak' = [s \in SpanIds |-> IF s \in sampled THEN Higher(peak[s], reading[t]) ELSE peak[s]]
  /\ reading' = [reading EXCEPT ![t] = 0]
  /\ UNCHANGED <<span, own, sampled, samplerStarted, samplers, rss, history, traceFile>>

\* Mutant of SamplerEnds: the flag stays, and no thread is started again.
SamplerEndsUntold(t) ==
  /\ t \in samplers
  /\ reading[t] # 0
  /\ sampled = {}
  /\ samplers' = samplers \ {t}
  /\ reading' = [reading EXCEPT ![t] = 0]
  /\ UNCHANGED <<span, own, table, rss, history, traceFile>>

\* ... or, when there is none, it is the end of the thread.
SamplerEnds(t) ==
  /\ t \in samplers
  /\ reading[t] # 0
  /\ sampled = {}
  /\ samplerStarted' = FALSE
  /\ samplers' = samplers \ {t}
  /\ reading' = [reading EXCEPT ![t] = 0]
  /\ UNCHANGED <<span, own, sampled, peak, rss, history, traceFile>>

MemoryChanges ==
  /\ rss' \in 1 .. MaxRss
  /\ UNCHANGED <<span, own, table, threads, history, traceFile>>

NodeNext ==
  \/ \E s \in SpanIds :
       ReadOwn(s) \/ OpenSpan(s) \/ WriteStart(s) \/ StopSampling(s) \/ WriteEnd(s)
  \/ \E t \in SpanIds : ReadRss(t) \/ Credit(t) \/ SamplerEnds(t)
  \/ MemoryChanges

(***************************************************************************)
(* Properties.                                                             *)
(***************************************************************************)

Unstarted == \E s \in SpanIds : span[s] = "unstarted"

\* While a span is open exactly one thread samples it, and never more than one
\* runs, however openings, closings and the end of the thread interleave, unless
\* the thread could not be started: then no span is sampled any more.  A span's
\* end comes after its start.  The peak it tells is the highest of its own two
\* readings and of the sampler's while it was open, but for one at either side,
\* as the sampler reads outside the lock: the reading that it had in its hands
\* when the span opened may be credited to it, and the one it had when the span
\* closed is not.
SpansAreSampled ==
  /\ \A t, u \in samplers : t = u
  /\ samplerStarted \/ sampled # {} => samplers # {} \/ Unstarted
  /\ ends \subseteq starts
  /\ \A s \in ends :
       /\ peak[s] <= Higher(highest[s], early[s])
       /\ highest[s] <= Higher(peak[s], late[s])

=============================================================================
