----------------------------- MODULE ToolsProofs -----------------------------
(***************************************************************************)
(* What Tools promises of the tools beside the experiments, for any number *)
(* of spans, processes, samples and sandboxes.  No two of the programs     *)
(* share a variable: each has an invariant over its own.                   *)
(***************************************************************************)
EXTENDS Tools, SumsAndOrders, SequenceTheorems, TLAPS

(* A step of ToolsSpec is a step of a program, or leaves it as it is.      *)
LEMMA OneTool ==
  ASSUME [ToolsNext]_toolsVars
  PROVE  /\ SandboxNext \/ UNCHANGED tppVars
         /\ Node!NodeNext \/ UNCHANGED nodeVars
         /\ Sampler!SamplerNext \/ UNCHANGED samplerVars
         /\ Capacity!CapacityNext \/ UNCHANGED capacityVars
         /\ Single!SingleNext \/ UNCHANGED singleVars
         /\ UNCHANGED program
<1>1. CASE UNCHANGED toolsVars
  BY <1>1 DEF toolsVars
<1>2. CASE ToolsNext
  BY <1>2 DEF ToolsNext
<1>3. QED
  BY <1>1, <1>2

-----------------------------------------------------------------------------
(***************************************************************************)
(* NodeTrace.                                                              *)
(***************************************************************************)

\* Where an execution_node is.
Stages == {"none", "opening", "registered", "body", "closing", "stopped", "closed", "raised",
           "unstarted"}

NodeTypes ==
  /\ span \in [SpanIds -> Stages]
  /\ own \in [SpanIds -> Nat] /\ peak \in [SpanIds -> Nat] /\ reading \in [SpanIds -> Nat]
  /\ highest \in [SpanIds -> Nat] /\ early \in [SpanIds -> Nat] /\ late \in [SpanIds -> Nat]
  /\ rss \in Nat
  /\ sampled \in SUBSET SpanIds /\ samplers \in SUBSET SpanIds /\ ends \in SUBSET SpanIds
  /\ samplerStarted \in BOOLEAN

\* There is a sampler exactly while the flag says so, but for one that could not
\* be started.
OneSampler ==
  /\ \A t, u \in samplers : t = u
  /\ \A t \in SpanIds \ samplers : reading[t] = 0
  /\ samplers # {} => samplerStarted
  /\ samplerStarted => samplers # {} \/ Node!Unstarted
  /\ sampled # {} => samplerStarted

\* While a span is sampled, its record and what the sampler has in its hands are
\* of readings from that time, or had been in its hands before.  None is missing
\* in the record but the span's last and the one in the sampler's hands.
OpenIsTold(s) ==
  /\ peak[s] <= highest[s] \/ peak[s] <= early[s]
  /\ \A t \in samplers : reading[t] <= highest[s] \/ reading[t] <= early[s]
  /\ \/ highest[s] <= peak[s] \/ highest[s] <= own[s]
     \/ \E t \in samplers : highest[s] <= reading[t]

ClosedIsTold(s) ==
  /\ peak[s] <= highest[s] \/ peak[s] <= early[s]
  /\ highest[s] <= peak[s] \/ highest[s] <= late[s]

\* A span is sampled from its opening to its end; one that failed to write its
\* start stays so.
SpanInv(s) ==
  /\ own[s] <= highest[s]
  /\ span[s] = "none" => highest[s] = 0
  /\ span[s] = "opening" => highest[s] = own[s]
  /\ s \in sampled => span[s] \in {"registered", "body", "closing", "raised", "unstarted"}
  /\ span[s] \in {"registered", "body", "closing"} => s \in sampled
  /\ span[s] \in {"registered", "body"} => own[s] <= peak[s]
  /\ span[s] \in {"body", "closing", "stopped", "closed"} => s \in starts
  /\ s \in ends => span[s] = "closed"
  /\ s \in sampled => OpenIsTold(s)
  /\ span[s] \in {"stopped", "closed"} => ClosedIsTold(s)

NodeInv == NodeTypes /\ OneSampler /\ \A s \in SpanIds : SpanInv(s)

(* The run begins without a span.                                          *)
LEMMA NodeInitInv == Node!NodeInit => NodeInv
<1> SUFFICES ASSUME Node!NodeInit
             PROVE  NodeInv
  OBVIOUS
<1>1. NodeTypes
  BY DEF Node!NodeInit, NodeTypes, Stages
<1>2. OneSampler
  BY DEF Node!NodeInit, OneSampler
<1>3. \A s \in SpanIds : SpanInv(s)
  BY DEF Node!NodeInit, SpanInv
<1>4. QED
  BY <1>1, <1>2, <1>3 DEF NodeInv

(* The higher of two readings.                                             *)
LEMMA HigherIs ==
  ASSUME NEW a \in Nat, NEW b \in Nat
  PROVE  /\ Node!Higher(a, b) \in Nat /\ a <= Node!Higher(a, b) /\ b <= Node!Higher(a, b)
         /\ Node!Higher(a, b) \in {a, b}
         /\ \A c \in Nat : c <= Node!Higher(a, b) <=> c <= a \/ c <= b
  BY DEF Node!Higher

(* A span reads the memory.                                                *)
LEMMA ReadOwnKeeps ==
  ASSUME NodeInv, NEW s \in SpanIds, Node!ReadOwn(s)
  PROVE  NodeInv'
<1>1. /\ span[s] \in {"none", "body"}
      /\ span' = [span EXCEPT ![s] = IF span[s] = "none" THEN "opening" ELSE "closing"]
      /\ own' = [own EXCEPT ![s] = rss]
      /\ highest' = [highest EXCEPT ![s] = Node!Higher(highest[s], rss)]
      /\ UNCHANGED <<sampled, peak, samplerStarted, samplers, reading, rss, early, late, starts, ends>>
  BY DEF Node!ReadOwn, Node!table, Node!threads, Node!traceFile
<1>2. NodeTypes /\ OneSampler /\ \A q \in SpanIds : SpanInv(q)
  BY DEF NodeInv
<1>3. PICK h \in Nat : /\ h = Node!Higher(highest[s], rss) /\ highest[s] <= h /\ rss <= h
                       /\ h \in {highest[s], rss}
  BY <1>2, HigherIs DEF NodeTypes
<1>4. NodeTypes'
  BY <1>1, <1>2, <1>3 DEF NodeTypes, Stages
<1>5. OneSampler'
  BY <1>1, <1>2 DEF OneSampler, NodeTypes, Node!Unstarted
<1>6. ASSUME NEW q \in SpanIds, q # s
      PROVE  SpanInv(q)'
  <2>1. SpanInv(q) /\ span'[q] = span[q] /\ own'[q] = own[q] /\ highest'[q] = highest[q]
    BY <1>1, <1>2, <1>6 DEF NodeTypes
  <2>2. QED
    BY <1>1, <2>1 DEF SpanInv, OpenIsTold, ClosedIsTold
<1>7. SpanInv(s)'
  <2>1. /\ span'[s] = IF span[s] = "none" THEN "opening" ELSE "closing"
        /\ own'[s] = rss /\ highest'[s] = h /\ SpanInv(s)
        /\ own[s] \in Nat /\ highest[s] \in Nat /\ peak[s] \in Nat /\ early[s] \in Nat /\ rss \in Nat
        /\ \A t \in samplers : reading[t] \in Nat
    BY <1>1, <1>2, <1>3 DEF NodeTypes
  <2>2. CASE span[s] = "none"
    <3>1. highest[s] = 0 /\ h = rss /\ s \notin sampled /\ s \notin ends
      BY <1>3, <2>1, <2>2 DEF SpanInv
    <3>2. QED
      BY <1>1, <2>1, <2>2, <3>1 DEF SpanInv
  <2>3. CASE span[s] = "body"
    <3>1. s \in sampled /\ OpenIsTold(s) /\ own[s] <= peak[s] /\ s \in starts /\ s \notin ends
      BY <2>1, <2>3 DEF SpanInv
    <3>2. peak[s] <= h \/ peak[s] <= early[s]
      BY <1>3, <2>1, <3>1 DEF OpenIsTold
    <3>3. \A t \in samplers : reading[t] <= h \/ reading[t] <= early[s]
      BY <1>3, <2>1, <3>1 DEF OpenIsTold
    <3>4. h <= peak[s] \/ h <= rss \/ \E t \in samplers : h <= reading[t]
      <4>1. CASE h = rss
        BY <1>3, <4>1
      <4>2. CASE h = highest[s]
        BY <2>1, <3>1, <4>2 DEF OpenIsTold
      <4>3. QED
        BY <1>3, <4>1, <4>2
    <3>5. OpenIsTold(s)'
      BY <1>1, <2>1, <3>2, <3>3, <3>4 DEF OpenIsTold
    <3>6. QED
      BY <1>1, <1>3, <2>1, <2>3, <3>1, <3>5 DEF SpanInv
  <2>4. QED
    BY <1>1, <2>2, <2>3
<1>8. QED
  BY <1>4, <1>5, <1>6, <1>7 DEF NodeInv

(* A span is put into the table, and a sampler is started for it.          *)
LEMMA OpenSpanKeeps ==
  ASSUME NodeInv, NEW s \in SpanIds, Node!OpenSpan(s)
  PROVE  NodeInv'
<1>1. /\ span[s] = "opening"
      /\ sampled' = sampled \cup {s} /\ peak' = [peak EXCEPT ![s] = own[s]] /\ samplerStarted' = TRUE
      /\ UNCHANGED <<own, reading, rss, highest, late, starts, ends>>
  BY DEF Node!OpenSpan, Node!traceFile
<1>2. PICK held \in Nat : Node!InHand(held) /\ early' = [early EXCEPT ![s] = held]
  <2>1. PICK held \in 0 .. MaxRss : Node!InHand(held) /\ early' = [early EXCEPT ![s] = held]
    BY DEF Node!OpenSpan
  <2>2. held \in Nat
    BY ToolsAssumption
  <2>3. QED
    BY <2>1, <2>2
<1>3. PICK stage \in {"registered", "unstarted"} :
        /\ span' = [span EXCEPT ![s] = stage]
        /\ \/ samplerStarted /\ samplers' = samplers /\ stage = "registered"
           \/ ~samplerStarted /\ samplers' = samplers \cup {s} /\ stage = "registered"
           \/ ~samplerStarted /\ samplers' = samplers /\ stage = "unstarted"
  BY DEF Node!OpenSpan
<1>4. NodeTypes /\ OneSampler /\ \A q \in SpanIds : SpanInv(q)
  BY DEF NodeInv
<1>5. NodeTypes'
  <2>1. span' \in [SpanIds -> Stages] /\ peak' \in [SpanIds -> Nat] /\ early' \in [SpanIds -> Nat]
    BY <1>1, <1>2, <1>3, <1>4 DEF NodeTypes, Stages
  <2>2. samplers' \in SUBSET SpanIds /\ sampled' \in SUBSET SpanIds
    BY <1>1, <1>3, <1>4 DEF NodeTypes
  <2>3. QED
    BY <1>1, <1>4, <2>1, <2>2 DEF NodeTypes
<1>6. /\ span'[s] = stage /\ peak'[s] = own[s] /\ early'[s] = held
      /\ \A q \in SpanIds \ {s} : span'[q] = span[q] /\ peak'[q] = peak[q] /\ early'[q] = early[q]
  BY <1>1, <1>2, <1>3, <1>4 DEF NodeTypes
<1>7. OneSampler'
  <2>1. CASE samplerStarted
    <3>1. samplers' = samplers /\ (samplers # {} \/ Node!Unstarted)
      BY <1>3, <1>4, <2>1 DEF OneSampler
    <3>2. Node!Unstarted => Node!Unstarted'
      BY <1>1, <1>6 DEF Node!Unstarted
    <3>3. QED
      BY <1>1, <1>4, <3>1, <3>2 DEF OneSampler
  <2>2. CASE ~samplerStarted
    <3>1. samplers = {}
      BY <1>4, <2>2 DEF OneSampler
    <3>2. samplers' = {s} \/ (samplers' = {} /\ Node!Unstarted')
      BY <1>3, <1>6, <2>2, <3>1 DEF Node!Unstarted
    <3>3. QED
      BY <1>1, <1>4, <3>1, <3>2 DEF OneSampler
  <2>3. QED
    BY <2>1, <2>2
<1>8. ASSUME NEW q \in SpanIds, q # s
      PROVE  SpanInv(q)'
  <2>1. SpanInv(q) /\ (q \in sampled' <=> q \in sampled)
    BY <1>1, <1>4, <1>8
  <2>2. q \in sampled => samplers' = samplers
    BY <1>3, <1>4 DEF OneSampler
  <2>3. q \in sampled => OpenIsTold(q)'
    BY <1>1, <1>6, <1>8, <2>1, <2>2 DEF SpanInv, OpenIsTold
  <2>4. ClosedIsTold(q) => ClosedIsTold(q)'
    BY <1>1, <1>6, <1>8 DEF ClosedIsTold
  <2>5. QED
    BY <1>1, <1>6, <1>8, <2>1, <2>3, <2>4 DEF SpanInv
<1>9. SpanInv(s)'
  <2>1. /\ highest[s] = own[s] /\ s \notin ends /\ own[s] \in Nat
        /\ own'[s] = own[s] /\ highest'[s] = highest[s]
    BY <1>1, <1>4 DEF SpanInv, NodeTypes
  <2>2. ASSUME NEW t \in samplers'
        PROVE  reading'[t] <= highest'[s] \/ reading'[t] <= early'[s]
    <3>1. reading'[t] = reading[t] /\ reading[t] \in Nat
      BY <1>1, <1>5, <2>2 DEF NodeTypes
    <3>2. CASE t \in samplers
      <4>1. held = reading[t]
        BY <1>2, <1>4, <3>2 DEF Node!InHand, Node!Held, OneSampler
      <4>2. QED
        BY <1>6, <3>1, <4>1
    <3>3. CASE t \notin samplers
      <4>1. reading[t] = 0
        BY <1>4, <1>5, <2>2, <3>3 DEF OneSampler, NodeTypes
      <4>2. QED
        BY <2>1, <3>1, <4>1
    <3>4. QED
      BY <3>2, <3>3
  <2>3. OpenIsTold(s)'
    BY <1>6, <2>1, <2>2 DEF OpenIsTold
  <2>4. QED
    BY <1>1, <1>6, <2>1, <2>3 DEF SpanInv
<1>10. QED
  BY <1>5, <1>7, <1>8, <1>9 DEF NodeInv

(* A span writes its start, or its end.                                    *)
LEMMA WritesKeep ==
  ASSUME NodeInv, NEW s \in SpanIds, Node!WriteStart(s) \/ Node!WriteEnd(s)
  PROVE  NodeInv'
<1>1. PICK stage \in {"body", "closed", "raised"} :
        /\ span' = [span EXCEPT ![s] = stage]
        /\ \/ span[s] = "registered" /\ stage = "body" /\ starts' = starts \cup {s} /\ ends' = ends
           \/ span[s] = "stopped" /\ stage = "closed" /\ starts' = starts /\ ends' = ends \cup {s}
           \/ span[s] \in {"registered", "stopped"} /\ stage = "raised" /\ starts' = starts /\ ends' = ends
        /\ UNCHANGED <<own, sampled, peak, samplerStarted, samplers, reading, rss, highest, early, late>>
  BY DEF Node!WriteStart, Node!WriteEnd, Node!table, Node!threads, Node!history
<1>2. NodeTypes /\ OneSampler /\ \A q \in SpanIds : SpanInv(q)
  BY DEF NodeInv
<1>3. span'[s] = stage /\ \A q \in SpanIds \ {s} : span'[q] = span[q]
  BY <1>1, <1>2 DEF NodeTypes
<1>4. NodeTypes'
  <2>1. span' \in [SpanIds -> Stages] /\ ends' \in SUBSET SpanIds
    BY <1>1, <1>2 DEF NodeTypes, Stages
  <2>2. QED
    BY <1>1, <1>2, <2>1 DEF NodeTypes
<1>5. OneSampler'
  <2>1. Node!Unstarted => Node!Unstarted'
    BY <1>1, <1>3 DEF Node!Unstarted
  <2>2. QED
    BY <1>1, <1>2, <2>1 DEF OneSampler
<1>6. ASSUME NEW q \in SpanIds
      PROVE  SpanInv(q)'
  <2>1. SpanInv(q) /\ (OpenIsTold(q) <=> OpenIsTold(q)') /\ (ClosedIsTold(q) <=> ClosedIsTold(q)')
    BY <1>1, <1>2 DEF OpenIsTold, ClosedIsTold
  <2>2. CASE q # s
    BY <1>1, <1>3, <2>1, <2>2 DEF SpanInv
  <2>3. CASE q = s
    BY <1>1, <1>3, <2>1, <2>3 DEF SpanInv
  <2>4. QED
    BY <2>2, <2>3
<1>7. QED
  BY <1>4, <1>5, <1>6 DEF NodeInv

(* A span is taken out of the table.                                       *)
LEMMA StopSamplingKeeps ==
  ASSUME NodeInv, NEW s \in SpanIds, Node!StopSampling(s)
  PROVE  NodeInv'
<1>1. /\ span[s] = "closing" /\ span' = [span EXCEPT ![s] = "stopped"] /\ sampled' = sampled \ {s}
      /\ peak' = [peak EXCEPT ![s] = Node!Higher(peak[s], own[s])]
      /\ UNCHANGED <<own, samplerStarted, samplers, reading, rss, highest, early, starts, ends>>
  BY DEF Node!StopSampling, Node!threads, Node!traceFile
<1>2. PICK held \in Nat : Node!InHand(held) /\ late' = [late EXCEPT ![s] = held]
  <2>1. PICK held \in 0 .. MaxRss : Node!InHand(held) /\ late' = [late EXCEPT ![s] = held]
    BY DEF Node!StopSampling
  <2>2. held \in Nat
    BY ToolsAssumption
  <2>3. QED
    BY <2>1, <2>2
<1>3. NodeTypes /\ OneSampler /\ \A q \in SpanIds : SpanInv(q)
  BY DEF NodeInv
<1>4. PICK p \in Nat : /\ p = Node!Higher(peak[s], own[s]) /\ peak[s] <= p /\ own[s] <= p
                       /\ p \in {peak[s], own[s]}
  BY <1>3, HigherIs DEF NodeTypes
<1>5. NodeTypes'
  <2>1. span' \in [SpanIds -> Stages] /\ peak' \in [SpanIds -> Nat] /\ late' \in [SpanIds -> Nat]
    BY <1>1, <1>2, <1>3, <1>4 DEF NodeTypes, Stages
  <2>2. QED
    BY <1>1, <1>3, <2>1 DEF NodeTypes
<1>6. /\ span'[s] = "stopped" /\ peak'[s] = p /\ late'[s] = held
      /\ \A q \in SpanIds \ {s} : span'[q] = span[q] /\ peak'[q] = peak[q] /\ late'[q] = late[q]
  BY <1>1, <1>2, <1>3, <1>4 DEF NodeTypes
<1>7. OneSampler'
  <2>1. Node!Unstarted => Node!Unstarted'
    BY <1>1, <1>6 DEF Node!Unstarted
  <2>2. QED
    BY <1>1, <1>3, <2>1 DEF OneSampler
<1>8. ASSUME NEW q \in SpanIds, q # s
      PROVE  SpanInv(q)'
  <2>1. SpanInv(q) /\ (q \in sampled' <=> q \in sampled)
    BY <1>1, <1>3, <1>8
  <2>2. (OpenIsTold(q) => OpenIsTold(q)') /\ (ClosedIsTold(q) => ClosedIsTold(q)')
    BY <1>1, <1>6, <1>8 DEF OpenIsTold, ClosedIsTold
  <2>3. QED
    BY <1>1, <1>6, <1>8, <2>1, <2>2 DEF SpanInv
<1>9. SpanInv(s)'
  <2>1. /\ s \in sampled /\ OpenIsTold(s) /\ own[s] <= highest[s] /\ s \in starts /\ s \notin ends
        /\ own[s] \in Nat /\ highest[s] \in Nat /\ peak[s] \in Nat /\ early[s] \in Nat
    BY <1>1, <1>3 DEF SpanInv, NodeTypes
  <2>2. p <= highest[s] \/ p <= early[s]
    BY <1>4, <2>1 DEF OpenIsTold
  <2>3. highest[s] <= p \/ highest[s] <= held
    <3>1. CASE highest[s] <= peak[s] \/ highest[s] <= own[s]
      BY <1>4, <2>1, <3>1
    <3>2. ASSUME NEW t \in samplers, highest[s] <= reading[t]
          PROVE  highest[s] <= held
      BY <1>2, <1>3, <3>2 DEF Node!InHand, Node!Held, OneSampler
    <3>3. QED
      BY <2>1, <3>1, <3>2 DEF OpenIsTold
  <2>4. ClosedIsTold(s)'
    BY <1>1, <1>6, <2>2, <2>3 DEF ClosedIsTold
  <2>5. QED
    BY <1>1, <1>6, <2>1, <2>4 DEF SpanInv
<1>10. QED
  BY <1>5, <1>7, <1>8, <1>9 DEF NodeInv

(* The sampler reads the memory.                                           *)
LEMMA ReadRssKeeps ==
  ASSUME NodeInv, NEW t \in SpanIds, Node!ReadRss(t)
  PROVE  NodeInv'
<1>1. /\ t \in samplers /\ reading[t] = 0 /\ reading' = [reading EXCEPT ![t] = rss]
      /\ highest' = [s \in SpanIds |-> IF s \in sampled THEN Node!Higher(highest[s], rss) ELSE highest[s]]
      /\ UNCHANGED <<span, own, sampled, peak, samplerStarted, samplers, rss, early, late, starts, ends>>
  BY DEF Node!ReadRss, Node!table, Node!traceFile
<1>2. NodeTypes /\ OneSampler /\ \A q \in SpanIds : SpanInv(q)
  BY DEF NodeInv
<1>3. ASSUME NEW q \in SpanIds
      PROVE  /\ highest'[q] \in Nat /\ highest[q] <= highest'[q]
             /\ q \notin sampled => highest'[q] = highest[q]
             /\ q \in sampled => highest'[q] \in {highest[q], rss} /\ rss <= highest'[q]
  <2>1. highest[q] \in Nat /\ rss \in Nat
    BY <1>2 DEF NodeTypes
  <2>2. highest'[q] = IF q \in sampled THEN Node!Higher(highest[q], rss) ELSE highest[q]
    BY <1>1
  <2>3. QED
    BY <2>1, <2>2, HigherIs
<1>4. NodeTypes'
  <2>1. reading' \in [SpanIds -> Nat]
    BY <1>1, <1>2 DEF NodeTypes
  <2>2. highest' \in [SpanIds -> Nat]
    <3>1. DOMAIN highest' = SpanIds /\ highest' = [s \in SpanIds |-> highest'[s]]
      BY <1>1
    <3>2. QED
      BY <1>3, <3>1
  <2>3. QED
    BY <1>1, <1>2, <2>1, <2>2 DEF NodeTypes
<1>5. reading'[t] = rss /\ \A u \in samplers : u = t
  BY <1>1, <1>2 DEF NodeTypes, OneSampler
<1>6. OneSampler'
  <2>1. \A u \in SpanIds \ samplers' : reading'[u] = 0
    BY <1>1, <1>2 DEF NodeTypes, OneSampler
  <2>2. Node!Unstarted <=> Node!Unstarted'
    BY <1>1 DEF Node!Unstarted
  <2>3. QED
    BY <1>1, <1>2, <2>1, <2>2 DEF OneSampler
<1>7. ASSUME NEW q \in SpanIds
      PROVE  SpanInv(q)'
  <2>1. /\ SpanInv(q) /\ own[q] \in Nat /\ highest[q] \in Nat /\ peak[q] \in Nat /\ early[q] \in Nat
        /\ rss \in Nat
    BY <1>2 DEF NodeTypes
  <2>2. CASE q \in sampled
    <3>1. OpenIsTold(q) /\ span[q] \notin {"none", "opening", "stopped", "closed"}
      BY <2>1, <2>2 DEF SpanInv
    <3>2. peak[q] <= highest'[q] \/ peak[q] <= early[q]
      BY <1>3, <2>1, <3>1 DEF OpenIsTold
    <3>3. \A u \in samplers : reading'[u] <= highest'[q]
      BY <1>3, <1>5, <2>2
    <3>4. highest'[q] <= peak[q] \/ highest'[q] <= own[q] \/ highest'[q] <= rss
      <4>1. CASE highest'[q] = rss
        BY <2>1, <4>1
      <4>2. CASE highest'[q] = highest[q]
        <5>1. \A u \in samplers : reading[u] = 0
          BY <1>1, <1>5
        <5>2. QED
          BY <2>1, <3>1, <4>2, <5>1 DEF OpenIsTold
      <4>3. QED
        BY <1>3, <2>2, <4>1, <4>2
    <3>5. OpenIsTold(q)'
      BY <1>1, <1>5, <3>2, <3>3, <3>4 DEF OpenIsTold
    <3>6. own[q] <= highest'[q]
      BY <1>3, <2>1 DEF SpanInv
    <3>7. QED
      BY <1>1, <2>1, <3>1, <3>5, <3>6 DEF SpanInv
  <2>3. CASE q \notin sampled
    <3>1. highest'[q] = highest[q] /\ (ClosedIsTold(q) <=> ClosedIsTold(q)')
      BY <1>1, <1>3, <2>3 DEF ClosedIsTold
    <3>2. QED
      BY <1>1, <2>1, <2>3, <3>1 DEF SpanInv
  <2>4. QED
    BY <2>2, <2>3
<1>8. QED
  BY <1>4, <1>6, <1>7 DEF NodeInv

(* The sampler credits what it has read.                                   *)
LEMMA CreditKeeps ==
  ASSUME NodeInv, NEW t \in SpanIds, Node!Credit(t)
  PROVE  NodeInv'
<1>1. /\ t \in samplers /\ reading' = [reading EXCEPT ![t] = 0]
      /\ peak' = [s \in SpanIds |-> IF s \in sampled THEN Node!Higher(peak[s], reading[t]) ELSE peak[s]]
      /\ UNCHANGED <<span, own, sampled, samplerStarted, samplers, rss, highest, early, late, starts, ends>>
  BY DEF Node!Credit, Node!history, Node!traceFile
<1>2. NodeTypes /\ OneSampler /\ \A q \in SpanIds : SpanInv(q)
  BY DEF NodeInv
<1>3. PICK r \in Nat : r = reading[t]
  BY <1>2 DEF NodeTypes
<1>4. ASSUME NEW q \in SpanIds
      PROVE  /\ peak'[q] \in Nat /\ peak[q] <= peak'[q]
             /\ q \notin sampled => peak'[q] = peak[q]
             /\ q \in sampled => peak'[q] \in {peak[q], r} /\ r <= peak'[q]
  <2>1. peak[q] \in Nat
    BY <1>2 DEF NodeTypes
  <2>2. peak'[q] = IF q \in sampled THEN Node!Higher(peak[q], r) ELSE peak[q]
    BY <1>1, <1>3
  <2>3. QED
    BY <2>1, <2>2, HigherIs
<1>5. NodeTypes'
  <2>1. reading' \in [SpanIds -> Nat]
    BY <1>1, <1>2 DEF NodeTypes
  <2>2. peak' \in [SpanIds -> Nat]
    <3>1. DOMAIN peak' = SpanIds /\ peak' = [s \in SpanIds |-> peak'[s]]
      BY <1>1
    <3>2. QED
      BY <1>4, <3>1
  <2>3. QED
    BY <1>1, <1>2, <2>1, <2>2 DEF NodeTypes
<1>6. reading'[t] = 0 /\ \A u \in samplers : u = t
  BY <1>1, <1>2 DEF NodeTypes, OneSampler
<1>7. OneSampler'
  <2>1. \A u \in SpanIds \ samplers' : reading'[u] = 0
    BY <1>1, <1>2 DEF NodeTypes, OneSampler
  <2>2. Node!Unstarted <=> Node!Unstarted'
    BY <1>1 DEF Node!Unstarted
  <2>3. QED
    BY <1>1, <1>2, <2>1, <2>2 DEF OneSampler
<1>8. ASSUME NEW q \in SpanIds
      PROVE  SpanInv(q)'
  <2>1. /\ SpanInv(q) /\ own[q] \in Nat /\ highest[q] \in Nat /\ peak[q] \in Nat /\ early[q] \in Nat
    BY <1>2 DEF NodeTypes
  <2>2. CASE q \in sampled
    <3>1. OpenIsTold(q) /\ span[q] \notin {"none", "opening", "stopped", "closed"}
      BY <2>1, <2>2 DEF SpanInv
    <3>2. r <= highest[q] \/ r <= early[q]
      BY <1>1, <1>3, <3>1 DEF OpenIsTold
    <3>3. peak'[q] <= highest[q] \/ peak'[q] <= early[q]
      BY <1>4, <2>1, <2>2, <3>1, <3>2 DEF OpenIsTold
    <3>4. \A u \in samplers : reading'[u] <= highest[q]
      BY <1>6, <2>1
    <3>5. highest[q] <= peak'[q] \/ highest[q] <= own[q]
      <4>1. CASE highest[q] <= peak[q] \/ highest[q] <= own[q]
        BY <1>4, <2>1, <4>1
      <4>2. CASE \E u \in samplers : highest[q] <= reading[u]
        <5>1. highest[q] <= r
          BY <1>3, <1>6, <4>2
        <5>2. QED
          BY <1>4, <2>1, <2>2, <5>1
      <4>3. QED
        BY <3>1, <4>1, <4>2 DEF OpenIsTold
    <3>6. OpenIsTold(q)'
      BY <1>1, <3>3, <3>4, <3>5 DEF OpenIsTold
    <3>7. own[q] <= peak[q] => own[q] <= peak'[q]
      BY <1>4, <2>1
    <3>8. QED
      BY <1>1, <2>1, <3>1, <3>6, <3>7 DEF SpanInv
  <2>3. CASE q \notin sampled
    <3>1. peak'[q] = peak[q] /\ (ClosedIsTold(q) <=> ClosedIsTold(q)')
      BY <1>1, <1>4, <2>3 DEF ClosedIsTold
    <3>2. QED
      BY <1>1, <2>1, <2>3, <3>1 DEF SpanInv
  <2>4. QED
    BY <2>2, <2>3
<1>9. QED
  BY <1>5, <1>7, <1>8 DEF NodeInv

(* The sampler ends, when no span is left.                                 *)
LEMMA SamplerEndsKeeps ==
  ASSUME NodeInv, NEW t \in SpanIds, Node!SamplerEnds(t)
  PROVE  NodeInv'
<1>1. /\ t \in samplers /\ sampled = {} /\ samplerStarted' = FALSE /\ samplers' = samplers \ {t}
      /\ reading' = [reading EXCEPT ![t] = 0]
      /\ UNCHANGED <<span, own, sampled, peak, rss, highest, early, late, starts, ends>>
  BY DEF Node!SamplerEnds, Node!history, Node!traceFile
<1>2. NodeTypes /\ OneSampler /\ \A q \in SpanIds : SpanInv(q)
  BY DEF NodeInv
<1>3. samplers' = {}
  BY <1>1, <1>2 DEF OneSampler
<1>4. NodeTypes'
  <2>1. reading' \in [SpanIds -> Nat]
    BY <1>1, <1>2 DEF NodeTypes
  <2>2. QED
    BY <1>1, <1>2, <1>3, <2>1 DEF NodeTypes
<1>5. OneSampler'
  <2>1. \A u \in SpanIds : reading'[u] = 0
    BY <1>1, <1>2 DEF NodeTypes, OneSampler
  <2>2. QED
    BY <1>1, <1>3, <2>1 DEF OneSampler
<1>6. ASSUME NEW q \in SpanIds
      PROVE  SpanInv(q)'
  <2>1. SpanInv(q) /\ q \notin sampled /\ (ClosedIsTold(q) <=> ClosedIsTold(q)')
    BY <1>1, <1>2 DEF ClosedIsTold
  <2>2. QED
    BY <1>1, <2>1 DEF SpanInv
<1>7. QED
  BY <1>4, <1>5, <1>6 DEF NodeInv

(* The memory changes, or nothing does.                                    *)
LEMMA MemoryKeeps ==
  ASSUME NodeInv, Node!MemoryChanges \/ UNCHANGED nodeVars
  PROVE  NodeInv'
<1>1. /\ rss' \in Nat
      /\ UNCHANGED <<span, own, sampled, peak, samplerStarted, samplers, reading, highest, early,
                     late, starts, ends>>
  BY ToolsAssumption DEF Node!MemoryChanges, Node!table, Node!threads, Node!history, Node!traceFile,
     nodeVars, NodeInv, NodeTypes
<1>2. NodeTypes'
  BY <1>1 DEF NodeInv, NodeTypes
<1>3. OneSampler'
  BY <1>1 DEF NodeInv, OneSampler, Node!Unstarted
<1>4. \A s \in SpanIds : SpanInv(s)'
  BY <1>1 DEF NodeInv, SpanInv, OpenIsTold, ClosedIsTold
<1>5. QED
  BY <1>2, <1>3, <1>4 DEF NodeInv

(* Every opening, closing and round of the thread preserves the invariant. *)
LEMMA NodeStep ==
  ASSUME NodeInv, Node!NodeNext \/ UNCHANGED nodeVars
  PROVE  NodeInv'
  BY ReadOwnKeeps, OpenSpanKeeps, WritesKeep, StopSamplingKeeps, ReadRssKeeps, CreditKeeps,
     SamplerEndsKeeps, MemoryKeeps DEF Node!NodeNext

(* What is reported of the spans.                                          *)
LEMMA NodePromise == NodeInv => Node!SpansAreSampled
<1> SUFFICES ASSUME NodeInv
             PROVE  Node!SpansAreSampled
  OBVIOUS
<1>1. NodeTypes /\ OneSampler /\ \A q \in SpanIds : SpanInv(q)
  BY DEF NodeInv
<1>2. /\ \A t, u \in samplers : t = u
      /\ samplerStarted \/ sampled # {} => samplers # {} \/ Node!Unstarted
  BY <1>1 DEF OneSampler
<1>3. ASSUME NEW s \in ends
      PROVE  s \in starts /\ ClosedIsTold(s) /\ s \in SpanIds
  BY <1>1, <1>3 DEF NodeTypes, SpanInv
<1>4. ASSUME NEW s \in ends
      PROVE  /\ peak[s] <= Node!Higher(highest[s], early[s])
             /\ highest[s] <= Node!Higher(peak[s], late[s])
  <2>1. peak[s] \in Nat /\ highest[s] \in Nat /\ early[s] \in Nat /\ late[s] \in Nat
    BY <1>1, <1>3 DEF NodeTypes
  <2>2. QED
    BY <1>3, <2>1, HigherIs DEF ClosedIsTold
<1>5. QED
  BY <1>2, <1>3, <1>4 DEF Node!SpansAreSampled

-----------------------------------------------------------------------------
(***************************************************************************)
(* SandboxTpp.                                                             *)
(***************************************************************************)

(* Those of which the controller knows a request.                          *)
Requested == {s \in Sandboxes : lastRequest[s] > 0}

(* What is known of a request was asked or prompted, and the loops of a    *)
(* pass are over sandboxes with a known request.                           *)
TppInv ==
  /\ clock \in Nat \ {0}
  /\ asked \in [Sandboxes -> Nat] /\ prompted \in [Sandboxes -> Nat]
  /\ lastRequest \in [Sandboxes -> Nat]
  /\ \A s \in Requested : asked[s] > 0 \/ prompted[s] > 0
  /\ tracked \subseteq Sandboxes
  /\ todo \in Seq(Requested)
  /\ chosen # Nobody => pass \in {"promote", "demote"} /\ todo # <<>>

(* main begins without a sandbox.                                          *)
LEMMA TppInitInv == SandboxInit => TppInv
<1> SUFFICES ASSUME SandboxInit
             PROVE  TppInv
  OBVIOUS
<1>1. /\ clock \in Nat \ {0}
      /\ asked \in [Sandboxes -> Nat] /\ prompted \in [Sandboxes -> Nat]
      /\ lastRequest \in [Sandboxes -> Nat]
      /\ tracked = {} /\ todo = <<>> /\ chosen = Nobody
  BY DEF SandboxInit
<1>2. Requested = {}
  BY DEF SandboxInit, Requested
<1>3. QED
  BY <1>1, <1>2 DEF TppInv

(* What is sorted is a sequence of the sandboxes that have been asked.     *)
LEMMA SortedIsOf ==
  ASSUME NEW S \in SUBSET Sandboxes, NEW order \in SetToSeqs(S)
  PROVE  order \in Seq(S)
<1>1. Cardinality(S) \in Nat
  BY SandboxAssumption, FS_Subset, FS_CardinalityType
<1>2. order \in [1 .. Cardinality(S) -> S]
  BY DEF SetToSeqs
<1>3. QED
  BY <1>1, <1>2

(* A step that leaves the requests that are known, and takes none back.    *)
LEMMA TppKept ==
  ASSUME TppInv, clock' \in Nat \ {0}, UNCHANGED <<tppKnown, todo, chosen, pass>>,
         asked' \in [Sandboxes -> Nat], prompted' \in [Sandboxes -> Nat],
         \A s \in Sandboxes : /\ asked[s] > 0 => asked'[s] > 0
                              /\ prompted[s] > 0 => prompted'[s] > 0
  PROVE  TppInv'
<1>1. Requested' = Requested
  BY DEF tppKnown, Requested
<1>2. \A s \in Requested' : asked'[s] > 0 \/ prompted'[s] > 0
  <2> SUFFICES ASSUME NEW s \in Requested
               PROVE  asked'[s] > 0 \/ prompted'[s] > 0
    BY <1>1
  <2>1. /\ asked[s] \in Nat /\ prompted[s] \in Nat /\ asked'[s] \in Nat /\ prompted'[s] \in Nat
        /\ asked[s] > 0 => asked'[s] > 0
        /\ prompted[s] > 0 => prompted'[s] > 0
        /\ asked[s] > 0 \/ prompted[s] > 0
    BY DEF TppInv, Requested
  <2>2. QED
    BY <2>1
<1>3. QED
  BY <1>1, <1>2 DEF TppInv, tppKnown

(* One step of the loop that demotes: the sandbox at its head has a known  *)
(* request, and what its log holds by now is only more of them.            *)
LEMMA DemoteHead ==
  ASSUME TppInv, DemoteNext
  PROVE  /\ Head(todo) \in Sandboxes /\ Head(todo) \in Requested
         /\ lastRequest' = [lastRequest EXCEPT ![Head(todo)] = Activity(Head(todo))]
         /\ Activity(Head(todo)) \in Nat
         /\ Activity(Head(todo)) >= lastRequest[Head(todo)]
         /\ Activity(Head(todo)) >= asked[Head(todo)]
<1>1. Head(todo) \in Requested
  BY DEF TppInv, DemoteNext
<1>2. Head(todo) \in Sandboxes
  BY <1>1 DEF Requested
<1>3. lastRequest[Head(todo)] \in Nat /\ asked[Head(todo)] \in Nat
  BY <1>2 DEF TppInv
<1>4. lastRequest' = [lastRequest EXCEPT ![Head(todo)] = Activity(Head(todo))]
  BY DEF DemoteNext, Recheck
<1>5. QED
  BY <1>1, <1>2, <1>3, <1>4 DEF Activity, Later

(* Every step of the machine and of a pass preserves the invariant.        *)
LEMMA TppStep ==
  ASSUME TppInv, SandboxNext \/ UNCHANGED tppVars
  PROVE  TppInv'
<1> DEFINE Same == UNCHANGED <<asked, prompted, clock>>
<1>1. CASE Tick
  BY <1>1, TppKept DEF Tick, World, tppHost, TppInv
<1>2. ASSUME NEW s \in Sandboxes, Boots(s) \/ Exits(s)
      PROVE  TppInv'
  BY <1>2, TppKept DEF Boots, Exits, World, TppInv
<1>3. ASSUME NEW s \in Sandboxes, Asks(s)
      PROVE  TppInv'
  <2>1. UNCHANGED <<tppKnown, todo, chosen, pass>> /\ clock' = clock /\ clock \in Nat \ {0}
    BY <1>3 DEF Asks, World, TppInv
  <2>2. CASE asked' = [asked EXCEPT ![s] = clock] /\ prompted' = prompted
    BY <2>1, <2>2, TppKept DEF TppInv
  <2>3. CASE prompted' = [prompted EXCEPT ![s] = clock] /\ asked' = asked
    BY <2>1, <2>3, TppKept DEF TppInv
  <2>4. QED
    BY <1>3, <2>2, <2>3 DEF Asks
<1>4. CASE Survey
  <2> DEFINE S == {s \in tracked' : lastRequest'[s] > 0}
  <2>1. tracked' \subseteq Sandboxes /\ Same /\ chosen' = chosen /\ chosen = Nobody
    BY <1>4 DEF Survey, AliveNow, tppHost, TppInv
  <2>2. ASSUME NEW s \in Sandboxes
        PROVE  /\ lastRequest'[s] \in Nat
               /\ lastRequest'[s] > 0 => s \in tracked' /\ (asked[s] > 0 \/ prompted[s] > 0)
    <3>1. asked[s] \in Nat /\ prompted[s] \in Nat /\ lastRequest[s] \in Nat
          /\ (lastRequest[s] > 0 => asked[s] > 0 \/ prompted[s] > 0)
      BY DEF TppInv, Requested
    <3>2. /\ tracked' = AliveNow
          /\ lastRequest'[s] = IF s \in AliveNow THEN Later(Activity(s), prompted[s]) ELSE 0
      BY <1>4 DEF Survey
    <3>3. QED
      BY <3>1, <3>2 DEF Later, Activity
  <2>3. Requested' = S
    BY <2>1, <2>2 DEF Requested
  <2>4. todo' \in SetToSeqs(S)
    BY <1>4 DEF Survey, Sorted
  <2>5. S \in SUBSET Sandboxes
    BY <2>1
  <2>6. lastRequest' \in [Sandboxes -> Nat]
    <3>1. lastRequest' = [s \in Sandboxes |->
                            IF s \in AliveNow THEN Later(Activity(s), prompted[s]) ELSE 0]
      BY <1>4 DEF Survey
    <3>2. QED
      BY <2>2, <3>1
  <2> HIDE DEF S
  <2>7. todo' \in Seq(S)
    BY <2>4, <2>5, SortedIsOf
  <2>8. \A s \in Requested' : asked'[s] > 0 \/ prompted'[s] > 0
    BY <2>1, <2>2 DEF Requested
  <2>9. QED
    BY <2>1, <2>3, <2>6, <2>7, <2>8 DEF TppInv
<1>5. CASE PromoteNext
  <2>1. Same /\ UNCHANGED <<lastRequest, tracked, pass>> /\ todo # <<>> /\ pass = "promote"
    BY <1>5 DEF PromoteNext, tppHost, tppKnown
  <2>2. Requested' = Requested
    BY <2>1 DEF Requested
  <2>3. todo' \in Seq(Requested) /\ (chosen' # Nobody => todo' # <<>>)
    <3>1. todo \in Seq(Requested) /\ Tail(todo) \in Seq(Requested)
      BY <2>1 DEF TppInv
    <3>2. todo' \in {todo, Tail(todo)} /\ (chosen' # Nobody => todo' = todo)
      BY <1>5 DEF PromoteNext
    <3>3. QED
      BY <2>1, <3>1, <3>2
  <2>4. QED
    BY <2>1, <2>2, <2>3 DEF TppInv
<1>6. CASE PromoteEnds
  <2> DEFINE S == {s \in tracked' : lastRequest'[s] > 0}
  <2>1. Same /\ UNCHANGED <<lastRequest, tracked, chosen>> /\ chosen = Nobody
    BY <1>6 DEF PromoteEnds, tppHost, tppKnown, TppInv
  <2>2. S \in SUBSET Sandboxes /\ S \subseteq Requested
    BY <2>1 DEF TppInv, Requested
  <2>3. todo' \in SetToSeqs(S)
    BY <1>6 DEF PromoteEnds, Sorted
  <2>4. Requested' = Requested
    BY <2>1 DEF Requested
  <2> HIDE DEF S
  <2>5. todo' \in Seq(Requested)
    <3>1. todo' \in Seq(S)
      BY <2>2, <2>3, SortedIsOf
    <3>2. QED
      BY <2>2, <3>1, SeqMonotonic
  <2>6. QED
    BY <2>1, <2>4, <2>5 DEF TppInv
<1>7. CASE DemoteNext
  <2>1. Same /\ UNCHANGED tracked /\ todo # <<>> /\ pass = "demote"
    BY <1>7 DEF DemoteNext, tppHost
  <2>2. lastRequest' \in [Sandboxes -> Nat] /\ Requested' = Requested
    <3> DEFINE h == Head(todo)
               a == Activity(Head(todo))
    <3>1. h \in Sandboxes /\ lastRequest[h] > 0 /\ a \in Nat /\ a >= lastRequest[h]
          /\ lastRequest' = [lastRequest EXCEPT ![h] = a]
      BY <1>7, DemoteHead DEF Requested
    <3> HIDE DEF h, a
    <3>2. lastRequest \in [Sandboxes -> Nat]
      BY DEF TppInv
    <3>3. lastRequest'[h] > 0 /\ \A s \in Sandboxes : s # h => lastRequest'[s] = lastRequest[s]
      BY <3>1, <3>2
    <3>4. QED
      BY <3>1, <3>2, <3>3 DEF Requested
  <2>3. /\ todo' \in Seq(Requested)
        /\ chosen' # Nobody => todo' # <<>> /\ pass' = "demote"
    <3>1. todo' \in {todo, Tail(todo), <<>>}
      BY <1>7 DEF DemoteNext
    <3>2. chosen = Nobody /\ (chosen' # Nobody => todo' = todo /\ pass' = pass)
      BY <1>7 DEF DemoteNext
    <3>3. {todo, Tail(todo), <<>>} \subseteq Seq(Requested)
      BY <2>1 DEF TppInv
    <3>4. QED
      BY <2>1, <2>2, <3>1, <3>2, <3>3
  <2>4. QED
    BY <2>1, <2>2, <2>3 DEF TppInv
<1>8. CASE MoveSandbox
  <2>1. Same /\ UNCHANGED <<lastRequest, tracked, pass>> /\ todo # <<>> /\ chosen' = Nobody
    BY <1>8 DEF MoveSandbox, tppKnown, TppInv
  <2>2. Requested' = Requested
    BY <2>1 DEF Requested
  <2>3. todo' \in Seq(Requested)
    BY <1>8, <2>1 DEF MoveSandbox, TppInv
  <2>4. QED
    BY <2>1, <2>2, <2>3 DEF TppInv
<1>9. CASE PassEnds
  <2>1. Same /\ UNCHANGED <<lastRequest, tracked, chosen>> /\ chosen = Nobody /\ todo' = <<>>
    BY <1>9 DEF PassEnds, tppHost, tppKnown, TppInv
  <2>2. Requested' = Requested
    BY <2>1 DEF Requested
  <2>3. QED
    BY <2>1, <2>2 DEF TppInv
<1>10. CASE UNCHANGED tppVars
  BY <1>10, TppKept DEF tppVars, tppHost, TppInv
<1>11. QED
  BY <1>1, <1>2, <1>3, <1>4, <1>5, <1>6, <1>7, <1>8, <1>9, <1>10 DEF SandboxNext

(* Only the loop that demotes chooses in that phase, and only what has     *)
(* been idle by what its log holds by now.                                 *)
LEMMA DemotesOnlyIdle ==
  ASSUME TppInv, SandboxNext, NEW s \in Sandboxes,
         chosen = Nobody, chosen' = s, pass = "demote"
  PROVE  /\ clock - asked[s] >= IdleTime
         /\ clock - lastRequest[s] >= IdleTime
         /\ asked[s] > 0 \/ prompted[s] > 0
<1>1. s # Nobody
  BY SandboxAssumption
<1>2. DemoteNext
  BY <1>1 DEF SandboxNext, Tick, Boots, Asks, Exits, World, Survey, PromoteNext, PromoteEnds,
              MoveSandbox, PassEnds
<1>3. s = Head(todo) /\ clock - lastRequest'[s] >= IdleTime
  BY <1>1, <1>2 DEF DemoteNext, Idle
<1>4. /\ lastRequest'[s] = Activity(s) /\ Activity(s) \in Nat
      /\ Activity(s) >= lastRequest[s] /\ Activity(s) >= asked[s] /\ s \in Requested
  BY <1>2, <1>3, DemoteHead DEF TppInv
<1>5. clock \in Nat /\ asked[s] \in Nat /\ lastRequest[s] \in Nat /\ IdleTime \in Nat
  BY SandboxAssumption DEF TppInv
<1>6. asked[s] > 0 \/ prompted[s] > 0
  BY <1>4 DEF TppInv
<1>7. QED
  BY <1>3, <1>4, <1>5, <1>6

-----------------------------------------------------------------------------
(***************************************************************************)
(* ProcessSampler.                                                         *)
(***************************************************************************)

(* What is written for one key, in this order.                             *)
Unseen == <<>>
Active == <<"start", "sample">>
Exited == <<"start", "sample", "exit">>
Back == <<"start", "sample", "exit", "sample">>

(* A key is seen when something is written of it, and active as long as    *)
(* that is its start and its samples.                                      *)
SamplerInv ==
  /\ born \in [Pids -> 0 .. MaxForks + 1] /\ forks \in 0 .. MaxForks
  /\ events \in [Sampler!Keys -> {Unseen, Active, Exited, Back}]
  /\ activeKeys \subseteq Sampler!Keys
  /\ \A k \in Sampler!Keys : /\ k \in activeKeys <=> events[k] = Active
                             /\ k \in seen <=> events[k] # Unseen
  /\ \A j, k \in activeKeys : j[1] = k[1] => j = k

(* What Append adds to a sequence.                                         *)
LEMMA Appended ==
  ASSUME NEW S, NEW s \in Seq(S), NEW c \in S, NEW n \in Nat, n = Len(s) + 1,
         NEW u, u = Append(s, c)
  PROVE  u \in Seq(S) /\ Len(u) = n /\ u[n] = c /\ \A i \in 1 .. Len(s) : u[i] = s[i]
  OBVIOUS

(* A pair with one element more.                                           *)
LEMMA AppendToTwo ==
  ASSUME NEW S, NEW a \in S, NEW b \in S, NEW c \in S
  PROVE  Append(<<a, b>>, c) = <<a, b, c>>
<1> DEFINE s == <<a, b>>
           t == <<a, b, c>>
<1>1. s \in Seq(S) /\ t \in Seq(S) /\ Len(s) = 2 /\ Len(t) = 3
  OBVIOUS
<1>2. s[1] = t[1] /\ s[2] = t[2] /\ t[3] = c
  OBVIOUS
<1> HIDE DEF s, t
<1>3. PICK u : u = Append(s, c)
  OBVIOUS
<1>4. 3 \in Nat /\ 3 = Len(s) + 1
  BY <1>1
<1>5. u \in Seq(S) /\ Len(u) = 3 /\ u[3] = c /\ \A i \in 1 .. Len(s) : u[i] = s[i]
  BY <1>1, <1>3, <1>4, Appended
<1>6. \A i \in 1 .. 3 : u[i] = t[i]
  BY <1>1, <1>2, <1>5
<1>7. u = t
  BY <1>1, <1>5, <1>6, SeqEqual
<1>8. QED
  BY <1>3, <1>7 DEF s, t

(* And a triple.                                                           *)
LEMMA AppendToThree ==
  ASSUME NEW S, NEW a \in S, NEW b \in S, NEW c \in S, NEW d \in S
  PROVE  Append(<<a, b, c>>, d) = <<a, b, c, d>>
<1> DEFINE s == <<a, b, c>>
           t == <<a, b, c, d>>
<1>1. s \in Seq(S) /\ t \in Seq(S) /\ Len(s) = 3 /\ Len(t) = 4
  OBVIOUS
<1>2. s[1] = t[1] /\ s[2] = t[2] /\ s[3] = t[3] /\ t[4] = d
  OBVIOUS
<1> HIDE DEF s, t
<1>3. PICK u : u = Append(s, d)
  OBVIOUS
<1>4. 4 \in Nat /\ 4 = Len(s) + 1
  BY <1>1
<1>5. u \in Seq(S) /\ Len(u) = 4 /\ u[4] = d /\ \A i \in 1 .. Len(s) : u[i] = s[i]
  BY <1>1, <1>3, <1>4, Appended
<1>6. \A i \in 1 .. 4 : u[i] = t[i]
  BY <1>1, <1>2, <1>5
<1>7. u = t
  BY <1>1, <1>5, <1>6, SeqEqual
<1>8. QED
  BY <1>3, <1>7 DEF s, t

(* The four logs differ in length.                                         *)
LEMMA LogLengths ==
  /\ Len(Unseen) = 0 /\ Len(Active) = 2 /\ Len(Exited) = 3 /\ Len(Back) = 4
  /\ Unseen # Active /\ Active # Exited /\ Active # Back /\ Unseen # Exited /\ Unseen # Back
<1>1. Len(Unseen) = 0 /\ Len(Active) = 2 /\ Len(Exited) = 3 /\ Len(Back) = 4
  BY DEF Unseen, Active, Exited, Back
<1>2. 0 # 2 /\ 0 # 3 /\ 0 # 4 /\ 2 # 3 /\ 2 # 4
  OBVIOUS
<1>3. QED
  BY <1>1, <1>2, Zenon

(* What a round, and an exit, make of each of them.                        *)
LEMMA FourLogs ==
  /\ Sampler!Add(0, "sample", Active) = Active /\ Sampler!Add(0, "sample", Exited) = Back
  /\ Sampler!Add(0, "sample", Back) = Back
  /\ Unseen \o Active = Active /\ Append(Active, "exit") = Exited
<1>1. Len(Unseen) = 0 /\ Len(Active) = 2 /\ Len(Exited) = 3 /\ Len(Back) = 4
  BY LogLengths
<1>2. Active[2] = "sample" /\ Exited[3] = "exit" /\ Back[4] = "sample"
  BY DEF Active, Exited, Back
<1>3. Append(Exited, "sample") = Back /\ Append(Active, "exit") = Exited
  <2> DEFINE Kinds == {"start", "sample", "exit"}
  <2>1. "start" \in Kinds /\ "sample" \in Kinds /\ "exit" \in Kinds
    OBVIOUS
  <2> HIDE DEF Kinds
  <2>2. QED
    BY <2>1, AppendToTwo, AppendToThree DEF Active, Exited, Back
<1>4. Sampler!Add(0, "sample", Active) = Active
  BY <1>1, <1>2 DEF Sampler!Add, Unseen
<1>5. Sampler!Add(0, "sample", Exited) = Back
  <2>1. Exited # <<>> /\ Exited[Len(Exited)] = "exit"
    BY <1>1, <1>2 DEF Unseen
  <2>2. QED
    BY <1>3, <2>1 DEF Sampler!Add
<1>6. Sampler!Add(0, "sample", Back) = Back
  BY <1>1, <1>2 DEF Sampler!Add, Unseen
<1>7. Unseen \o Active = Active
  BY DEF Unseen, Active
<1>8. QED
  BY <1>1, <1>3, <1>4, <1>5, <1>6, <1>7

(* The sampler begins with no key.                                         *)
LEMMA SamplerInitInv == Sampler!SamplerInit => SamplerInv
<1> SUFFICES ASSUME Sampler!SamplerInit
             PROVE  SamplerInv
  OBVIOUS
<1>1. born \in [Pids -> 0 .. MaxForks + 1] /\ forks \in 0 .. MaxForks
  BY ToolsAssumption DEF Sampler!SamplerInit
<1>2. Unseen # Active
  BY LogLengths
<1>3. QED
  BY <1>1, <1>2 DEF Sampler!SamplerInit, SamplerInv, Unseen

(* One round writes a start and a sample for a new key, one exit for an    *)
(* active one that was not read.                                           *)
LEMMA RoundKeeps ==
  ASSUME SamplerInv, NEW unreadable, Sampler!Round(unreadable)
  PROVE  SamplerInv'
<1> DEFINE pids == (known \cap Sampler!Living) \ unreadable
           current == Sampler!KeysOf(pids)
           new == current \ seen
<1>1. pids \subseteq Pids /\ \A p \in pids : born[p] \in 1 .. MaxForks + 1
  BY DEF Sampler!Living, SamplerInv
<1>2. current \subseteq Sampler!Keys /\ \A j, k \in current : j[1] = k[1] => j = k
  BY <1>1 DEF Sampler!KeysOf, Sampler!Keys
<1>3. /\ seen' = seen \cup new /\ activeKeys' = (activeKeys \cup new) \cap current
      /\ events' = [k \in Sampler!Keys |->
           CASE k \in new -> events[k] \o <<"start", "sample">>
             [] k \in current \ new -> Sampler!Add(k, "sample", events[k])
             [] k \in activeKeys \ current -> Append(events[k], "exit")
             [] OTHER -> events[k]]
      /\ born' = born /\ forks' = forks
  BY DEF Sampler!Round, Sampler!proc
<1> HIDE DEF current
<1>4. ASSUME NEW k \in Sampler!Keys
      PROVE  /\ events'[k] \in {Unseen, Active, Exited, Back}
             /\ k \in activeKeys' <=> events'[k] = Active
             /\ k \in seen' <=> events'[k] # Unseen
  <2>0. /\ events[k] \in {Unseen, Active, Exited, Back}
        /\ k \in activeKeys <=> events[k] = Active
        /\ k \in seen <=> events[k] # Unseen
        /\ Unseen # Active /\ Active # Exited /\ Active # Back /\ Unseen # Exited /\ Unseen # Back
    BY LogLengths DEF SamplerInv
  <2>1. CASE k \in new
    <3>1. events'[k] = Unseen \o Active
      BY <1>3, <2>0, <2>1 DEF Active
    <3>2. QED
      BY <1>3, <2>0, <2>1, <3>1, FourLogs
  <2>2. CASE k \in current \ new
    <3>1. events'[k] = Sampler!Add(k, "sample", events[k])
      BY <1>3, <2>2
    <3>2. events'[k] = Sampler!Add(0, "sample", events[k])
      BY <3>1 DEF Sampler!Add
    <3>3. events'[k] = IF events[k] = Active THEN Active ELSE Back
      BY <2>0, <2>2, <3>2, FourLogs
    <3>4. k \in activeKeys' <=> k \in activeKeys
      BY <1>3, <2>2
    <3>5. QED
      BY <1>3, <2>0, <2>2, <3>3, <3>4
  <2>3. CASE k \in activeKeys \ current
    <3>1. events'[k] = Append(events[k], "exit")
      BY <1>3, <2>3
    <3>2. events'[k] = Exited
      BY <2>0, <2>3, <3>1, FourLogs
    <3>3. QED
      BY <1>3, <2>0, <2>3, <3>2
  <2>4. CASE k \notin current /\ k \notin activeKeys
    <3>1. events'[k] = events[k]
      BY <1>3, <2>4
    <3>2. QED
      BY <1>3, <2>0, <2>4, <3>1
  <2>5. QED
    BY <2>1, <2>2, <2>3, <2>4
<1>5. events' \in [Sampler!Keys -> {Unseen, Active, Exited, Back}]
  BY <1>3, <1>4
<1>6. activeKeys' \subseteq current
  BY <1>3
<1>7. \A j, k \in activeKeys' : j[1] = k[1] => j = k
  BY <1>2, <1>6
<1>8. QED
  BY <1>2, <1>3, <1>4, <1>5, <1>6, <1>7 DEF SamplerInv

(* Every step of a process and of the loop preserves the invariant.        *)
LEMMA SamplerStep ==
  ASSUME SamplerInv, Sampler!SamplerNext \/ UNCHANGED samplerVars
  PROVE  SamplerInv'
<1> DEFINE Same == UNCHANGED <<seen, activeKeys, events>>
<1>1. ASSUME NEW p, NEW child \in Pids, Sampler!Fork(p, child)
      PROVE  SamplerInv'
  <2>1. forks' \in 0 .. MaxForks /\ forks' + 1 \in 0 .. MaxForks + 1
    BY <1>1, ToolsAssumption DEF Sampler!Fork, SamplerInv
  <2>2. born' \in [Pids -> 0 .. MaxForks + 1] /\ Same
    BY <1>1, <2>1 DEF Sampler!Fork, SamplerInv
  <2>3. QED
    BY <2>1, <2>2 DEF SamplerInv
<1>2. ASSUME NEW p \in Pids, Sampler!Exit(p)
      PROVE  SamplerInv'
  <2>1. 0 \in 0 .. MaxForks + 1
    BY ToolsAssumption
  <2>2. born' \in [Pids -> 0 .. MaxForks + 1] /\ Same /\ forks' = forks
    BY <1>2, <2>1 DEF Sampler!Exit, SamplerInv
  <2>3. QED
    BY <2>2 DEF SamplerInv
<1>3. CASE Sampler!Discover
  BY <1>3 DEF Sampler!Discover, Sampler!proc, SamplerInv
<1>4. ASSUME NEW unreadable, Sampler!Round(unreadable)
      PROVE  SamplerInv'
  BY <1>4, RoundKeeps
<1>5. CASE Sampler!Stop
  BY <1>5 DEF Sampler!Stop, Sampler!proc, SamplerInv
<1>6. CASE UNCHANGED samplerVars
  BY <1>6 DEF samplerVars, SamplerInv
<1>7. QED
  BY <1>1, <1>2, <1>3, <1>4, <1>5, <1>6 DEF Sampler!SamplerNext

(* What is written of the processes.                                       *)
LEMMA SamplerPromise == SamplerInv => Sampler!EventsPaired
<1> SUFFICES ASSUME SamplerInv
             PROVE  Sampler!EventsPaired
  OBVIOUS
<1>1. ASSUME NEW k \in Sampler!Keys
      PROVE  /\ events[k] \in {Unseen, Active, Exited, Back}
             /\ k \in activeKeys <=> Len(events[k]) = 2
  <2>1. events[k] \in {Unseen, Active, Exited, Back} /\ (k \in activeKeys <=> events[k] = Active)
    BY DEF SamplerInv
  <2>2. 0 # 2 /\ 3 # 2 /\ 4 # 2
    OBVIOUS
  <2>3. events[k] = Active <=> Len(events[k]) = 2
    BY <2>1, <2>2, LogLengths, Zenon
  <2>4. QED
    BY <2>1, <2>3
<1>2. QED
  BY <1>1 DEF SamplerInv, Sampler!EventsPaired, Unseen, Active, Exited, Back


-----------------------------------------------------------------------------
(***************************************************************************)
(* CapacitySampler.                                                        *)
(***************************************************************************)

CapacityPids == FewPids \cup {Root}

\* A line of /proc, with fewer processes than n ever started before it.
Lines(n) == [parent : CapacityPids \cup {0}, start : 1 .. n, ticks : Nat]

\* (pid, start) is still a process that the table has.
SameProcess(key, table) == key[1] \in DOMAIN table /\ table[key[1]].start = key[2]

(* A process that starts has a start that no sampled process had; so what  *)
(* the table and the samples say of a (pid, start) is of one process, and  *)
(* as long as it lives never more than it used.                            *)
CpuInv ==
  /\ capacityForks \in Nat
  /\ DOMAIN proc \subseteq CapacityPids
  /\ proc \in [DOMAIN proc -> Lines(capacityForks + 1)]
  /\ DOMAIN processes \subseteq CapacityPids
  /\ processes \in [DOMAIN processes -> Lines(capacityForks + 1)]
  /\ \A p \in DOMAIN processes :
       SameProcess(<<p, processes[p].start>>, proc) => processes[p].ticks <= proc[p].ticks
  /\ DOMAIN previousCpu \subseteq CapacityPids \X (1 .. capacityForks + 1)
  /\ previousCpu \in [DOMAIN previousCpu -> Nat]
  /\ first \in [DOMAIN previousCpu -> Nat]
  /\ counted = [k \in DOMAIN previousCpu |-> previousCpu[k] - first[k]]
  /\ \A k \in DOMAIN previousCpu : SameProcess(k, proc) => previousCpu[k] <= proc[k[1]].ticks

(* Since calm, the counters of the sample before have risen by a tick for  *)
(* each sustained sample at least, and by the limit's share of busy ones.  *)
BusySince(sample) ==
  /\ sample \in Nat \X Nat
  /\ sample[1] >= calm[1] + sustained
  /\ (sample[2] - calm[2]) * 100 >= CpuLimit * (sample[1] - calm[1])

(* The loop goes on only below the number of samples asked for, or before  *)
(* the first sample, which counts none.                                    *)
BusyInv ==
  /\ total \in Nat /\ busy \in Nat /\ sustained \in Nat
  /\ calm \in Nat \X Nat
  /\ \/ previousCapacity = {} /\ sustained = 0
     \/ \E sample \in Nat \X Nat : previousCapacity = {sample} /\ BusySince(sample)
  /\ loop # "over" => sustained < Sustain \/ previousCapacity = {}
  /\ stopReason = "sustained_host_cpu" => sustained = Sustain

CapacityInv == CpuInv /\ BusyInv

(* Before the first sample nothing is counted.                             *)
LEMMA CapacityInitInv == Capacity!CapacityInit => CapacityInv
<1> SUFFICES ASSUME Capacity!CapacityInit
             PROVE  CapacityInv
  OBVIOUS
<1>1. CpuInv
  BY DEF Capacity!CapacityInit, Capacity!Nothing, CpuInv, CapacityPids, Lines, SameProcess
<1>2. BusyInv
  BY DEF Capacity!CapacityInit, BusyInv
<1>3. QED
  BY <1>1, <1>2 DEF CapacityInv

(* The limit's share of two spells is the sum of the shares of each.       *)
LEMMA SharesAdd ==
  ASSUME NEW limit \in Nat, NEW a \in Int, NEW b \in Int, NEW c \in Int
  PROVE  limit * (c - a) = limit * (b - a) + limit * (c - b)
  OBVIOUS

(* What a round says of the chosen CPUs.                                   *)
LEMMA SampleKeepsBusy ==
  ASSUME BusyInv, Capacity!Sample
  PROVE  BusyInv'
<1> USE ToolsAssumption
<1>1. /\ total' = total /\ busy' = busy
      /\ sustained' = IF Capacity!Saturated THEN sustained + 1 ELSE 0
      /\ calm' = IF Capacity!Saturated THEN calm ELSE <<total, busy>>
      /\ previousCapacity' = {<<total, busy>>}
      /\ loop # "over"
  BY DEF Capacity!Sample, Capacity!CountSustained, Capacity!machine
<1>2. \/ sustained' >= Sustain /\ loop' = "over"
      \/ sustained' < Sustain /\ stopReason' # "sustained_host_cpu"
  BY DEF Capacity!Sample
<1>3. CASE ~Capacity!Saturated
  <2>1. sustained' = 0 /\ calm' = <<total, busy>>
    BY <1>1, <1>3
  <2>2. total \in Nat /\ busy \in Nat
    BY DEF BusyInv
  <2>3. CpuLimit * (total - total) = 0 /\ (busy - busy) * 100 = 0
    BY <2>2
  <2>4. BusySince(<<total, busy>>)'
    BY <1>1, <2>1, <2>2, <2>3 DEF BusySince
  <2>5. sustained' >= Sustain => sustained' = Sustain
    BY <2>1
  <2>6. QED
    BY <1>1, <1>2, <2>1, <2>2, <2>4, <2>5 DEF BusyInv
<1>4. CASE Capacity!Saturated
  <2>1. PICK sample \in previousCapacity :
          /\ total > sample[1]
          /\ (busy - sample[2]) * 100 >= CpuLimit * (total - sample[1])
    BY <1>4 DEF Capacity!Saturated
  <2>2. sample \in Nat \X Nat /\ BusySince(sample) /\ sustained < Sustain
    BY <1>1, <2>1 DEF BusyInv
  <2>3. sustained' = sustained + 1 /\ calm' = calm
    BY <1>1, <1>4
  <2>4. /\ total \in Nat /\ busy \in Nat /\ sustained \in Nat
        /\ calm[1] \in Nat /\ calm[2] \in Nat /\ sample[1] \in Nat /\ sample[2] \in Nat
    BY <2>2 DEF BusyInv
  <2>5. CpuLimit * (total - calm[1]) = CpuLimit * (sample[1] - calm[1]) + CpuLimit * (total - sample[1])
    BY <2>4, SharesAdd
  <2>6. /\ CpuLimit * (sample[1] - calm[1]) \in Int /\ CpuLimit * (total - sample[1]) \in Int
        /\ (sample[2] - calm[2]) * 100 >= CpuLimit * (sample[1] - calm[1])
        /\ sample[1] >= calm[1] + sustained
    BY <2>2, <2>4 DEF BusySince
  <2>7. (busy - calm[2]) * 100 >= CpuLimit * (total - calm[1])
    BY <2>1, <2>4, <2>5, <2>6
  <2>8. total >= calm[1] + (sustained + 1)
    BY <2>1, <2>4, <2>6
  <2>9. BusySince(<<total, busy>>)'
    BY <1>1, <2>3, <2>4, <2>7, <2>8 DEF BusySince
  <2>10. sustained' >= Sustain => sustained' = Sustain
    BY <2>2, <2>3, <2>4
  <2>11. sustained' \in Nat /\ calm' \in Nat \X Nat
    BY <2>3, <2>4 DEF BusyInv
  <2>12. QED
    BY <1>1, <1>2, <2>4, <2>9, <2>10, <2>11 DEF BusyInv
<1>5. QED
  BY <1>3, <1>4

(* What happens on the host: a process that starts is none of those that   *)
(* were seen, and CPU time does not go back.                               *)
LEMMA HostKeeps ==
  ASSUME CpuInv, UNCHANGED <<processes, previousCpu, counted, first>>,
         capacityForks' \in Nat, capacityForks' >= capacityForks,
         DOMAIN proc' \subseteq CapacityPids,
         proc' \in [DOMAIN proc' -> Lines(capacityForks' + 1)],
         \A p \in DOMAIN proc' :
           \/ proc'[p].start > capacityForks + 1
           \/ /\ p \in DOMAIN proc /\ proc'[p].start = proc[p].start
              /\ proc'[p].ticks >= proc[p].ticks
  PROVE  CpuInv'
<1> DEFINE L == Lines(capacityForks + 1)
           M == Lines(capacityForks' + 1)
           K == CapacityPids \X (1 .. capacityForks + 1)
<1>1. capacityForks \in Nat
  BY DEF CpuInv
<1>2. L \subseteq M
  BY <1>1 DEF Lines
<1>3. \A l \in L : l.start \in 1 .. capacityForks + 1 /\ l.ticks \in Nat
  BY DEF Lines
<1>4. \A l \in M : l.start \in 1 .. capacityForks' + 1 /\ l.ticks \in Nat
  BY DEF Lines
<1>5. /\ proc \in [DOMAIN proc -> L] /\ proc' \in [DOMAIN proc' -> M]
      /\ processes \in [DOMAIN processes -> L]
  BY DEF CpuInv
<1>6. processes' \in [DOMAIN processes' -> M]
  BY <1>2, <1>5
<1> HIDE DEF L, M
<1>7. ASSUME NEW key \in K, SameProcess(key, proc)'
      PROVE  SameProcess(key, proc) /\ proc'[key[1]].ticks >= proc[key[1]].ticks
  <2>1. key[2] \in 1 .. capacityForks + 1 /\ key[1] \in DOMAIN proc' /\ proc'[key[1]].start = key[2]
    BY <1>7 DEF SameProcess
  <2>2. ~(proc'[key[1]].start > capacityForks + 1)
    BY <1>1, <2>1
  <2>3. QED
    BY <2>1, <2>2 DEF SameProcess
<1>8. ASSUME NEW p \in DOMAIN processes', SameProcess(<<p, processes[p].start>>, proc)'
      PROVE  processes'[p].ticks <= proc'[p].ticks
  <2>1. processes' = processes /\ p \in DOMAIN processes /\ processes[p] \in L /\ p \in CapacityPids
    BY <1>5 DEF CpuInv
  <2>2. PICK key \in K : key = <<p, processes[p].start>>
    BY <1>3, <2>1
  <2>3. SameProcess(key, proc)' /\ key[1] = p
    BY <1>8, <2>1, <2>2 DEF SameProcess
  <2>4. SameProcess(key, proc) /\ proc'[p].ticks >= proc[p].ticks
    BY <1>7, <2>3
  <2>5. processes[p].ticks <= proc[p].ticks
    BY <2>1, <2>2, <2>4 DEF CpuInv
  <2>6. p \in DOMAIN proc /\ p \in DOMAIN proc'
    BY <2>3, <2>4 DEF SameProcess
  <2>7. proc[p].ticks \in Nat /\ proc'[p].ticks \in Nat /\ processes[p].ticks \in Nat
    BY <1>3, <1>4, <1>5, <2>1, <2>6
  <2>8. QED
    BY <2>1, <2>4, <2>5, <2>7
<1>9. ASSUME NEW k \in DOMAIN previousCpu', SameProcess(k, proc)'
      PROVE  previousCpu'[k] <= proc'[k[1]].ticks
  <2>1. previousCpu' = previousCpu /\ k \in K /\ previousCpu[k] \in Nat
    BY DEF CpuInv
  <2>2. SameProcess(k, proc)'
    BY <1>9
  <2>3. SameProcess(k, proc) /\ proc'[k[1]].ticks >= proc[k[1]].ticks
    BY <1>7, <2>1, <2>2
  <2>4. previousCpu[k] <= proc[k[1]].ticks
    BY <2>1, <2>3 DEF CpuInv
  <2>5. k[1] \in DOMAIN proc /\ k[1] \in DOMAIN proc'
    BY <2>2, <2>3 DEF SameProcess
  <2>6. proc[k[1]].ticks \in Nat /\ proc'[k[1]].ticks \in Nat
    BY <1>3, <1>4, <1>5, <2>5
  <2>7. QED
    BY <2>1, <2>3, <2>4, <2>6
<1>10. 1 .. capacityForks + 1 \subseteq 1 .. capacityForks' + 1
  BY <1>1
<1>11. /\ DOMAIN previousCpu' \subseteq CapacityPids \X (1 .. capacityForks' + 1)
       /\ previousCpu' \in [DOMAIN previousCpu' -> Nat]
       /\ first' \in [DOMAIN previousCpu' -> Nat]
       /\ counted' = [k \in DOMAIN previousCpu' |-> previousCpu'[k] - first'[k]]
       /\ DOMAIN processes' \subseteq CapacityPids
  BY <1>10 DEF CpuInv
<1>12. QED
  BY <1>5, <1>6, <1>8, <1>9, <1>11 DEF CpuInv, SameProcess, M

(* The host's steps are such steps.                                        *)
LEMMA HostStep ==
  ASSUME CpuInv, NEW step, Capacity!Machine(step), step,
         \/ \E p \in FewPids \cup {0}, child \in FewPids : Capacity!Fork(p, child)
         \/ \E p \in FewPids : Capacity!Exit(p)
         \/ \E p \in FewPids \cup {0} : Capacity!Tick(p)
         \/ Capacity!Charge
  PROVE  CpuInv'
<1>1. UNCHANGED <<processes, previousCpu, counted, first>>
  BY DEF Capacity!Machine, Capacity!counters
<1>2. capacityForks \in Nat /\ DOMAIN proc \subseteq CapacityPids
  BY DEF CpuInv
<1>3. \A p \in DOMAIN proc : /\ proc[p] \in Lines(capacityForks + 1)
                             /\ proc[p].start \in 1 .. capacityForks + 1 /\ proc[p].ticks \in Nat
                             /\ proc[p].parent \in CapacityPids \cup {0}
  BY DEF CpuInv, Lines
<1>4. ASSUME NEW p \in FewPids \cup {0}, NEW child \in FewPids, Capacity!Fork(p, child)
      PROVE  CpuInv'
  <2>1. capacityForks' = capacityForks + 1 /\ DOMAIN proc' = DOMAIN proc \cup {child}
    BY <1>4 DEF Capacity!Fork, Capacity!Living
  <2>2. capacityForks' \in Nat /\ capacityForks' >= capacityForks
    BY <1>2, <2>1
  <2>3. DOMAIN proc' \subseteq CapacityPids /\ p \in CapacityPids \cup {0}
    BY <1>2, <2>1 DEF CapacityPids
  <2>4. ASSUME NEW q \in DOMAIN proc'
        PROVE  /\ proc'[q] \in Lines(capacityForks' + 1)
               /\ \/ proc'[q].start > capacityForks + 1
                  \/ /\ q \in DOMAIN proc /\ proc'[q].start = proc[q].start
                     /\ proc'[q].ticks >= proc[q].ticks
    <3>1. CASE q = child
      <4>1. proc'[q] = [parent |-> p, start |-> capacityForks' + 1, ticks |-> 0]
        BY <1>4, <2>1, <3>1 DEF Capacity!Fork, Capacity!Living
      <4>2. QED
        BY <1>2, <2>1, <2>3, <4>1 DEF Lines
    <3>2. CASE q # child
      <4>1. q \in DOMAIN proc /\ proc'[q] = proc[q]
        BY <1>4, <2>1, <3>2 DEF Capacity!Fork, Capacity!Living
      <4>2. proc[q] \in Lines(capacityForks' + 1)
        BY <1>2, <1>3, <2>1, <4>1 DEF Lines
      <4>3. QED
        BY <1>3, <4>1, <4>2
    <3>3. QED
      BY <3>1, <3>2
  <2>5. proc' = [q \in DOMAIN proc' |-> proc'[q]]
    BY <1>4 DEF Capacity!Fork
  <2>6. proc' \in [DOMAIN proc' -> Lines(capacityForks' + 1)]
    BY <2>4, <2>5
  <2>7. QED
    BY <1>1, <2>2, <2>3, <2>4, <2>6, HostKeeps
<1>5. ASSUME NEW p \in FewPids, Capacity!Exit(p)
      PROVE  CpuInv'
  <2>1. capacityForks' = capacityForks /\ DOMAIN proc' = DOMAIN proc \ {p}
    BY <1>5 DEF Capacity!Exit, Capacity!Living
  <2>2. ASSUME NEW q \in DOMAIN proc'
        PROVE  /\ proc'[q] \in Lines(capacityForks + 1)
               /\ proc'[q].start = proc[q].start /\ proc'[q].ticks = proc[q].ticks
    <3>1. q \in DOMAIN proc /\ proc'[q] = IF proc[q].parent = p THEN [proc[q] EXCEPT !.parent = 0] ELSE proc[q]
      BY <1>5, <2>1 DEF Capacity!Exit, Capacity!Living
    <3>2. proc[q] \in Lines(capacityForks + 1)
      BY <1>3, <3>1
    <3>3. QED
      BY <3>1, <3>2 DEF Lines
  <2>3. proc' = [q \in DOMAIN proc' |-> proc'[q]]
    BY <1>5 DEF Capacity!Exit
  <2>4. proc' \in [DOMAIN proc' -> Lines(capacityForks' + 1)]
    BY <2>1, <2>2, <2>3
  <2>5. \A q \in DOMAIN proc' : /\ q \in DOMAIN proc /\ proc'[q].start = proc[q].start
                                /\ proc'[q].ticks >= proc[q].ticks
    BY <1>3, <2>1, <2>2
  <2>6. QED
    BY <1>1, <1>2, <2>1, <2>4, <2>5, HostKeeps
<1>6. ASSUME NEW p \in FewPids \cup {0}, Capacity!Tick(p)
      PROVE  CpuInv'
  <2>1. capacityForks' = capacityForks /\ DOMAIN proc' = DOMAIN proc
    BY <1>6 DEF Capacity!Tick
  <2>2. ASSUME NEW q \in DOMAIN proc'
        PROVE  /\ proc'[q] \in Lines(capacityForks + 1)
               /\ proc'[q].start = proc[q].start /\ proc'[q].ticks >= proc[q].ticks
    <3>1. q \in DOMAIN proc /\ proc[q] \in Lines(capacityForks + 1) /\ proc[q].ticks \in Nat
      BY <1>3, <2>1
    <3>2. proc'[q] = proc[q] \/ proc'[q] = [proc[q] EXCEPT !.ticks = @ + 1]
      BY <1>6, <3>1 DEF Capacity!Tick
    <3>3. QED
      BY <3>1, <3>2 DEF Lines
  <2>3. proc' = [q \in DOMAIN proc' |-> proc'[q]]
    BY <1>6 DEF Capacity!Tick, CpuInv
  <2>4. proc' \in [DOMAIN proc' -> Lines(capacityForks' + 1)]
    BY <2>1, <2>2, <2>3
  <2>5. \A q \in DOMAIN proc' : /\ q \in DOMAIN proc /\ proc'[q].start = proc[q].start
                                /\ proc'[q].ticks >= proc[q].ticks
    BY <2>1, <2>2
  <2>6. QED
    BY <1>1, <1>2, <2>1, <2>4, <2>5, HostKeeps
<1>7. CASE Capacity!Charge
  <2>1. proc' = proc /\ capacityForks' = capacityForks
    BY <1>7 DEF Capacity!Charge
  <2>2. QED
    BY <1>1, <2>1 DEF CpuInv, SameProcess
<1>8. QED
  BY <1>4, <1>5, <1>6, <1>7

(* A round adds to the shares of a process what it used since the sample   *)
(* before; the first sample of a process adds nothing.                     *)
LEMMA AccountKeeps ==
  ASSUME CpuInv, NEW containers, Capacity!Account(containers),
         UNCHANGED <<proc, capacityForks>>, processes' = Capacity!Nothing
  PROVE  CpuInv'
<1> DEFINE pids == (Capacity!Descendants({Root}) \cup Capacity!Descendants(containers)) \cap DOMAIN processes
           keys == {Capacity!Key(p) : p \in pids}
           ticks(key) == processes[key[1]].ticks
           new == keys \cup DOMAIN previousCpu
<1>1. /\ counted' = [k \in new |-> (IF k \in DOMAIN counted THEN counted[k] ELSE 0)
                                    + IF k \in keys THEN Capacity!CpuOf(k, ticks(k)) ELSE 0]
      /\ previousCpu' = [k \in new |-> IF k \in keys THEN ticks(k) ELSE previousCpu[k]]
      /\ first' = [k \in new |-> IF k \in DOMAIN first THEN first[k] ELSE ticks(k)]
  BY DEF Capacity!Account
<1>2. pids \subseteq DOMAIN processes
  OBVIOUS
<1> HIDE DEF pids
<1>3. \A k \in keys : /\ k \in CapacityPids \X (1 .. capacityForks + 1)
                      /\ ticks(k) \in Nat
                      /\ SameProcess(k, proc) => ticks(k) <= proc[k[1]].ticks
  <2>1. ASSUME NEW p \in pids
        PROVE  LET k == Capacity!Key(p) IN
               /\ k \in CapacityPids \X (1 .. capacityForks + 1)
               /\ ticks(k) \in Nat
               /\ SameProcess(k, proc) => ticks(k) <= proc[k[1]].ticks
    <3>1. p \in DOMAIN processes /\ p \in CapacityPids
      BY <1>2 DEF CpuInv
    <3>2. processes[p] \in Lines(capacityForks + 1)
      BY <3>1 DEF CpuInv
    <3>3. processes[p].start \in 1 .. capacityForks + 1 /\ processes[p].ticks \in Nat
      BY <3>2 DEF Lines
    <3>4. SameProcess(<<p, processes[p].start>>, proc) => processes[p].ticks <= proc[p].ticks
      BY <3>1 DEF CpuInv
    <3>5. QED
      BY <3>1, <3>3, <3>4 DEF Capacity!Key
  <2>2. QED
    BY <2>1
<1>4. DOMAIN counted = DOMAIN previousCpu /\ DOMAIN first = DOMAIN previousCpu
  BY DEF CpuInv
<1> HIDE DEF keys
<1>5. ASSUME NEW k \in new
      PROVE  /\ previousCpu'[k] \in Nat /\ first'[k] \in Nat
             /\ counted'[k] = previousCpu'[k] - first'[k]
             /\ SameProcess(k, proc) => previousCpu'[k] <= proc[k[1]].ticks
             /\ k \in CapacityPids \X (1 .. capacityForks + 1)
  <2>1. CASE k \in DOMAIN previousCpu
    <3>1. /\ previousCpu[k] \in Nat /\ first[k] \in Nat /\ counted[k] = previousCpu[k] - first[k]
          /\ k \in CapacityPids \X (1 .. capacityForks + 1)
          /\ SameProcess(k, proc) => previousCpu[k] <= proc[k[1]].ticks
      BY <2>1 DEF CpuInv
    <3>2. first'[k] = first[k]
      BY <1>1, <1>4, <2>1
    <3>3. CASE k \in keys
      <4>1. previousCpu'[k] = ticks(k) /\ counted'[k] = counted[k] + (ticks(k) - previousCpu[k])
        BY <1>1, <1>4, <2>1, <3>3 DEF Capacity!CpuOf
      <4>2. ticks(k) \in Nat /\ (SameProcess(k, proc) => ticks(k) <= proc[k[1]].ticks)
        BY <1>3, <3>3
      <4> HIDE DEF ticks
      <4>3. QED
        BY <3>1, <3>2, <4>1, <4>2
    <3>4. CASE k \notin keys
      <4>1. previousCpu'[k] = previousCpu[k] /\ counted'[k] = counted[k] + 0
        BY <1>1, <1>4, <2>1, <3>4
      <4>2. QED
        BY <3>1, <3>2, <4>1
    <3>5. QED
      BY <3>3, <3>4
  <2>2. CASE k \notin DOMAIN previousCpu
    <3>1. k \in keys
      BY <2>2
    <3>2. previousCpu'[k] = ticks(k) /\ first'[k] = ticks(k) /\ counted'[k] = 0 + 0
      BY <1>1, <1>4, <2>2, <3>1 DEF Capacity!CpuOf
    <3>3. QED
      BY <1>3, <3>1, <3>2
  <2>3. QED
    BY <2>1, <2>2
<1>6. DOMAIN previousCpu' = new
  BY <1>1
<1>7. previousCpu' \in [new -> Nat] /\ first' \in [new -> Nat]
  BY <1>1, <1>5
<1>8. counted' = [k \in new |-> previousCpu'[k] - first'[k]]
  BY <1>1, <1>5
<1>9. /\ capacityForks' \in Nat
      /\ DOMAIN proc' \subseteq CapacityPids
      /\ proc' \in [DOMAIN proc' -> Lines(capacityForks' + 1)]
      /\ DOMAIN processes' = {} /\ processes' \in [DOMAIN processes' -> Lines(capacityForks' + 1)]
  BY DEF CpuInv, Capacity!Nothing
<1> HIDE DEF new
<1>10. QED
  BY <1>5, <1>6, <1>7, <1>8, <1>9 DEF CpuInv, SameProcess

(* Every step of the host and every round preserve the invariant.          *)
LEMMA CapacityStep ==
  ASSUME CapacityInv, Capacity!CapacityNext \/ UNCHANGED capacityVars
  PROVE  CapacityInv'
<1>1. ASSUME NEW step, Capacity!Machine(step), step,
             \/ \E p \in FewPids \cup {0}, child \in FewPids : Capacity!Fork(p, child)
             \/ \E p \in FewPids : Capacity!Exit(p)
             \/ \E p \in FewPids \cup {0} : Capacity!Tick(p)
             \/ Capacity!Charge
      PROVE  CapacityInv'
  <2>1. CpuInv'
    BY <1>1, HostStep DEF CapacityInv
  <2>2. UNCHANGED <<loop, sustained, calm, previousCapacity, stopReason>>
    BY <1>1 DEF Capacity!Machine, Capacity!counters
  <2>3. total' \in Nat /\ busy' \in Nat
    <3>1. total \in Nat /\ busy \in Nat
      BY DEF CapacityInv, BusyInv
    <3>2. \/ total' = total /\ busy' = busy
          \/ total' = total + 1 /\ (busy' = busy + 1 \/ busy' = busy)
      BY <1>1 DEF Capacity!Fork, Capacity!Exit, Capacity!Tick, Capacity!Charge
    <3>3. QED
      BY <3>1, <3>2
  <2>4. BusyInv'
    BY <2>2, <2>3 DEF CapacityInv, BusyInv, BusySince
  <2>5. QED
    BY <2>1, <2>4 DEF CapacityInv
<1>2. CASE Capacity!ReadTable
  <2>1. /\ UNCHANGED <<proc, capacityForks, previousCpu, counted, first>>
        /\ processes' = proc
    BY <1>2 DEF Capacity!ReadTable, Capacity!machine, Capacity!counters
  <2>2. CpuInv /\ \A p \in DOMAIN proc : proc[p].ticks \in Nat
    BY DEF CapacityInv, CpuInv, Lines
  <2>3. CpuInv'
    BY <2>1, <2>2 DEF CpuInv, SameProcess
  <2>4. /\ UNCHANGED <<total, busy, sustained, calm, previousCapacity, stopReason>>
        /\ loop # "over"
    BY <1>2 DEF Capacity!ReadTable, Capacity!machine, Capacity!counters
  <2>5. BusyInv'
    BY <2>4 DEF CapacityInv, BusyInv, BusySince
  <2>6. QED
    BY <2>3, <2>5 DEF CapacityInv
<1>3. CASE Capacity!LoopEnds \/ UNCHANGED capacityVars
  <2>1. UNCHANGED <<proc, capacityForks, processes, previousCpu, counted, first, total, busy,
                    sustained, calm, previousCapacity, stopReason>>
    BY <1>3 DEF Capacity!LoopEnds, Capacity!machine, Capacity!counters, capacityVars
  <2>2. loop' = loop \/ loop' = "over"
    BY <1>3 DEF Capacity!LoopEnds, capacityVars
  <2>3. CpuInv'
    BY <2>1 DEF CapacityInv, CpuInv, SameProcess
  <2>4. BusyInv'
    BY <2>1, <2>2 DEF CapacityInv, BusyInv, BusySince
  <2>5. QED
    BY <2>3, <2>4 DEF CapacityInv
<1>4. CASE Capacity!Sample
  <2>1. /\ \E containers \in Capacity!DockerContainers : Capacity!Account(containers)
        /\ UNCHANGED <<proc, capacityForks>> /\ processes' = Capacity!Nothing
    BY <1>4 DEF Capacity!Sample, Capacity!machine
  <2>2. CpuInv'
    BY <2>1, AccountKeeps DEF CapacityInv
  <2>3. BusyInv'
    BY <1>4, SampleKeepsBusy DEF CapacityInv
  <2>4. QED
    BY <2>2, <2>3 DEF CapacityInv
<1>5. QED
  <2>1. CASE \E p \in FewPids \cup {0}, child \in FewPids : Capacity!Machine(Capacity!Fork(p, child))
    BY <1>1, <2>1 DEF Capacity!Machine
  <2>2. CASE \E p \in FewPids : Capacity!Machine(Capacity!Exit(p))
    BY <1>1, <2>2 DEF Capacity!Machine
  <2>3. CASE \E p \in FewPids \cup {0} : Capacity!Machine(Capacity!Tick(p))
    BY <1>1, <2>3 DEF Capacity!Machine
  <2>4. CASE Capacity!Machine(Capacity!Charge)
    BY <1>1, <2>4 DEF Capacity!Machine
  <2>5. QED
    BY <1>2, <1>3, <1>4, <2>1, <2>2, <2>3, <2>4 DEF Capacity!CapacityNext

(* What the loop reports of processes and CPUs.                            *)
LEMMA CapacityPromise == CapacityInv => Capacity!SamplesAddUp
<1> SUFFICES ASSUME CapacityInv
             PROVE  Capacity!SamplesAddUp
  OBVIOUS
<1>1. \A k \in DOMAIN counted :
        /\ counted[k] = previousCpu[k] - first[k]
        /\ k[1] \in Capacity!Living /\ proc[k[1]].start = k[2] => previousCpu[k] <= proc[k[1]].ticks
  BY DEF CapacityInv, CpuInv, SameProcess, Capacity!Living
<1>2. sustained > 0 => \E p \in previousCapacity :
        /\ p[1] >= calm[1] + sustained
        /\ (p[2] - calm[2]) * 100 >= CpuLimit * (p[1] - calm[1])
  BY DEF CapacityInv, BusyInv, BusySince
<1>3. stopReason = "sustained_host_cpu" => sustained = Sustain
  BY DEF CapacityInv, BusyInv
<1>4. QED
  BY <1>1, <1>2, <1>3 DEF Capacity!SamplesAddUp

-----------------------------------------------------------------------------
(***************************************************************************)
(* SingleInstance.                                                         *)
(***************************************************************************)

(* Max, of the numbers up to k.                                            *)
LEMMA LastOf ==
  ASSUME NEW k \in Nat \ {0}
  PROVE  Single!Max(1 .. k) = k
<1>1. k \in 1 .. k /\ \A y \in 1 .. k : k >= y
  OBVIOUS
<1>2. \A x \in 1 .. k : (\A y \in 1 .. k : x >= y) => x = k
  OBVIOUS
<1>3. QED
  BY <1>1, <1>2 DEF Single!Max

(* A set of numbers up to n that is not empty has a last one.              *)
LEMMA LastIsIn ==
  ASSUME NEW n \in Nat, NEW s \in SUBSET (1 .. n), s # {}
  PROVE  Single!Max(s) \in s
  BY LastChosen DEF Single!Max

\* What the fold of Catalog does with one more id.
Listing(ids, id) == IF Single!Contains(ids, id) THEN ids ELSE Append(ids, id)

\* The values of that fold on the parts of the payload's positions.
CatalogFold(it, payload) ==
  it = [s \in SUBSET (DOMAIN payload) |->
          IF s = {} THEN <<>> ELSE Listing(it[s \ {Single!Max(s)}], payload[Single!Max(s)])]

(* The catalog is such a fold.                                             *)
LEMMA CatalogIsFold ==
  ASSUME NEW payload
  PROVE  Single!Catalog(payload) = (CHOOSE it : CatalogFold(it, payload))[DOMAIN payload]
  BY DEF Single!Catalog, Single!FoldLeft, Single!MapThenFoldSet, CatalogFold, Listing

(* What the values of that fold are.                                       *)
LEMMA CatalogFolds ==
  ASSUME NEW payload \in Seq(Nat)
  PROVE  CatalogFold(CHOOSE it : CatalogFold(it, payload), payload)
<1> DEFINE D == DOMAIN payload
           F == [a \in D \X Seq(Nat) |-> Listing(a[2], payload[a[1]])]
           last == [s \in SUBSET D |-> Single!Max(s)]
<1>1. D = 1 .. Len(payload) /\ Len(payload) \in Nat /\ IsFiniteSet(D)
  BY FS_Interval
<1>2. F \in [D \X Seq(Nat) -> Seq(Nat)]
  BY DEF Listing
<1>3. \A i \in D, ids \in Seq(Nat) : F[<<i, ids>>] = Listing(ids, payload[i])
  OBVIOUS
<1>4. \A s \in SUBSET D : s # {} => last[s] \in s /\ last[s] = Single!Max(s)
  BY <1>1, LastIsIn
<1> HIDE DEF D, F, last
<1>5. PICK it \in [SUBSET D -> Seq(Nat)] : IsFold(it, <<>>, F, last, D)
  <2>1. Takes(last, D)
    BY <1>4 DEF Takes
  <2>2. <<>> \in Seq(Nat)
    OBVIOUS
  <2>3. QED
    BY <1>1, <1>2, <2>1, <2>2, FoldExists
<1>6. ASSUME NEW s \in SUBSET D
      PROVE  it[s] = IF s = {} THEN <<>>
                     ELSE Listing(it[s \ {Single!Max(s)}], payload[Single!Max(s)])
  <2>1. it[s] = FoldStep(<<>>, F, last, it, s)
    BY <1>5 DEF IsFold
  <2>2. CASE s = {}
    BY <2>1, <2>2 DEF FoldStep
  <2>3. CASE s # {}
    <3>1. last[s] \in D /\ last[s] = Single!Max(s) /\ s \ {last[s]} \in SUBSET D
      BY <1>4, <2>3
    <3>2. F[<<last[s], it[s \ {last[s]}]>>] = Listing(it[s \ {last[s]}], payload[last[s]])
      BY <1>3, <1>5, <3>1
    <3>3. QED
      BY <2>1, <2>3, <3>1, <3>2 DEF FoldStep
  <2>4. QED
    BY <2>2, <2>3
<1>7. CatalogFold(it, payload)
  BY <1>5, <1>6 DEF CatalogFold, D
<1>8. QED
  BY <1>7

\* What names each id once.
Distinct(ids) == \A i, j \in DOMAIN ids : ids[i] = ids[j] => i = j

(* A list with one more id still names each once, and the new one too.     *)
LEMMA ListingKeeps ==
  ASSUME NEW ids \in Seq(Nat), Distinct(ids), NEW id \in Nat
  PROVE  /\ Listing(ids, id) \in Seq(Nat) /\ Distinct(Listing(ids, id))
         /\ Range(Listing(ids, id)) = Range(ids) \cup {id}
<1>1. CASE Single!Contains(ids, id)
  <2>1. id \in Range(ids)
    BY <1>1 DEF Single!Contains, Range
  <2>2. Listing(ids, id) = ids
    BY <1>1 DEF Listing
  <2>3. QED
    BY <2>1, <2>2
<1>2. CASE ~Single!Contains(ids, id)
  <2>1. Listing(ids, id) = Append(ids, id)
    BY <1>2 DEF Listing
  <2>2. \A i \in 1 .. Len(ids) : ids[i] # id
    BY <1>2 DEF Single!Contains
  <2> DEFINE more == Append(ids, id)
  <2>3. /\ more \in Seq(Nat) /\ Len(more) = Len(ids) + 1 /\ more[Len(ids) + 1] = id
        /\ \A i \in 1 .. Len(ids) : more[i] = ids[i]
        /\ Len(ids) \in Nat
    OBVIOUS
  <2> HIDE DEF more
  <2>4. DOMAIN more = 1 .. Len(ids) + 1 /\ DOMAIN ids = 1 .. Len(ids)
    BY <2>3
  <2>5. \A i \in DOMAIN more : i \in DOMAIN ids \/ i = Len(ids) + 1
    BY <2>3, <2>4
  <2>6. Distinct(more)
    BY <2>2, <2>3, <2>4, <2>5 DEF Distinct
  <2>7. Range(more) = Range(ids) \cup {id}
    <3>1. \A x : x \in Range(more) <=> \E i \in DOMAIN more : x = more[i]
      BY DEF Range
    <3>2. \A x : x \in Range(ids) <=> \E i \in DOMAIN ids : x = ids[i]
      BY DEF Range
    <3>3. Len(ids) + 1 \in DOMAIN more /\ DOMAIN ids \subseteq DOMAIN more
      BY <2>3, <2>4
    <3>4. ASSUME NEW x \in Range(more)
          PROVE  x \in Range(ids) \/ x = id
      <4>1. PICK i \in DOMAIN more : x = more[i]
        BY <3>1
      <4>2. CASE i \in DOMAIN ids
        BY <2>3, <2>4, <3>2, <4>1, <4>2
      <4>3. CASE i = Len(ids) + 1
        BY <2>3, <4>1, <4>3
      <4>4. QED
        BY <2>5, <4>2, <4>3
    <3>5. Range(ids) \subseteq Range(more) /\ id \in Range(more)
      <4>1. \A i \in DOMAIN ids : more[i] = ids[i] /\ i \in DOMAIN more
        BY <2>3, <2>4, <3>3
      <4>2. QED
        BY <2>3, <3>3, <4>1 DEF Range
    <3>6. QED
      BY <3>4, <3>5
  <2>8. QED
    BY <2>1, <2>3, <2>6, <2>7 DEF more
<1>3. QED
  BY <1>1, <1>2

(* The catalog names what the payload names, each once.                    *)
LEMMA CatalogIs ==
  ASSUME NEW payload \in Seq(Nat)
  PROVE  /\ Single!Catalog(payload) \in Seq(Nat) /\ Distinct(Single!Catalog(payload))
         /\ Range(Single!Catalog(payload)) = Range(payload)
<1>1. PICK it : it = CHOOSE h : CatalogFold(h, payload)
  OBVIOUS
<1>2. CatalogFold(it, payload) /\ Single!Catalog(payload) = it[DOMAIN payload]
  BY <1>1, CatalogIsFold, CatalogFolds
<1> DEFINE Named(k) == {payload[i] : i \in 1 .. k}
           Good == {k \in Nat : k <= Len(payload) =>
                      it[1 .. k] \in Seq(Nat) /\ Distinct(it[1 .. k]) /\ Range(it[1 .. k]) = Named(k)}
<1>3. DOMAIN payload = 1 .. Len(payload) /\ Len(payload) \in Nat
  OBVIOUS
<1>4. \A s \in SUBSET (DOMAIN payload) :
        it[s] = IF s = {} THEN <<>>
                ELSE Listing(it[s \ {Single!Max(s)}], payload[Single!Max(s)])
  BY <1>2 DEF CatalogFold
<1>5. 0 \in Good
  <2>1. 1 .. 0 = {} /\ {} \in SUBSET (DOMAIN payload)
    OBVIOUS
  <2>2. it[1 .. 0] = <<>>
    BY <1>4, <2>1
  <2>3. <<>> \in Seq(Nat) /\ DOMAIN <<>> = {}
    OBVIOUS
  <2>4. Distinct(<<>>) /\ Range(<<>>) = {}
    BY <2>3 DEF Distinct, Range
  <2>5. Named(0) = {}
    BY <2>1
  <2> HIDE DEF Named
  <2>6. QED
    BY <2>2, <2>3, <2>4, <2>5
<1>6. ASSUME NEW k \in Good  PROVE k + 1 \in Good
  <2>1. SUFFICES ASSUME k + 1 <= Len(payload)
                 PROVE  /\ it[1 .. k + 1] \in Seq(Nat) /\ Distinct(it[1 .. k + 1])
                        /\ Range(it[1 .. k + 1]) = Named(k + 1)
    OBVIOUS
  <2>2. /\ k \in Nat /\ it[1 .. k] \in Seq(Nat) /\ Distinct(it[1 .. k])
        /\ Range(it[1 .. k]) = Named(k)
    BY <1>3, <2>1
  <2>3. /\ 1 .. k + 1 \in SUBSET (DOMAIN payload) /\ 1 .. k + 1 # {}
        /\ (1 .. k + 1) \ {k + 1} = 1 .. k /\ payload[k + 1] \in Nat
        /\ Named(k + 1) = Named(k) \cup {payload[k + 1]}
    <3>1. k \in Nat
      BY <2>2
    <3>2. 1 .. k + 1 = (1 .. k) \cup {k + 1} /\ k + 1 \in 1 .. k + 1
      BY <3>1
    <3>3. 1 .. k + 1 \in SUBSET (DOMAIN payload) /\ payload[k + 1] \in Nat
      BY <1>3, <2>1, <3>1
    <3>4. k + 1 \notin 1 .. k
      BY <3>1
    <3>5. Named(k + 1) = Named(k) \cup {payload[k + 1]}
      BY <3>2
    <3> HIDE DEF Named
    <3>6. QED
      BY <3>2, <3>3, <3>4, <3>5
  <2>4. Single!Max(1 .. k + 1) = k + 1
    BY <2>2, LastOf
  <2> HIDE DEF Named, Good
  <2>5. it[1 .. k + 1] = Listing(it[1 .. k], payload[k + 1])
    BY <1>4, <2>3, <2>4
  <2>6. /\ Listing(it[1 .. k], payload[k + 1]) \in Seq(Nat)
        /\ Distinct(Listing(it[1 .. k], payload[k + 1]))
        /\ Range(Listing(it[1 .. k], payload[k + 1])) = Range(it[1 .. k]) \cup {payload[k + 1]}
    BY <2>2, <2>3, ListingKeeps
  <2>7. QED
    BY <2>2, <2>3, <2>5, <2>6
<1>7. Good = Nat
  <2> HIDE DEF Good
  <2>1. Good \in SUBSET Nat
    BY DEF Good
  <2>2. QED
    BY <1>5, <1>6, <2>1, AllNumbers
<1>8. Range(payload) = Named(Len(payload))
  BY <1>3 DEF Range
<1>9. it[1 .. Len(payload)] \in Seq(Nat) /\ Distinct(it[1 .. Len(payload)])
      /\ Range(it[1 .. Len(payload)]) = Named(Len(payload))
  <2>1. Len(payload) \in Good
    BY <1>3, <1>7
  <2>2. Len(payload) <= Len(payload)
    BY <1>3
  <2> HIDE DEF Named
  <2>3. QED
    BY <2>1, <2>2
<1> HIDE DEF Named
<1>10. QED
  BY <1>2, <1>3, <1>8, <1>9

\* The seconds of a trace's first k turns.
SecondsOf(t, k) == Sums(t, DOMAIN t)[1 .. k]

Profiled == {p.id : p \in profiles}

(* The profiles are of whole traces, every instance is profiled, failed or *)
(* still to come, and only a full profile is chosen from.                  *)
SingleInv ==
  /\ trace \in [Single!Instance -> Seq(Nat) \ {<<>>}]
  /\ catalog \in Seq(Single!Instance) /\ Distinct(catalog)
  /\ turn \in Nat \ {0}
  /\ catalog # <<>> => /\ turn <= Len(trace[Head(catalog)])
                       /\ seconds = SecondsOf(trace[Head(catalog)], turn - 1)
  /\ IsFiniteSet(profiles)
  /\ \A p \in profiles :
       /\ p.id \in Single!Instance
       /\ p = [id |-> p.id, turns |-> Len(trace[p.id]),
               seconds |-> SecondsOf(trace[p.id], Len(trace[p.id]))]
  /\ failures \subseteq Single!Instance /\ Profiled \cap failures = {}
  /\ Range(catalog) \cap (Profiled \cup failures) = {}
  /\ exit # "catalog" => Profiled \cup failures \cup Range(catalog) = Single!Instance
  /\ representative # {} =>
       /\ catalog = <<>> /\ profiles # {} /\ exit # "catalog"
       /\ representative = {p \in profiles : Single!Best(p)}
  /\ exit # "" => ~lent

(* A trace's seconds, one turn after the other.                            *)
LEMMA SecondsAdd ==
  ASSUME NEW t \in Seq(Nat), NEW k \in 1 .. Len(t)
  PROVE  /\ SecondsOf(t, 0) = 0
         /\ SecondsOf(t, k) = SecondsOf(t, k - 1) + t[k]
         /\ SecondsOf(t, k) \in Nat
<1>1. DOMAIN t = 1 .. Len(t) /\ Len(t) \in Nat /\ IsFiniteSet(1 .. Len(t))
  BY FS_Interval
<1>2. 1 .. k \in SUBSET (1 .. Len(t)) /\ k \in 1 .. k /\ (1 .. k) \ {k} = 1 .. k - 1 /\ 1 .. 0 = {}
  BY <1>1
<1>3. Summand(DOMAIN t, t, 1 .. k, k)
  BY <1>1, <1>2 DEF Summand
<1>4. IsAdded(DOMAIN t, t, 1 .. k, k)
  BY <1>3, SummandIsAdded
<1>5. QED
  BY <1>2, <1>4 DEF IsAdded, SecondsOf

(* The catalog at the beginning names each instance once.                  *)
LEMMA FirstCatalog ==
  ASSUME NEW payload \in {<<>>, <<1, 1>> \o [k \in 1 .. Listed - 1 |-> k + 1]}
  PROVE  /\ Single!Catalog(payload) \in Seq(Single!Instance) /\ Distinct(Single!Catalog(payload))
         /\ Range(Single!Catalog(payload)) = IF payload = <<>> THEN {} ELSE Single!Instance
<1> DEFINE rest == [k \in 1 .. Listed - 1 |-> k + 1]
           both == <<1, 1>> \o rest
<1>0. Listed \in Nat \ {0}
  BY ToolsAssumption
<1>1. rest \in Seq(Nat) /\ Len(rest) = Listed - 1 /\ \A k \in 1 .. Listed - 1 : rest[k] = k + 1
  BY <1>0
<1> HIDE DEF rest
<1>2. both \in Seq(Nat) /\ Len(both) = Listed + 1
      /\ \A i \in 1 .. Listed + 1 : both[i] = IF i = 1 THEN 1 ELSE IF i = 2 THEN 1 ELSE rest[i - 2]
  <2>1. PICK two \in Seq(Nat) : two = <<1, 1>> /\ Len(two) = 2 /\ two[1] = 1 /\ two[2] = 1
    <3>1. <<1, 1>> \in Seq(Nat)
      OBVIOUS
    <3>2. Len(<<1, 1>>) = 2 /\ <<1, 1>>[1] = 1 /\ <<1, 1>>[2] = 1
      OBVIOUS
    <3>3. QED
      BY <3>1, <3>2
  <2>2. both = two \o rest
    BY <2>1
  <2> HIDE DEF both
  <2>3. both \in Seq(Nat) /\ Len(both) = 2 + (Listed - 1)
    BY <1>1, <2>1, <2>2
  <2>4. \A i \in 1 .. 2 + (Listed - 1) : both[i] = IF i <= 2 THEN two[i] ELSE rest[i - 2]
    BY <1>0, <1>1, <2>1, <2>2
  <2>5. 2 + (Listed - 1) = Listed + 1
    BY <1>0
  <2>6. \A i \in 1 .. Listed + 1 : i <= 2 <=> i = 1 \/ i = 2
    BY <1>0
  <2>7. QED
    BY <2>1, <2>3, <2>4, <2>5, <2>6
<1>3. \A i \in 1 .. Listed + 1 : both[i] = IF i = 1 THEN 1 ELSE i - 1
  BY <1>0, <1>1, <1>2
<1> HIDE DEF both
<1>4. Range(both) = Single!Instance
  <2>1. DOMAIN both = 1 .. Listed + 1
    BY <1>2
  <2>2. \A i \in DOMAIN both : both[i] \in 1 .. Listed
    BY <1>0, <1>3, <2>1
  <2>3. \A i \in 1 .. Listed : i + 1 \in DOMAIN both /\ both[i + 1] = i
    BY <1>0, <1>3, <2>1
  <2>4. QED
    BY <2>2, <2>3 DEF Range, Single!Instance
<1>5. both # <<>>
  BY <1>0, <1>2
<1>6. <<>> \in Seq(Nat) /\ Range(<<>>) = {}
  BY DEF Range
<1>7. payload = <<>> \/ payload = both
  BY DEF both, rest
<1>8. payload \in Seq(Nat) /\ Range(payload) = IF payload = <<>> THEN {} ELSE Single!Instance
  BY <1>2, <1>4, <1>5, <1>6, <1>7
<1>9. PICK ids : ids = Single!Catalog(payload)
  OBVIOUS
<1>10. ids \in Seq(Nat) /\ Distinct(ids) /\ Range(ids) = Range(payload)
  BY <1>8, <1>9, CatalogIs
<1>11. ids \in Seq(Single!Instance)
  <2>1. \A i \in 1 .. Len(ids) : ids[i] \in Single!Instance
    <3>1. Range(ids) \subseteq Single!Instance
      BY <1>8, <1>10
    <3>2. \A i \in 1 .. Len(ids) : ids[i] \in Range(ids)
      BY <1>10 DEF Range
    <3>3. QED
      BY <3>1, <3>2
  <2>2. QED
    BY <1>10, <2>1
<1>12. QED
  BY <1>8, <1>9, <1>10, <1>11

(* The profile begins with the whole catalog before it.                    *)
LEMMA SingleInitInv == Single!SingleInit => SingleInv
<1> SUFFICES ASSUME Single!SingleInit
             PROVE  SingleInv
  OBVIOUS
<1>1. trace \in [Single!Instance -> Seq(Nat) \ {<<>>}]
  <2>1. \A m \in 0 .. TraceLength : [1 .. m -> {0, 1}] \subseteq Seq(Nat)
    BY ToolsAssumption
  <2>2. Single!BoundedSeq({0, 1}, TraceLength) \subseteq Seq(Nat)
    BY <2>1 DEF Single!BoundedSeq, Single!SeqOf
  <2>3. trace \in [Single!Instance -> Single!BoundedSeq({0, 1}, TraceLength) \ {<<>>}]
    BY DEF Single!SingleInit
  <2>4. QED
    BY <2>2, <2>3
<1>2. PICK payload \in {<<>>, <<1, 1>> \o [k \in 1 .. Listed - 1 |-> k + 1]} :
        /\ catalog = Single!Catalog(payload) /\ (exit # "catalog" => payload # <<>>)
  BY DEF Single!SingleInit
<1>3. /\ catalog \in Seq(Single!Instance) /\ Distinct(catalog)
      /\ exit # "catalog" => Range(catalog) = Single!Instance
  BY <1>2, FirstCatalog
<1>4. turn = 1 /\ seconds = 0 /\ profiles = {} /\ failures = {} /\ representative = {} /\ ~lent
  BY DEF Single!SingleInit
<1>5. catalog # <<>> => turn <= Len(trace[Head(catalog)])
                        /\ seconds = SecondsOf(trace[Head(catalog)], turn - 1)
  <2>1. SUFFICES ASSUME catalog # <<>>
                 PROVE  turn <= Len(trace[Head(catalog)])
                        /\ seconds = SecondsOf(trace[Head(catalog)], turn - 1)
    OBVIOUS
  <2>2. PICK t \in Seq(Nat) : t = trace[Head(catalog)] /\ t # <<>>
    BY <1>1, <1>3, <2>1
  <2>3. 1 \in 1 .. Len(t)
    BY <2>2
  <2>4. SecondsOf(t, 0) = 0
    BY <2>3, SecondsAdd
  <2>5. QED
    BY <1>4, <2>2, <2>3, <2>4
<1>6. Profiled = {}
  BY <1>4 DEF Profiled
<1>7. IsFiniteSet(profiles)
  BY <1>4, FS_EmptySet
<1>8. turn \in Nat \ {0} /\ failures \subseteq Single!Instance
  BY <1>4
<1>9. QED
  BY <1>1, <1>3, <1>4, <1>5, <1>6, <1>7, <1>8, Zenon DEF SingleInv

(* The catalog without its head.                                           *)
LEMMA CatalogTail ==
  ASSUME SingleInv, catalog # <<>>
  PROVE  /\ Head(catalog) \in Single!Instance
         /\ Tail(catalog) \in Seq(Single!Instance) /\ Distinct(Tail(catalog))
         /\ Range(catalog) = Range(Tail(catalog)) \cup {Head(catalog)}
         /\ Head(catalog) \notin Range(Tail(catalog))
<1> DEFINE rest == Tail(catalog)
<1>1. catalog \in Seq(Single!Instance) /\ \A i, j \in DOMAIN catalog : catalog[i] = catalog[j] => i = j
  BY DEF SingleInv, Distinct
<1>2. /\ rest \in Seq(Single!Instance) /\ Len(rest) = Len(catalog) - 1
      /\ Len(catalog) \in Nat \ {0}
      /\ \A i \in 1 .. Len(catalog) - 1 : rest[i] = catalog[i + 1]
      /\ Head(catalog) = catalog[1] /\ catalog[1] \in Single!Instance
  BY <1>1
<1> HIDE DEF rest
<1>3. DOMAIN rest = 1 .. Len(catalog) - 1 /\ DOMAIN catalog = 1 .. Len(catalog)
  BY <1>1, <1>2
<1>4. \A i \in DOMAIN rest : i + 1 \in DOMAIN catalog /\ i + 1 # 1 /\ rest[i] = catalog[i + 1]
  BY <1>2, <1>3
<1>5. \A i, j \in DOMAIN rest : i + 1 = j + 1 => i = j
  BY <1>3
<1>6. Distinct(rest)
  BY <1>1, <1>4, <1>5 DEF Distinct
<1>7. 1 \in DOMAIN catalog /\ \A i \in DOMAIN catalog : i # 1 => i - 1 \in DOMAIN rest /\ catalog[i] = rest[i - 1]
  BY <1>2, <1>3
<1>8. Range(catalog) = Range(rest) \cup {catalog[1]}
  <2>1. \A i \in DOMAIN catalog : catalog[i] = catalog[1] \/ catalog[i] \in Range(rest)
    BY <1>7 DEF Range
  <2>2. \A i \in DOMAIN rest : rest[i] \in Range(catalog)
    BY <1>4 DEF Range
  <2>3. catalog[1] \in Range(catalog)
    BY <1>7 DEF Range
  <2>4. QED
    BY <2>1, <2>2, <2>3 DEF Range
<1>9. catalog[1] \notin Range(rest)
  BY <1>1, <1>4, <1>7 DEF Range
<1>10. QED
  BY <1>2, <1>6, <1>8, <1>9 DEF rest

(* The next instance is walked from its first turn.                        *)
LEMMA NextInstanceKeeps ==
  ASSUME SingleInv, catalog # <<>>, Single!NextInstance, UNCHANGED trace
  PROVE  /\ catalog' \in Seq(Single!Instance) /\ Distinct(catalog') /\ (turn \in Nat \ {0})'
         /\ (catalog # <<>> => /\ turn <= Len(trace[Head(catalog)])
                              /\ seconds = SecondsOf(trace[Head(catalog)], turn - 1))'
         /\ Range(catalog) = Range(catalog') \cup {Head(catalog)}
         /\ Head(catalog) \notin Range(catalog')
<1>1. catalog' = Tail(catalog) /\ turn' = 1 /\ seconds' = 0
  BY DEF Single!NextInstance
<1>2. catalog' \in Seq(Single!Instance) /\ Distinct(catalog')
  BY <1>1, CatalogTail
<1>3. ASSUME catalog' # <<>>
      PROVE  turn' <= Len(trace'[Head(catalog')]) /\ seconds' = SecondsOf(trace'[Head(catalog')], turn' - 1)
  <2>1. Head(catalog') \in Single!Instance
    BY <1>2, <1>3
  <2>2. PICK t \in Seq(Nat) : t = trace'[Head(catalog')] /\ t # <<>>
    BY <2>1 DEF SingleInv
  <2>3. 1 \in 1 .. Len(t)
    BY <2>2
  <2>4. SecondsOf(t, 0) = 0
    BY <2>3, SecondsAdd
  <2>5. turn' <= Len(t) /\ turn' - 1 = 0
    <3>1. 1 <= Len(t)
      BY <2>2, <2>3
    <3>2. QED
      BY <1>1, <3>1
  <2>6. QED
    BY <1>1, <2>2, <2>4, <2>5
<1>4. turn' \in Nat \ {0}
  BY <1>1
<1>5. Range(catalog) = Range(catalog') \cup {Head(catalog)} /\ Head(catalog) \notin Range(catalog')
  BY <1>1, CatalogTail
<1>6. QED
  BY <1>2, <1>3, <1>4, <1>5 DEF SecondsOf

TurnsOf(P) == Sums([q \in P |-> q.turns], P)[P]
SpentOf(P) == Sums([q \in P |-> q.seconds], P)[P]

(* SingleInstance counts as everyone does.                                 *)
LEMMA SameCardinality ==
  ASSUME NEW S
  PROVE  Single!Cardinality(S) = Cardinality(S)
  BY DEF Single!Cardinality, Cardinality, Single!IsFiniteSet, IsFiniteSet

(* The totals are sums over the profiles, and so they are after a step.    *)
LEMMA TotalsAre ==
  /\ Single!Total(LAMBDA q : q.turns) = TurnsOf(profiles)
  /\ Single!Total(LAMBDA q : q.seconds) = SpentOf(profiles)
  /\ Single!Total(LAMBDA q : q.turns)' = TurnsOf(profiles')
  /\ Single!Total(LAMBDA q : q.seconds)' = SpentOf(profiles')
<1>1. Single!Total(LAMBDA q : q.turns) = TurnsOf(profiles)
  BY ZenonT(30)
     DEF Single!Total, Single!FoldSet, Single!MapThenFoldSet, TurnsOf, Sums, SumsOf, SumStep, First
<1>2. Single!Total(LAMBDA q : q.seconds) = SpentOf(profiles)
  BY ZenonT(30)
     DEF Single!Total, Single!FoldSet, Single!MapThenFoldSet, SpentOf, Sums, SumsOf, SumStep, First
<1>3. Single!Total(LAMBDA q : q.turns)' = TurnsOf(profiles')
  BY ZenonT(30)
     DEF Single!Total, Single!FoldSet, Single!MapThenFoldSet, TurnsOf, Sums, SumsOf, SumStep, First
<1>4. Single!Total(LAMBDA q : q.seconds)' = SpentOf(profiles')
  BY ZenonT(30)
     DEF Single!Total, Single!FoldSet, Single!MapThenFoldSet, SpentOf, Sums, SumsOf, SumStep, First
<1>5. QED
  BY <1>1, <1>2, <1>3, <1>4

\* How far p is from the means of the profiles P.
Far(P, p) ==
  Single!Distance(p.turns, TurnsOf(P), Cardinality(P))
    * (IF SpentOf(P) = 0 THEN 1 ELSE SpentOf(P))
  + Single!Distance(p.seconds, SpentOf(P), Cardinality(P)) * TurnsOf(P)

(* This is what is scored, before a step and after it.                     *)
LEMMA ScoreIs ==
  ASSUME NEW p
  PROVE  Single!Score(p) = Far(profiles, p) /\ Single!Score(p)' = Far(profiles', p)
<1>1. Single!Score(p) = Far(profiles, p)
  BY TotalsAre, SameCardinality DEF Single!Score, Far, Single!Total, Single!FoldSet,
     Single!MapThenFoldSet
<1>2. Single!Score(p)' = Far(profiles', p)
  BY TotalsAre, SameCardinality DEF Single!Score, Far, Single!Total, Single!FoldSet,
     Single!MapThenFoldSet
<1>3. QED
  BY <1>1, <1>2

(* Who is best depends on the profiles alone.                              *)
LEMMA SameBest ==
  ASSUME UNCHANGED profiles, NEW p
  PROVE  Single!Best(p)' <=> Single!Best(p)
<1>1. \A q : Single!Score(q)' = Single!Score(q)
  BY ScoreIs
<1>2. QED
  BY <1>1 DEF Single!Best

(* Every turn, failure, choice and end preserves the invariant.            *)
LEMMA SingleStep ==
  ASSUME SingleInv, Single!SingleNext \/ UNCHANGED singleVars
  PROVE  SingleInv'
<1>1. CASE Single!Answered
  <2> DEFINE id == Head(catalog)
             p == [id |-> id, turns |-> turn, seconds |-> seconds + trace[id][turn]]
  <2>1. /\ exit = "" /\ catalog # <<>> /\ UNCHANGED <<trace, failures, representative, lent, stageDir, exit>>
        /\ representative = {}
    BY <1>1 DEF Single!Answered, SingleInv
  <2>2. PICK t \in Seq(Nat) : t = trace[id] /\ turn \in 1 .. Len(t) /\ seconds = SecondsOf(t, turn - 1)
    <3>1. id \in Single!Instance
      BY <2>1, CatalogTail
    <3>2. trace[id] \in Seq(Nat)
      BY <3>1 DEF SingleInv
    <3>3. turn <= Len(trace[id]) /\ seconds = SecondsOf(trace[id], turn - 1) /\ turn \in Nat \ {0}
      BY <2>1 DEF SingleInv
    <3>4. QED
      BY <3>2, <3>3
  <2>3. seconds + trace[id][turn] = SecondsOf(t, turn)
    BY <2>2, SecondsAdd
  <2>4. CASE turn = Len(trace[id])
    <3>1. profiles' = profiles \cup {p} /\ Single!NextInstance
      BY <1>1, <2>4 DEF Single!Answered
    <3>2. p.id = id /\ p = [id |-> p.id, turns |-> Len(trace[p.id]),
                            seconds |-> SecondsOf(trace[p.id], Len(trace[p.id]))]
      BY <2>2, <2>3, <2>4
    <3> HIDE DEF p
    <3>3. Profiled' = Profiled \cup {id}
      BY <3>1, <3>2 DEF Profiled
    <3>4. /\ catalog' \in Seq(Single!Instance) /\ Distinct(catalog') /\ (turn \in Nat \ {0})'
          /\ (catalog # <<>> => /\ turn <= Len(trace[Head(catalog)])
                               /\ seconds = SecondsOf(trace[Head(catalog)], turn - 1))'
          /\ Range(catalog) = Range(catalog') \cup {id} /\ id \notin Range(catalog')
      BY <2>1, <3>1, NextInstanceKeeps
    <3>5. IsFiniteSet(profiles')
      BY <3>1, FS_AddElement DEF SingleInv
    <3>6. id \in Single!Instance
      BY <2>1, CatalogTail
    <3> HIDE DEF id
    <3>7. \A q \in profiles' :
            /\ q.id \in Single!Instance
            /\ q = [id |-> q.id, turns |-> Len(trace'[q.id]),
                    seconds |-> SecondsOf(trace'[q.id], Len(trace'[q.id]))]
      BY <2>1, <3>1, <3>2, <3>6 DEF SingleInv
    <3>8. /\ (Profiled \cap failures)' = {}
          /\ (Range(catalog) \cap (Profiled \cup failures))' = {}
          /\ (Profiled \cup failures \cup Range(catalog))' = Single!Instance
      BY <2>1, <3>3, <3>4 DEF SingleInv
    <3>9. QED
      BY <2>1, <3>4, <3>5, <3>7, <3>8 DEF SingleInv, SecondsOf
  <2>5. CASE turn # Len(trace[id])
    <3>1. turn' = turn + 1 /\ seconds' = seconds + trace[id][turn] /\ UNCHANGED <<profiles, catalog>>
      BY <1>1, <2>5 DEF Single!Answered
    <3>2. turn' \in Nat \ {0} /\ turn' <= Len(t) /\ turn' - 1 = turn
      BY <2>2, <2>5, <3>1
    <3>3. QED
      BY <2>1, <2>2, <2>3, <3>1, <3>2 DEF SingleInv, SecondsOf, Profiled
  <2>6. QED
    BY <2>4, <2>5
<1>2. CASE Single!ProfileFails
  <2> DEFINE id == Head(catalog)
  <2>1. /\ exit = "" /\ catalog # <<>> /\ UNCHANGED <<trace, profiles, representative, lent, exit>>
        /\ representative = {} /\ failures' = failures \cup {id} /\ Single!NextInstance
    BY <1>2 DEF Single!ProfileFails, SingleInv
  <2>2. /\ catalog' \in Seq(Single!Instance) /\ Distinct(catalog') /\ (turn \in Nat \ {0})'
        /\ (catalog # <<>> => /\ turn <= Len(trace[Head(catalog)])
                             /\ seconds = SecondsOf(trace[Head(catalog)], turn - 1))'
        /\ Range(catalog) = Range(catalog') \cup {id} /\ id \notin Range(catalog')
    BY <2>1, NextInstanceKeeps
  <2>3. id \in Single!Instance
    BY <2>1, CatalogTail
  <2> HIDE DEF id
  <2>4. Profiled' = Profiled
    BY <2>1 DEF Profiled
  <2>5. /\ failures' \subseteq Single!Instance /\ (Profiled \cap failures)' = {}
        /\ (Range(catalog) \cap (Profiled \cup failures))' = {}
        /\ (Profiled \cup failures \cup Range(catalog))' = Single!Instance
    BY <2>1, <2>2, <2>3, <2>4 DEF SingleInv
  <2>6. QED
    BY <2>1, <2>2, <2>5 DEF SingleInv, SecondsOf
<1>3. CASE Single!Choose
  <2>1. /\ exit = "" /\ catalog = <<>> /\ representative = {}
        /\ UNCHANGED <<trace, catalog, turn, seconds, profiles, failures>>
    BY <1>3 DEF Single!Choose
  <2>2. /\ representative' = IF profiles = {} THEN {} ELSE {p \in profiles : Single!Best(p)}
        /\ exit' \in {"", "profile", "migration", "output"} /\ (exit' # "" => ~lent')
    <3>1. \E midpoint, atTurn, target, exists \in BOOLEAN :
            /\ exit' = IF Single!Refused(midpoint, atTurn, target) = "" /\ exists THEN "output"
                       ELSE Single!Refused(midpoint, atTurn, target)
            /\ lent' = (exit' = "")
      <4>1. PICK midpoint, atTurn, target, bound, exists \in BOOLEAN :
              LET why == Single!Refused(midpoint, atTurn, target)
                  refused == IF why = "" /\ exists THEN "output" ELSE why
              IN /\ exit' = refused
                 /\ representative' = IF profiles = {} THEN {} ELSE {p \in profiles : Single!Best(p)}
                 /\ lent' = (refused = "")
                 /\ stageDir' = IF refused = "" /\ (midpoint \/ atTurn \/ target \/ bound)
                                THEN "unknown option" ELSE stageDir
        BY <1>3, Zenon DEF Single!Choose
      <4>2. QED
        BY <4>1
    <3>4. representative' = IF profiles = {} THEN {} ELSE {p \in profiles : Single!Best(p)}
      BY <1>3 DEF Single!Choose
    <3>2. \A midpoint, atTurn, target \in BOOLEAN :
            Single!Refused(midpoint, atTurn, target) \in {"", "profile", "migration"}
      BY DEF Single!Refused
    <3>3. exit' \in {"", "profile", "migration", "output"} /\ (exit' # "" => ~lent')
      <4>1. PICK midpoint, atTurn, target, exists \in BOOLEAN :
              /\ exit' = IF Single!Refused(midpoint, atTurn, target) = "" /\ exists THEN "output"
                         ELSE Single!Refused(midpoint, atTurn, target)
              /\ lent' = (exit' = "")
        BY <3>1
      <4>2. PICK why : why = Single!Refused(midpoint, atTurn, target)
        OBVIOUS
      <4>3. why \in {"", "profile", "migration"}
        BY <3>2, <4>2
      <4>4. exit' \in {"", "profile", "migration", "output"}
        BY <4>1, <4>2, <4>3
      <4>5. exit' # "" => ~lent'
        BY <4>1
      <4>6. QED
        BY <4>4, <4>5
    <3>5. QED
      BY <3>3, <3>4
  <2>3. \A p : Single!Best(p)' <=> Single!Best(p)
    BY <2>1, SameBest
  <2>4. (representative # {} =>
           /\ catalog = <<>> /\ profiles # {} /\ exit # "catalog"
           /\ representative = {p \in profiles : Single!Best(p)})'
    BY <2>1, <2>2, <2>3
  <2>5. QED
    BY <2>1, <2>2, <2>4 DEF SingleInv, SecondsOf, Profiled
<1>4. ASSUME UNCHANGED <<trace, catalog, turn, seconds, profiles, failures, representative>>,
             exit' # "" => ~lent', exit = "catalog" <=> exit' = "catalog"
      PROVE  SingleInv'
  <2>1. \A p : Single!Best(p)' <=> Single!Best(p)
    BY <1>4, SameBest
  <2>2. QED
    BY <1>4, <2>1 DEF SingleInv, SecondsOf, Profiled
<1>5. CASE Single!ScaleReturns \/ Single!ScaleRaises
  <2>1. lent /\ exit # "catalog"
    BY <1>5 DEF Single!ScaleReturns, Single!Returns, Single!ScaleRaises, SingleInv
  <2>2. /\ UNCHANGED <<trace, catalog, turn, seconds, profiles, failures, representative>>
        /\ lent' = FALSE /\ exit' # "catalog"
    BY <1>5 DEF Single!ScaleReturns, Single!Returns, Single!ScaleRaises
  <2>3. QED
    BY <1>4, <2>1, <2>2
<1>6. CASE UNCHANGED singleVars
  BY <1>4, <1>6 DEF SingleInv, singleVars
<1>7. QED
  BY <1>1, <1>2, <1>3, <1>5, <1>6 DEF Single!SingleNext

(* The sum of a trace that RepresentativeIsRun speaks of.                  *)
LEMMA SecondsAreSum ==
  ASSUME NEW t, DOMAIN t = 1 .. Len(t)
  PROVE  Single!FoldSeq(LAMBDA s, sum : s + sum, 0, t) = SecondsOf(t, Len(t))
<1>1. Single!FoldSeq(LAMBDA s, sum : s + sum, 0, t) = Sums(t, DOMAIN t)[DOMAIN t]
  BY DEF Single!FoldSeq, Single!FoldFunction, Single!FoldFunctionOnSet,
     Single!MapThenFoldSet, Sums, SumsOf, SumStep, First
<1>2. QED
  BY <1>1 DEF SecondsOf

(* A profile, field by field.                                              *)
LEMMA ProfileIs ==
  ASSUME SingleInv, NEW p \in profiles
  PROVE  /\ p.id \in Single!Instance /\ p.turns = Len(trace[p.id])
         /\ p.seconds = SecondsOf(trace[p.id], Len(trace[p.id]))
<1>1. p.id \in Single!Instance
  BY DEF SingleInv
<1>2. PICK i, n, s : /\ p = [id |-> i, turns |-> n, seconds |-> s] /\ i = p.id
                     /\ n = Len(trace[p.id]) /\ s = SecondsOf(trace[p.id], Len(trace[p.id]))
  BY DEF SingleInv
<1>3. p.turns = n /\ p.seconds = s
  BY <1>2
<1>4. QED
  BY <1>1, <1>2, <1>3, Zenon

(* Numbers of turns and seconds, and what they add up to.                  *)
LEMMA ProfilesAre ==
  ASSUME SingleInv
  PROVE  /\ Cardinality(profiles) \in Nat
         /\ TurnsOf(profiles) \in Nat /\ SpentOf(profiles) \in Nat
         /\ profiles # {} => TurnsOf(profiles) > 0
         /\ \A p \in profiles : p.id \in Nat /\ p.turns \in Nat /\ p.seconds \in Nat
         /\ \A p, q \in profiles : p.id = q.id => p = q
<1> DEFINE P == profiles
           turns == [q \in P |-> q.turns]
           spent == [q \in P |-> q.seconds]
<1>1. ASSUME NEW p \in P
      PROVE  p.id \in Nat /\ p.turns \in Nat /\ p.turns > 0 /\ p.seconds \in Nat
  <2>1. p.id \in Single!Instance /\ p.turns = Len(trace[p.id])
        /\ p.seconds = SecondsOf(trace[p.id], Len(trace[p.id]))
    BY ProfileIs
  <2>2. PICK t \in Seq(Nat) : t = trace[p.id] /\ t # <<>>
    BY <2>1 DEF SingleInv
  <2>3. Len(t) \in Nat /\ Len(t) > 0 /\ Len(t) \in 1 .. Len(t)
    BY <2>2
  <2>4. SecondsOf(t, Len(t)) \in Nat
    BY <2>3, SecondsAdd
  <2>5. QED
    BY <2>1, <2>2, <2>3, <2>4 DEF Single!Instance
<1>2. IsFiniteSet(P) /\ Cardinality(P) \in Nat
  BY FS_CardinalityType DEF SingleInv
<1>3. \A p, q \in P : p.id = q.id => p = q
  BY DEF SingleInv
<1>4. turns \in [P -> Nat] /\ spent \in [P -> Nat] /\ \A p \in P : turns[p] = p.turns
  BY <1>1
<1> HIDE DEF P, turns, spent
<1>5. Sums(turns, P)[P] \in Nat /\ Sums(spent, P)[P] \in Nat
  BY <1>2, <1>4, SumsAreNat
<1>6. ASSUME P # {}
      PROVE  Sums(turns, P)[P] > 0
  <2>1. PICK p \in P : TRUE
    BY <1>6
  <2>2. turns[p] <= Sums(turns, P)[P] /\ turns[p] > 0 /\ turns[p] \in Nat
    BY <1>1, <1>2, <1>4, <2>1, SumsBound
  <2>3. QED
    BY <1>5, <2>2
<1>7. QED
  BY <1>1, <1>2, <1>3, <1>5, <1>6 DEF TurnsOf, SpentOf, P, turns, spent

(* Distances are numbers.                                                  *)
LEMMA DistanceIsNat ==
  ASSUME NEW value \in Nat, NEW sum \in Nat, NEW n \in Nat
  PROVE  Single!Distance(value, sum, n) \in Nat
<1>1. PICK m \in Nat : m = n * value
  OBVIOUS
<1>2. QED
  BY <1>1 DEF Single!Distance

(* A weighed sum is greater when one summand is and none is less.          *)
LEMMA Heavier ==
  ASSUME NEW a \in Nat, NEW b \in Nat, NEW c \in Nat, NEW d \in Nat,
         NEW u \in Nat, NEW v \in Nat, u > 0, a < c, b <= d
  PROVE  a * u + b * v < c * u + d * v
<1>1. a * u < c * u
  <2>1. PICK e \in Nat : c = a + e /\ e > 0
    <3>1. c - a \in Nat /\ c = a + (c - a) /\ c - a > 0
      OBVIOUS
    <3>2. QED
      BY <3>1
  <2>2. c * u = a * u + e * u
    BY <2>1
  <2>3. e * u > 0 /\ e * u \in Nat /\ a * u \in Nat
    BY <2>1
  <2>4. QED
    BY <2>2, <2>3
<1>2. b * v <= d * v
  <2>1. PICK e \in Nat : d = b + e
    <3>1. d - b \in Nat /\ d = b + (d - b)
      OBVIOUS
    <3>2. QED
      BY <3>1
  <2>2. d * v = b * v + e * v
    BY <2>1
  <2>3. e * v \in Nat /\ b * v \in Nat
    BY <2>1
  <2>4. QED
    BY <2>2, <2>3
<1>3. a * u \in Nat /\ b * v \in Nat /\ c * u \in Nat /\ d * v \in Nat
  OBVIOUS
<1>4. QED
  BY <1>1, <1>2, <1>3

(* Of the profiles one is best, and one only.                              *)
LEMMA OneIsBest ==
  ASSUME SingleInv, profiles # {}
  PROVE  \E p \in profiles : {q \in profiles : Single!Best(q)} = {p}
<1>1. \A p \in profiles : p.id \in Nat /\ Single!Score(p) \in Nat
  <2>1. SUFFICES ASSUME NEW p \in profiles
                 PROVE  p.id \in Nat /\ Single!Score(p) \in Nat
    OBVIOUS
  <2>2. PICK a \in Nat, b \in Nat : a = Single!Distance(p.turns, TurnsOf(profiles), Cardinality(profiles))
          /\ b = Single!Distance(p.seconds, SpentOf(profiles), Cardinality(profiles))
    BY ProfilesAre, DistanceIsNat
  <2>3. PICK u \in Nat, v \in Nat : u = (IF SpentOf(profiles) = 0 THEN 1 ELSE SpentOf(profiles))
                                     /\ v = TurnsOf(profiles)
    BY ProfilesAre
  <2>4. Single!Score(p) = a * u + b * v
    BY <2>2, <2>3, ScoreIs DEF Far
  <2>5. a * u + b * v \in Nat
    OBVIOUS
  <2>6. QED
    BY <2>4, <2>5, ProfilesAre
<1> DEFINE score == [p \in profiles |-> Single!Score(p)]
           Scores == {score[p] : p \in profiles}
<1>2. \A p \in profiles : score[p] = Single!Score(p) /\ score[p] \in Nat
  BY <1>1
<1> HIDE DEF score
<1>3. PICK m \in Scores : \A n \in Scores : m <= n
  <2>1. Scores \in SUBSET Nat /\ Scores # {}
    BY <1>2
  <2> HIDE DEF Scores
  <2>2. QED
    BY <2>1, LeastNumber
<1> DEFINE Ids == {p.id : p \in {q \in profiles : score[q] = m}}
<1>4. PICK i \in Ids : \A j \in Ids : i <= j
  <2>1. Ids \in SUBSET Nat /\ Ids # {}
    BY <1>1, <1>3
  <2> HIDE DEF Ids
  <2>2. QED
    BY <2>1, LeastNumber
<1>5. PICK p \in profiles : p.id = i /\ score[p] = m
  BY <1>4
<1>6. ASSUME NEW q \in profiles
      PROVE  score[p] < score[q] \/ (score[p] = score[q] /\ p.id <= q.id)
  <2>1. score[p] <= score[q] /\ (score[q] = m => p.id <= q.id)
    BY <1>3, <1>4, <1>5
  <2>2. QED
    BY <1>2, <1>5, <2>1
<1>7. Single!Best(p)
  BY <1>2, <1>6 DEF Single!Best
<1>8. ASSUME NEW q \in profiles, Single!Best(q)
      PROVE  q = p
  <2>1. score[q] < score[p] \/ (score[q] = score[p] /\ q.id <= p.id)
    BY <1>2, <1>8 DEF Single!Best
  <2>2. q.id = p.id
    BY <1>1, <1>2, <1>6, <2>1
  <2>3. QED
    BY <2>2, ProfilesAre
<1>9. QED
  BY <1>7, <1>8

(* The best is not farther in one respect without being nearer in the      *)
(* other.                                                                  *)
LEMMA NoneIsNearer ==
  ASSUME SingleInv, NEW p \in profiles, Single!Best(p), NEW q \in profiles
  PROVE  /\ Single!Apart(q.turns, TurnsOf(profiles)) < Single!Apart(p.turns, TurnsOf(profiles)) =>
               Single!Apart(q.seconds, SpentOf(profiles)) > Single!Apart(p.seconds, SpentOf(profiles))
         /\ Single!Apart(q.seconds, SpentOf(profiles)) < Single!Apart(p.seconds, SpentOf(profiles)) =>
               Single!Apart(q.turns, TurnsOf(profiles)) > Single!Apart(p.turns, TurnsOf(profiles))
<1>1. PICK a \in Nat, b \in Nat, c \in Nat, d \in Nat :
        /\ a = Single!Distance(q.turns, TurnsOf(profiles), Cardinality(profiles))
        /\ b = Single!Distance(q.seconds, SpentOf(profiles), Cardinality(profiles))
        /\ c = Single!Distance(p.turns, TurnsOf(profiles), Cardinality(profiles))
        /\ d = Single!Distance(p.seconds, SpentOf(profiles), Cardinality(profiles))
  BY ProfilesAre, DistanceIsNat
<1>2. PICK u \in Nat, v \in Nat : /\ u = (IF SpentOf(profiles) = 0 THEN 1 ELSE SpentOf(profiles))
                                  /\ v = TurnsOf(profiles) /\ u > 0 /\ v > 0
  BY ProfilesAre
<1>3. Single!Score(q) = a * u + b * v /\ Single!Score(p) = c * u + d * v
  BY <1>1, <1>2, ScoreIs DEF Far
<1>4. ~(a * u + b * v < c * u + d * v)
  <2>1. PICK x \in Nat, y \in Nat : x = a * u + b * v /\ y = c * u + d * v
    OBVIOUS
  <2>2. y < x \/ y = x
    BY <1>3, <2>1 DEF Single!Best
  <2>3. ~(x < y)
    BY <2>2
  <2>4. QED
    BY <2>1, <2>3
<1>5. a < c => b > d
  <2>1. a < c /\ b <= d => a * u + b * v < c * u + d * v
    BY <1>2, Heavier
  <2>2. QED
    BY <1>4, <2>1
<1>6. b < d => a > c
  <2>1. b < d /\ a <= c => b * v + a * u < d * v + c * u
    BY <1>2, Heavier
  <2>2. b * v + a * u = a * u + b * v /\ d * v + c * u = c * u + d * v
    OBVIOUS
  <2>3. QED
    BY <1>4, <2>1, <2>2
<1>7. QED
  BY <1>1, <1>5, <1>6, SameCardinality DEF Single!Apart

(* So the instance that is run is the one that was to be.                  *)
LEMMA SinglePromise == SingleInv => Single!RepresentativeIsRun
<1> SUFFICES ASSUME SingleInv
             PROVE  Single!RepresentativeIsRun
  OBVIOUS
<1>1. ASSUME representative # {}
      PROVE  /\ Single!Cardinality(representative) = 1
             /\ {p.id : p \in profiles} \cup failures = Single!Instance
  <2>1. PICK p \in profiles : representative = {p}
    BY <1>1, OneIsBest DEF SingleInv
  <2>2. Cardinality(representative) = 1
    BY <2>1, FS_Singleton
  <2>3. Range(catalog) = {}
    <3>1. catalog = <<>>
      BY <1>1 DEF SingleInv
    <3>2. DOMAIN <<>> = {}
      OBVIOUS
    <3>3. QED
      BY <3>1, <3>2 DEF Range
  <2>4. QED
    BY <1>1, <2>2, <2>3, SameCardinality DEF SingleInv, Profiled
<1>2. ASSUME NEW p \in representative, NEW q \in profiles
      PROVE  LET turns == Single!Total(LAMBDA r : r.turns)
                 spent == Single!Total(LAMBDA r : r.seconds)
             IN /\ Single!Apart(q.turns, turns) < Single!Apart(p.turns, turns) =>
                     Single!Apart(q.seconds, spent) > Single!Apart(p.seconds, spent)
                /\ Single!Apart(q.seconds, spent) < Single!Apart(p.seconds, spent) =>
                     Single!Apart(q.turns, turns) > Single!Apart(p.turns, turns)
  <2>1. p \in profiles /\ Single!Best(p)
    BY <1>2 DEF SingleInv
  <2>2. PICK turns, spent : turns = TurnsOf(profiles) /\ spent = SpentOf(profiles)
    OBVIOUS
  <2>3. Single!Total(LAMBDA r : r.turns) = turns /\ Single!Total(LAMBDA r : r.seconds) = spent
    BY <2>2, TotalsAre
  <2>4. /\ Single!Apart(q.turns, turns) < Single!Apart(p.turns, turns) =>
             Single!Apart(q.seconds, spent) > Single!Apart(p.seconds, spent)
        /\ Single!Apart(q.seconds, spent) < Single!Apart(p.seconds, spent) =>
             Single!Apart(q.turns, turns) > Single!Apart(p.turns, turns)
    BY <2>1, <2>2, NoneIsNearer
  <2>5. QED
    BY <2>3, <2>4 DEF Single!Total, Single!FoldSet, Single!MapThenFoldSet
<1>3. {p.id : p \in profiles} \cap failures = {}
  BY DEF SingleInv, Profiled
<1>4. ASSUME NEW p \in profiles
      PROVE  /\ p.turns = Len(trace[p.id])
             /\ p.seconds = Single!FoldSeq(LAMBDA s, sum : s + sum, 0, trace[p.id])
  <2>1. p.id \in Single!Instance /\ p.turns = Len(trace[p.id])
        /\ p.seconds = SecondsOf(trace[p.id], Len(trace[p.id]))
    BY ProfileIs
  <2>2. trace[p.id] \in Seq(Nat)
    BY <2>1 DEF SingleInv
  <2>3. PICK t : t = trace[p.id] /\ DOMAIN t = 1 .. Len(t)
    BY <2>2
  <2>4. Single!FoldSeq(LAMBDA s, sum : s + sum, 0, t) = SecondsOf(t, Len(t))
    BY <2>3, SecondsAreSum
  <2>5. QED
    BY <2>1, <2>3, <2>4 DEF Single!FoldSeq, Single!FoldFunction, Single!FoldFunctionOnSet,
     Single!MapThenFoldSet
<1>5. exit # "" => ~lent
  BY DEF SingleInv
<1>6. QED
  BY <1>1, <1>2, <1>3, <1>4, <1>5 DEF Single!RepresentativeIsRun, Single!Total, Single!FoldSet,
     Single!FoldSeq, Single!FoldFunction, Single!FoldFunctionOnSet, Single!MapThenFoldSet

-----------------------------------------------------------------------------
(* The controller of request-driven tiering only demotes a sandbox that    *)
(* has been without a request for long enough, whatever happens between    *)
(* the passes and within them.                                             *)
THEOREM OnlyIdleAreDemoted == ToolsSpec => DemotesIdle
<1>1. ToolsInit => TppInv
  BY TppInitInv DEF ToolsInit
<1>2. TppInv /\ [ToolsNext]_toolsVars => TppInv'
  BY OneTool, TppStep
<1>3. TppInv /\ [ToolsNext]_toolsVars =>
        [\A s \in Sandboxes :
           chosen = Nobody /\ chosen' = s /\ pass = "demote" =>
             /\ clock - asked[s] >= IdleTime
             /\ clock - lastRequest[s] >= IdleTime
             /\ asked[s] > 0 \/ prompted[s] > 0]_tppVars
  BY OneTool, DemotesOnlyIdle
<1>4. QED
  BY <1>1, <1>2, <1>3, PTL DEF ToolsSpec, DemotesIdle

(* The memory that the node trace reports of a span is what was seen while *)
(* it was open, but for the one reading that the sampler had in its hands  *)
(* at either side, in every interleaving of spans and sampler and with     *)
(* writes that fail; a span goes without a sampler only after one could    *)
(* not be started.                                                         *)
THEOREM PeaksAreReported == ToolsSpec => []PeaksAreSeen
<1>1. ToolsInit => NodeInv
  BY NodeInitInv DEF ToolsInit
<1>2. NodeInv /\ [ToolsNext]_toolsVars => NodeInv'
  BY OneTool, NodeStep
<1>3. NodeInv => PeaksAreSeen
  BY NodePromise DEF PeaksAreSeen
<1>4. QED
  BY <1>1, <1>2, <1>3, PTL DEF ToolsSpec

(* The process sampler pairs starts and exits, in every interleaving with  *)
(* the processes that it watches.                                          *)
THEOREM ProcessesAreReported == ToolsSpec => []ProcessesArePaired
<1>1. ToolsInit => SamplerInv
  BY SamplerInitInv DEF ToolsInit
<1>2. SamplerInv /\ [ToolsNext]_toolsVars => SamplerInv'
  BY OneTool, SamplerStep
<1>3. SamplerInv => ProcessesArePaired
  BY SamplerPromise DEF ProcessesArePaired
<1>4. QED
  BY <1>1, <1>2, <1>3, PTL DEF ToolsSpec

(* The sampling loop reports the CPU time that the processes have used, in *)
(* every interleaving with them.                                           *)
THEOREM CpuTimeIsReported == ToolsSpec => []CpuTimeAddsUp
<1>1. ToolsInit => CapacityInv
  BY CapacityInitInv DEF ToolsInit
<1>2. CapacityInv /\ [ToolsNext]_toolsVars => CapacityInv'
  BY OneTool, CapacityStep
<1>3. CapacityInv => CpuTimeAddsUp
  BY CapacityPromise DEF CpuTimeAddsUp
<1>4. QED
  BY <1>1, <1>2, <1>3, PTL DEF ToolsSpec

(* The single-instance experiment runs the instance nearest to the means   *)
(* of what it profiled, whichever requests fail and however the run ends.  *)
THEOREM TheNearestIsRun == ToolsSpec => []NearestIsRun
<1>1. ToolsInit => SingleInv
  BY SingleInitInv DEF ToolsInit
<1>2. SingleInv /\ [ToolsNext]_toolsVars => SingleInv'
  BY OneTool, SingleStep
<1>3. SingleInv => NearestIsRun
  BY SinglePromise DEF NearestIsRun
<1>4. QED
  BY <1>1, <1>2, <1>3, PTL DEF ToolsSpec
=============================================================================
