--------------------------- MODULE LaunchSchedule ---------------------------
(***************************************************************************)
(* From recorded prompts to the admission of VMs.                          *)
(* build_azure_launch_schedule.py reads the prompts of daily archives,     *)
(* turns them into gaps between the prompts of one session, draws gaps     *)
(* with replacement and writes a schedule; load_admission_schedule         *)
(* (swebench_microvm_scale_experiment.py) checks it before a stage.        *)
(* swebench_verified_microvm_plan.py, the other planner, admits instances  *)
(* batch by batch; its plan is a file of another format.                   *)
(***************************************************************************)
EXTENDS Integers, Sequences, SequencesExt, FiniteSets, Functions

CONSTANTS
  SessionIds,  (* numbers of sessions of the archives                      *)
  TurnIds,     (* numbers of their turns                                   *)
  MaxStart,    (* bound of the prompts' times                              *)
  MaxLines,    (* bound: turn records of an archive                        *)
  Scale,       (* --gap-scale; also --batch-interval-seconds, or 0 is      *)
  MaxPlanned   (* bound: sessions of a schedule                            *)

VARIABLE input   (* what a planner is given                                *)

\* A turn without a user's call, or whose user's calls have no readable time.
Unread == -1

Line == [session : SessionIds, turn : TurnIds, start : 0 .. MaxStart \cup {Unread}]

Archive == UNION {[1 .. n -> Line] : n \in 0 .. MaxLines}

ScheduleInit == input \in [archives : Archive \X Archive]

BatchInit ==
  input \in [ids : UNION {[1 .. n -> TurnIds] : n \in 0 .. MaxPlanned},
            limit : 1 .. MaxPlanned, size : 1 .. MaxPlanned, interval : {0, Scale}]

(***************************************************************************)
(* read_archive and extract_gaps.                                          *)
(***************************************************************************)

Key(line) == <<line.session, line.turn>>

\* One turn record: the first of a turn's records with the earliest start.
Keep(turns, line) ==
  IF \/ line.start = Unread
     \/ Key(line) \in DOMAIN turns /\ turns[Key(line)] <= line.start
  THEN turns
  ELSE [k \in DOMAIN turns \cup {Key(line)} |-> IF k = Key(line) THEN line.start ELSE turns[k]]

ReadArchive(archive) ==
  LET turns[n \in 0 .. Len(archive)] ==
        IF n = 0 THEN [k \in {} |-> 0] ELSE Keep(turns[n - 1], archive[n])
  IN turns[Len(archive)]

Merge(existing, partial) ==
  [k \in DOMAIN existing \cup DOMAIN partial |->
     IF k \in DOMAIN partial /\ (k \in DOMAIN existing => existing[k] > partial[k])
     THEN partial[k]
     ELSE existing[k]]

Turns(archives) ==
  LET turns[n \in 0 .. Len(archives)] ==
        IF n = 0 THEN [k \in {} |-> 0] ELSE Merge(turns[n - 1], ReadArchive(archives[n]))
  IN turns[Len(archives)]

\* The turns of one session, by their start and then their id.
Sorted(turns, session) ==
  LET keys == {k \in DOMAIN turns : k[1] = session}
      before(j, k) == turns[j] < turns[k] \/ (turns[j] = turns[k] /\ j[2] < k[2])
  IN CHOOSE o \in [1 .. Cardinality(keys) -> keys] :
       \A m, n \in DOMAIN o : m < n => before(o[m], o[n])

SessionGaps(turns, session) ==
  LET order == Sorted(turns, session)
  IN [n \in 1 .. Len(order) - 1 |-> turns[order[n + 1]] - turns[order[n]]]

ExtractGaps(archives) ==
  LET turns == Turns(archives)
      order == CHOOSE o \in [1 .. Cardinality(SessionIds) -> SessionIds] :
                 \A m, n \in DOMAIN o : m < n => o[m] < o[n]
  IN FlattenSeq([n \in DOMAIN order |-> SessionGaps(turns, order[n])])

(***************************************************************************)
(* make_schedule and load_admission_schedule.                              *)
(***************************************************************************)

\* main refuses an empty pool and a negative gap.
Usable(values) == values # <<>> /\ \A n \in DOMAIN values : values[n] >= 0

\* draws are the random indices, one for each session but the first.
MakeSchedule(values, draws, scale) ==
  LET offset[n \in 1 .. Len(draws) + 1] ==
        IF n = 1 THEN 0 ELSE offset[n - 1] + values[draws[n - 1]] * scale
  IN [format |-> "schedule_v1",
      sessions |-> [n \in 1 .. Len(draws) + 1 |-> [session |-> n, launchOffset |-> offset[n]]]]

LoadAdmissionSchedule(file, count) ==
  /\ "format" \in DOMAIN file /\ file.format = "schedule_v1"
  /\ "sessions" \in DOMAIN file
  /\ LET rows == file.sessions
     IN /\ Len(rows) = count
        /\ \A n \in DOMAIN rows :
             /\ rows[n].session = n
             /\ "launchOffset" \in DOMAIN rows[n]
             /\ rows[n].launchOffset >= 0
             /\ n > 1 => rows[n].launchOffset >= rows[n - 1].launchOffset
        /\ rows[1].launchOffset = 0

(***************************************************************************)
(* swebench_verified_microvm_plan.py.                                      *)
(***************************************************************************)

\* load_instances refuses a list that is empty or names an instance twice.
LoadInstances(ids) == ids # <<>> /\ IsInjective(ids)

AdmissionBatches(ids, maxInstances, size, interval) ==
  LET count == IF Len(ids) < maxInstances THEN Len(ids) ELSE maxInstances
  IN [tenantSessions |->
        [n \in 1 .. count |-> [session |-> n, instance |-> ids[n],
                              batch |-> (n - 1) \div size + 1,
                              admitAt |-> ((n - 1) \div size) * interval]]]

(***************************************************************************)
(* Properties.                                                             *)
(***************************************************************************)

\* Every schedule that build_azure_launch_schedule.py writes, whatever the
\* archives hold and whichever gaps are drawn, is one that an experiment with as
\* many sessions accepts and no other does.
ScheduleAccepted ==
  LET values == ExtractGaps(input.archives)
  IN Usable(values) =>
       \A count \in 1 .. MaxPlanned : \A draws \in [1 .. count - 1 -> DOMAIN values] :
         LET file == MakeSchedule(values, draws, Scale)
         IN \A sessions \in 1 .. MaxPlanned :
              LoadAdmissionSchedule(file, sessions) <=> sessions = count

\* The batches of swebench_verified_microvm_plan.py admit every instance of the
\* list up to the limit once and in its order, one batch at a time and an
\* interval, which may be 0, after the one before: no batch has more instances
\* than its size, and none but the last has less.  The plan is for a reader, not
\* for the experiment, which refuses the file as a schedule.
BatchesInOrder ==
  LET file == AdmissionBatches(input.ids, input.limit, input.size, input.interval)
      rows == file.tenantSessions
      batch(b) == {n \in DOMAIN rows : rows[n].batch = b}
  IN LoadInstances(input.ids) =>
       /\ IsPrefix([n \in DOMAIN rows |-> rows[n].instance], input.ids)
       /\ Len(rows) < input.limit => Len(rows) = Len(input.ids)
       /\ \A n \in DOMAIN rows :
            /\ Cardinality(batch(rows[n].batch)) <= input.size
            /\ rows[n].batch > 1 => Cardinality(batch(rows[n].batch - 1)) = input.size
            /\ rows[n].admitAt = (rows[n].batch - 1) * input.interval
       /\ \A sessions \in 1 .. MaxPlanned : ~LoadAdmissionSchedule(file, sessions)

\* The gaps do not depend on how the records are spread over the archives,
\* and each one lies between two prompts of one session: together those of a
\* session span the time from its first prompt to its last, one gap fewer
\* than it has turns.
GapsObserved ==
  LET turns == Turns(input.archives)
      starts(s) == {turns[k] : k \in {j \in DOMAIN turns : j[1] = s}}
      sum(seq) == FoldLeft(+, 0, seq)
  IN /\ ExtractGaps(input.archives) = ExtractGaps(<<FlattenSeq(input.archives)>>)
     /\ \A s \in SessionIds : starts(s) # {} =>
          /\ Len(SessionGaps(turns, s)) + 1 = Cardinality({k \in DOMAIN turns : k[1] = s})
          /\ sum(SessionGaps(turns, s)) =
               (CHOOSE t \in starts(s) : \A u \in starts(s) : u <= t)
               - (CHOOSE t \in starts(s) : \A u \in starts(s) : t <= u)

=============================================================================
