----------------------------- MODULE PromptPlan -----------------------------
(***************************************************************************)
(* build_multi_prompt_plan.py: measured replays of one prompt each become  *)
(* sessions of several prompts that should take as long as the measured    *)
(* one.  Some of the turns are kept, the prompts divide them, and users'   *)
(* waits between the prompts fill the time that is left.  Copies of the    *)
(* longer sessions are added when too few come out.                        *)
(***************************************************************************)
EXTENDS Integers, Sequences, SequencesExt, FiniteSets

CONSTANTS
  Instances,   (* instances of the baseline stages                         *)
  Durations,   (* measured durations                                       *)
  Actives,     (* how long a turn may have taken                           *)
  MaxTurns,    (* bound: turns of a session                                *)
  MaxPrompts,  (* --max-prompts                                            *)
  MinWait,     (* --min-wait-seconds                                       *)
  Quarters,    (* --retain-fraction, in quarters                           *)
  MaxLeast     (* bound of --min-sessions and --min-multi-prompt-sessions  *)

VARIABLE input   (* the baselines and the numbers asked for                *)

Unfinished == -1

Baseline == [instance : Instances, duration : Durations \cup {Unfinished},
             rows : UNION {[1 .. n -> Actives] : n \in 0 .. MaxTurns}]

\* One baseline of any kind, or two of either instance, each of up to three turns
\* that take the same time.
PromptInit ==
  LET short == {base \in Baseline : Len(base.rows) <= 3 /\ Cardinality(Range(base.rows)) <= 1}
  IN input \in [baselines : {<<base>> : base \in Baseline} \cup short \X short,
               least : {0, MaxLeast}, leastMulti : {0, MaxLeast}, multiOnly : BOOLEAN]

(***************************************************************************)
(* One session.                                                            *)
(***************************************************************************)

\* round(a / b): to the nearest integer, of two the even one.
Round(a, b) ==
  LET q == a \div b
      twice == 2 * (a % b)
  IN IF twice > b \/ (twice = b /\ q % 2 = 1) THEN q + 1 ELSE q

\* The turns kept, counted from 1.
SpacedIndices(length, count) ==
  IF count = 1 THEN {1} ELSE {Round(i * (length - 1), count - 1) + 1 : i \in 0 .. count - 1}

Active(rows, kept) == FoldSet(LAMBDA n, total : rows[n] + total, 0, kept)

WantedPrompts(duration) ==
  LET wanted == 1 + Cardinality({t \in {2, 5, 10} : duration >= t})
  IN IF wanted < MaxPrompts THEN wanted ELSE MaxPrompts

KeptCount(length, prompts) ==
  LET share == (length * Quarters + 3) \div 4
      least == IF share > prompts THEN share ELSE prompts
  IN IF prompts = 1 \/ least > length THEN length ELSE least

\* The loop: keep fewer turns while they do not fit, down to one for each
\* prompt, then ask for fewer prompts.
Fit(rows, duration, prompts, count) ==
  LET kept(c) == SpacedIndices(Len(rows), c)
      fits(p, c) == Active(rows, kept(c)) + MinWait * (p - 1) <= duration
      fit[p \in 1 .. prompts, c \in 0 .. count + prompts] ==
        CASE c > p /\ ~fits(p, c) -> fit[p, c - 1]
          [] c <= p /\ ~fits(p, c) /\ p > 1 -> fit[p - 1, IF c > p - 1 THEN c ELSE p - 1]
          [] OTHER -> [prompts |-> p, kept |-> kept(c)]
  IN fit[prompts, count]

\* A session of one prompt keeps every turn.  How the gaps weigh the single
\* waits is left out: together they are what the turns leave of the duration.
PlanSession(base) ==
  LET prompts == WantedPrompts(base.duration)
      fit == Fit(base.rows, base.duration, prompts, KeptCount(Len(base.rows), prompts))
      kept == IF fit.prompts = 1 THEN DOMAIN base.rows ELSE fit.kept
      selected == SetToSortSeq(kept, <)
      n == Len(selected)
      left == base.duration - Active(base.rows, kept)
  IN [instance |-> base.instance, copy |-> 1, duration |-> base.duration, rows |-> base.rows,
      active |-> Active(base.rows, kept),
      waits |-> IF fit.prompts > 1 /\ left > 0 THEN left ELSE 0,
      episodes |-> [p \in 1 .. fit.prompts |->
                      SubSeq(selected, Round((p - 1) * n, fit.prompts) + 1, Round(p * n, fit.prompts))]]

(***************************************************************************)
(* The plan.                                                               *)
(***************************************************************************)

\* The first finished baseline with turns of each instance.
Sources(baselines) ==
  LET usable(n) == baselines[n].duration # Unfinished /\ baselines[n].rows # <<>>
      first(n) == \A m \in 1 .. n - 1 : usable(m) => baselines[m].instance # baselines[n].instance
      chosen == SetToSortSeq({n \in DOMAIN baselines : usable(n) /\ first(n)}, <)
  IN [k \in DOMAIN chosen |-> baselines[chosen[k]]]

IsMulti(session) == Len(session.episodes) > 1

MultiOf(sessions) == SelectSeq(sessions, IsMulti)

\* Variants are copies of the sessions of several prompts, the longest first,
\* in turn.
AddVariants(planned, least, leastMulti) ==
  LET multi == MultiOf(planned)
      longest == SortSeq([n \in DOMAIN multi |-> [n |-> n, s |-> multi[n]]],
                         LAMBDA a, b : \/ a.s.duration > b.s.duration
                                       \/ a.s.duration = b.s.duration /\ a.n < b.n)
      lacking == {0, least - Len(planned), leastMulti - Len(multi)}
      added == CHOOSE n \in lacking : \A k \in lacking : k <= n
      variant(k) == [longest[1 + ((k - 1) % Len(longest))].s EXCEPT !.copy = 2 + ((k - 1) \div Len(longest))]
  IN planned \o [k \in 1 .. added |-> variant(k)]

\* make_plan raises when there is nothing to copy.
Raises(planned) ==
  /\ MultiOf(planned) = <<>>
  /\ Len(planned) < input.least \/ input.leastMulti > 0

Planned == LET sources == Sources(input.baselines)
           IN [n \in DOMAIN sources |-> PlanSession(sources[n])]

Numbered(sessions) == [n \in DOMAIN sessions |-> [number |-> n] @@ sessions[n]]

Plan(planned) ==
  LET all == AddVariants(planned, input.least, input.leastMulti)
  IN Numbered(IF input.multiOnly THEN MultiOf(all) ELSE all)

(***************************************************************************)
(* Properties.                                                             *)
(***************************************************************************)

\* Every session of a plan replays turns of its trace in their order, each one
\* for one prompt, with the first and the last of them; a prompt goes without
\* a turn only if the trace has fewer turns than there are prompts.  A session
\* of several prompts takes exactly as long as was measured, its waits being
\* long enough; one of a single prompt is the whole trace.  Each instance with a
\* finished baseline has a session, the first of these being its trace; copies
\* are spread evenly over the instances with several prompts, none having more
\* than a longer one.  Nothing is planned twice under one name, and as many
\* sessions come out as were asked for.
PlanKeepsDuration ==
  LET planned == Planned
      plan == Plan(planned)
      finished == {n \in DOMAIN input.baselines :
                     /\ input.baselines[n].duration # Unfinished
                     /\ input.baselines[n].rows # <<>>}
      copies(i) == Cardinality({k \in DOMAIN plan : plan[k].instance = plan[i].instance})
  IN ~Raises(planned) =>
       /\ \A s \in Range(plan) :
            LET turns == FlattenSeq(s.episodes)
            IN /\ \A i, j \in DOMAIN turns : i < j => turns[i] < turns[j]
               /\ Len(turns) > 1 => turns[1] = 1 /\ turns[Len(turns)] = Len(s.rows)
               /\ Len(s.rows) >= Len(s.episodes) => \A e \in Range(s.episodes) : e # <<>>
               /\ IF IsMulti(s)
                  THEN /\ s.active + s.waits = s.duration
                       /\ s.waits >= MinWait * (Len(s.episodes) - 1)
                  ELSE Len(turns) = Len(s.rows) /\ s.waits = 0
       /\ \A n \in finished : input.multiOnly \/
            \E i \in DOMAIN plan : plan[i].instance = input.baselines[n].instance
       /\ \A s \in Range(plan) : \E n \in finished :
            /\ \A m \in finished :
                 input.baselines[m].instance = input.baselines[n].instance => n <= m
            /\ input.baselines[n] = [instance |-> s.instance, duration |-> s.duration, rows |-> s.rows]
       /\ \A i, j \in DOMAIN plan : IsMulti(plan[i]) /\ IsMulti(plan[j]) =>
            /\ copies(i) <= copies(j) + 1
            /\ plan[i].duration < plan[j].duration => copies(i) <= copies(j)
       /\ \A i, j \in DOMAIN plan :
            i # j => <<plan[i].instance, plan[i].copy>> # <<plan[j].instance, plan[j].copy>>
       /\ \A i \in DOMAIN plan : plan[i].number = i
       /\ Len(MultiOf(plan)) >= input.leastMulti
       /\ ~input.multiOnly => Len(plan) >= input.least

=============================================================================
