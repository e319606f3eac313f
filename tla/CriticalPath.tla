---------------------------- MODULE CriticalPath ----------------------------
(***************************************************************************)
(* critical_path.py: the steps that explain how long a run took.  Of the   *)
(* spans of execution nodes those that contain another one are left out;   *)
(* of the others, and the calls of the model, it looks for a sequence that *)
(* does not overlap and is as long as possible, by dynamic programming     *)
(* over the spans in the order of their ends.                              *)
(***************************************************************************)
EXTENDS Naturals, Sequences, SequencesExt, FiniteSets

CONSTANTS
  MaxTime,    (* bound of the spans' times                                 *)
  MaxSpans    (* bound: spans of a trace                                   *)

VARIABLE input   (* the spans in the order of execution.jsonl, llm.jsonl   *)

Span == {s \in [kind : {"execution_node", "llm"}, from : 0 .. MaxTime, to : 0 .. MaxTime] :
           s.from <= s.to}

\* read_jsonl reads the nodes first, then the calls.
SpansInit ==
  input \in {s \in UNION {[1 .. n -> Span] : n \in 0 .. MaxSpans} :
               \A i, j \in DOMAIN s : i < j => ~(s[i].kind = "llm" /\ s[j].kind # "llm")}

Duration(s) == s.to - s.from

\* leaf_execution_spans
ContainsChild(spans, n) ==
  \E c \in (DOMAIN spans) \ {n} :
    /\ spans[c].kind = "execution_node"
    /\ spans[n].from <= spans[c].from /\ spans[c].to <= spans[n].to
    /\ spans[n].from < spans[c].from \/ spans[c].to < spans[n].to

CandidateOf(spans) ==
  {n \in DOMAIN spans : spans[n].kind = "llm" \/ ~ContainsChild(spans, n)}

\* candidates.sort: by end, then by start, otherwise stable.
Before(spans, m, n) ==
  \/ spans[m].to < spans[n].to
  \/ /\ spans[m].to = spans[n].to
     /\ \/ spans[m].from < spans[n].from
        \/ spans[m].from = spans[n].from /\ m < n

Sorted(spans) ==
  LET order == CHOOSE o \in SetToSeqs(CandidateOf(spans)) :
                 \A i, j \in DOMAIN o : i < j => Before(spans, o[i], o[j])
  IN [k \in DOMAIN order |-> spans[order[k]]]

\* max(set, key=value): of several the first.
ArgMax(indices, value) ==
  CHOOSE i \in indices : /\ \A j \in indices : value[j] <= value[i]
                         /\ \A j \in indices : value[j] = value[i] => i <= j

\* Mutant of Prior: what ends as the next begins does not come before it.
PriorWithGap(c, n) == {j \in 1 .. n - 1 : c[j].to < c[n].from}

Prior(c, n) == {j \in 1 .. n - 1 : c[j].to <= c[n].from}

\* best: the length of the longest sequence that ends with each candidate.
Best(c) ==
  LET best[n \in DOMAIN c] ==
        LET before == [j \in Prior(c, n) |-> best[j]]
        IN Duration(c[n]) + IF Prior(c, n) = {} THEN 0 ELSE before[ArgMax(Prior(c, n), before)]
  IN best

\* Back from the best end along previous.
Walk(c, best) ==
  LET from[n \in DOMAIN c] ==
        (IF Prior(c, n) = {} THEN <<>> ELSE from[ArgMax(Prior(c, n), best)]) \o <<c[n]>>
  IN IF c = <<>> THEN <<>> ELSE from[ArgMax(DOMAIN c, best)]

CriticalPathOf(spans) == Walk(Sorted(spans), Best(Sorted(spans)))

(***************************************************************************)
(* Properties.                                                             *)
(***************************************************************************)

Total(path) == FoldLeft(LAMBDA sum, s : sum + Duration(s), 0, path)

\* The path is a sequence of candidates of which each begins when the one
\* before has ended; no set of candidates that do not overlap takes longer
\* together; so it is never longer than the run.  A span that is left out has
\* a candidate inside it.
PathIsLongest ==
  LET candidates == CandidateOf(input)
      path == CriticalPathOf(input)
      apart(m, n) == input[m].to <= input[n].from \/ input[n].to <= input[m].from
      chains == {s \in SUBSET candidates : \A m, n \in s : m = n \/ apart(m, n)}
      length(s) == FoldSet(LAMBDA n, sum : sum + Duration(input[n]), 0, s)
  IN /\ \A k \in 1 .. Len(path) - 1 : path[k].to <= path[k + 1].from
     /\ \A k \in DOMAIN path : \E n \in candidates : input[n] = path[k]
     /\ \A s \in chains : length(s) <= Total(path)
     /\ path # <<>> => Total(path) <= path[Len(path)].to - path[1].from
     /\ \A n \in (DOMAIN input) \ candidates :
          \E m \in candidates : input[n].from <= input[m].from /\ input[m].to <= input[n].to

=============================================================================
