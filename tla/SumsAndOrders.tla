--------------------------- MODULE SumsAndOrders ----------------------------
(***************************************************************************)
(* Sums over finite sets, and finite sets in order: what the proofs about  *)
(* the model's folds and sorted lists rest on.                             *)
(*                                                                         *)
(* A fold is a recursive function, so that it first has to be shown to     *)
(* exist (FoldExists).  A sum can be taken apart at any element            *)
(* (SumsRemove), and is the only function that can (SumsUnique): so every  *)
(* fold of the community modules that adds is a sum, whatever element it   *)
(* begins with (FoldIsSum).  A finite set is listed by an order of its     *)
(* elements in one way (SortedList, ListExists), and joined sequences list *)
(* what was in them (FlatMembers).  All by induction on the size of a      *)
(* part, which AllNumbers and AllParts state for sets.                     *)
(***************************************************************************)
EXTENDS Integers, Sequences, FiniteSetTheorems, WellFoundedInduction, TLAPS

-----------------------------------------------------------------------------
(* Natural numbers.                                                        *)

(* A set of natural numbers that is not empty has a least element.         *)
LEMMA LeastNumber ==
  ASSUME NEW S \in SUBSET Nat, S # {}
  PROVE  \E m \in S : \A n \in S : m <= n
<1>1. PICK m \in S : \A n \in S : ~(<<n, m>> \in OpToRel(<, Nat))
  BY NatLessThanWellFounded, WFMin
<1>2. ASSUME NEW n \in S  PROVE m <= n
  <2>1. ~(n < m)
    BY <1>1 DEF OpToRel
  <2>2. QED
    BY <2>1
<1>3. QED
  BY <1>2

(* Of the numbers up to n in a set that is not empty one is the last, and  *)
(* is chosen.                                                              *)
LEMMA LastChosen ==
  ASSUME NEW n \in Nat, NEW s \in SUBSET (1 .. n), s # {}
  PROVE  (CHOOSE x \in s : \A y \in s : x >= y) \in s
<1> DEFINE T == {n - x : x \in s}
<1>1. T \in SUBSET Nat /\ T # {}
  <2>1. \A x \in s : n - x \in Nat
    OBVIOUS
  <2>2. QED
    BY <2>1
<1>2. PICK m \in T : \A t \in T : m <= t
  BY <1>1, LeastNumber
<1>3. PICK x \in s : m = n - x
  BY <1>2
<1>4. ASSUME NEW y \in s
      PROVE  x >= y
  <2>1. m <= n - y
    BY <1>2
  <2> HIDE DEF T
  <2>2. QED
    BY <1>3, <2>1
<1>5. QED
  BY <1>3, <1>4

(* A set of numbers that is closed under successor has them all.           *)
LEMMA AllNumbers ==
  ASSUME NEW S \in SUBSET Nat, 0 \in S, \A n \in S : n + 1 \in S
  PROVE  S = Nat
<1>1. SUFFICES ASSUME Nat \ S # {}
               PROVE  FALSE
  OBVIOUS
<1>2. PICK m \in Nat \ S : \A n \in Nat \ S : m <= n
  BY <1>1, LeastNumber
<1>3. m - 1 \in Nat /\ ~(m <= m - 1)
  BY <1>2
<1>4. m - 1 \in S
  BY <1>2, <1>3
<1>5. (m - 1) + 1 \in S /\ (m - 1) + 1 = m
  BY <1>2, <1>4
<1>6. QED
  BY <1>2, <1>5

(* A set that has each number when it has those below it has them all.     *)
LEMMA AllFromBelow ==
  ASSUME NEW G, \A n \in Nat : (\A j \in Nat : j < n => j \in G) => n \in G
  PROVE  Nat \subseteq G
<1>1. SUFFICES ASSUME Nat \ G # {}
               PROVE  FALSE
  OBVIOUS
<1>2. PICK m \in Nat \ G : \A n \in Nat \ G : m <= n
  BY <1>1, LeastNumber
<1>3. \A j \in Nat : j < m => j \in G
  <2>1. SUFFICES ASSUME NEW j \in Nat, j < m, j \notin G
                 PROVE  FALSE
    OBVIOUS
  <2>2. m <= j
    BY <1>2, <2>1
  <2>3. QED
    BY <1>2, <2>1, <2>2
<1>4. QED
  BY <1>2, <1>3

\* h is computed from 1 up to N, each value from those before it.
Continues(h, step, N) == \A n \in 1 .. N : h[n] = step[[j \in 1 .. n - 1 |-> h[j]]]

(* There is such a function.                                               *)
LEMMA RecursionExists ==
  ASSUME NEW N \in Nat, NEW V, NEW step \in [Seq(V) -> V]
  PROVE  \E h \in [1 .. N -> V] : Continues(h, step, N)
<1> DEFINE Known == {k \in Nat : \E g \in [1 .. k -> V] : Continues(g, step, k)}
<1>1. 0 \in Known
  <2>1. 1 .. 0 = {}
    OBVIOUS
  <2>2. [j \in {} |-> j] \in [1 .. 0 -> V]
    BY <2>1
  <2>3. \A g : Continues(g, step, 0)
    BY <2>1 DEF Continues
  <2>4. QED
    BY <2>2, <2>3
<1>2. ASSUME NEW k \in Known  PROVE k + 1 \in Known
  <2>1. k \in Nat
    OBVIOUS
  <2>2. PICK g \in [1 .. k -> V] : Continues(g, step, k)
    OBVIOUS
  <2>3. g \in Seq(V)
    BY <2>1
  <2> DEFINE h == [n \in 1 .. k + 1 |-> IF n <= k THEN g[n] ELSE step[g]]
  <2>4. h \in [1 .. k + 1 -> V]
    BY <2>1, <2>3
  <2>5. (\A n \in 1 .. k : h[n] = g[n] /\ n \in 1 .. k + 1) /\ h[k + 1] = step[g]
    BY <2>1
  <2> HIDE DEF h
  <2>6. ASSUME NEW n \in 1 .. k + 1
        PROVE  h[n] = step[[j \in 1 .. n - 1 |-> h[j]]]
    <3>1. \A j \in 1 .. n - 1 : j \in 1 .. k
      BY <2>1
    <3>2. [j \in 1 .. n - 1 |-> h[j]] = [j \in 1 .. n - 1 |-> g[j]]
      BY <2>5, <3>1
    <3>3. CASE n \in 1 .. k
      BY <2>2, <2>5, <3>2, <3>3 DEF Continues
    <3>4. CASE n = k + 1
      <4>1. 1 .. n - 1 = 1 .. k
        BY <2>1, <3>4
      <4>2. [j \in 1 .. n - 1 |-> g[j]] = g
        BY <4>1
      <4>3. QED
        BY <2>5, <3>2, <3>4, <4>2
    <3>5. QED
      BY <2>1, <3>3, <3>4
  <2>7. Continues(h, step, k + 1)
    BY <2>6 DEF Continues
  <2>8. QED
    BY <2>1, <2>4, <2>7
<1>3. Known = Nat
  <2> HIDE DEF Known
  <2>1. Known \in SUBSET Nat
    BY DEF Known
  <2>2. QED
    BY <1>1, <1>2, <2>1, AllNumbers
<1>4. QED
  BY <1>3

-----------------------------------------------------------------------------
(* Folds over a finite set.                                                *)

UpTo(k, S) == {s \in SUBSET S : Cardinality(s) <= k}

\* The value of a fold on s, when those of smaller sets are known: F makes it
\* of the element that is taken first, and of the value on the others.
FoldStep(base, F, first, h, s) ==
  IF s = {} THEN base ELSE F[<<first[s], h[s \ {first[s]}]>>]

\* h is that fold on the parts of S.
IsFold(h, base, F, first, S) == \A s \in SUBSET S : h[s] = FoldStep(base, F, first, h, s)

\* `first` takes an element of every part that has one.
Takes(first, S) == \A s \in SUBSET S : s # {} => first[s] \in s

(* The parts of a finite set, and one element less.                        *)
LEMMA Parts ==
  ASSUME NEW S, IsFiniteSet(S), NEW s \in SUBSET S
  PROVE  /\ IsFiniteSet(s) /\ Cardinality(s) \in Nat /\ Cardinality(s) <= Cardinality(S)
         /\ Cardinality(s) = 0 <=> s = {}
         /\ \A x \in s : s \ {x} \in SUBSET S /\ Cardinality(s \ {x}) = Cardinality(s) - 1
<1>1. IsFiniteSet(s) /\ Cardinality(s) <= Cardinality(S)
  BY FS_Subset
<1>2. Cardinality(s) \in Nat /\ (Cardinality(s) = 0 <=> s = {})
  BY <1>1, FS_CardinalityType, FS_EmptySet
<1>3. QED
  BY <1>1, <1>2, FS_RemoveElement

(* There is such a fold, whatever element is taken first.                  *)
LEMMA FoldExists ==
  ASSUME NEW S, IsFiniteSet(S), NEW V, NEW base \in V, NEW F \in [S \X V -> V],
         NEW first, Takes(first, S)
  PROVE  \E h \in [SUBSET S -> V] : IsFold(h, base, F, first, S)
<1> DEFINE Known == {k \in Nat : \E g \in [UpTo(k, S) -> V] :
                        \A s \in UpTo(k, S) : g[s] = FoldStep(base, F, first, g, s)}
<1>1. 0 \in Known
  <2> DEFINE g == [s \in UpTo(0, S) |-> base]
  <2>1. ASSUME NEW s \in UpTo(0, S)  PROVE g[s] = FoldStep(base, F, first, g, s)
    <3>1. s \in SUBSET S /\ Cardinality(s) <= 0
      BY DEF UpTo
    <3>2. s = {}
      <4>1. Cardinality(s) \in Nat /\ (Cardinality(s) = 0 <=> s = {})
        BY <3>1, Parts
      <4>2. QED
        BY <3>1, <4>1
    <3>3. g[s] = base
      OBVIOUS
    <3> HIDE DEF g
    <3>4. QED
      BY <3>2, <3>3 DEF FoldStep
  <2>2. g \in [UpTo(0, S) -> V]
    OBVIOUS
  <2>3. QED
    BY <2>1, <2>2
<1>2. ASSUME NEW k \in Known  PROVE k + 1 \in Known
  <2>1. PICK g \in [UpTo(k, S) -> V] : \A s \in UpTo(k, S) : g[s] = FoldStep(base, F, first, g, s)
    OBVIOUS
  <2> DEFINE h == [s \in UpTo(k + 1, S) |-> FoldStep(base, F, first, g, s)]
  <2>2. ASSUME NEW s \in UpTo(k + 1, S), s # {}
        PROVE  first[s] \in S /\ s \ {first[s]} \in UpTo(k, S)
    <3>1. s \in SUBSET S /\ Cardinality(s) <= k + 1 /\ k \in Nat
      BY DEF UpTo
    <3>2. first[s] \in s
      BY <2>2, <3>1 DEF Takes
    <3>3. s \ {first[s]} \in SUBSET S /\ Cardinality(s \ {first[s]}) = Cardinality(s) - 1
          /\ Cardinality(s) \in Nat
      BY <3>1, <3>2, Parts
    <3>4. QED
      BY <3>1, <3>2, <3>3 DEF UpTo
  <2>3. ASSUME NEW s \in UpTo(k, S)
        PROVE  s \in UpTo(k + 1, S) /\ h[s] = g[s]
    <3>1. s \in UpTo(k + 1, S)
      <4>1. Cardinality(s) \in Nat /\ k \in Nat /\ s \in SUBSET S /\ Cardinality(s) <= k
        BY <2>3, Parts DEF UpTo
      <4>2. QED
        BY <4>1 DEF UpTo
    <3>2. QED
      BY <2>1, <3>1
  <2>4. ASSUME NEW s \in UpTo(k + 1, S)
        PROVE  /\ FoldStep(base, F, first, g, s) \in V
               /\ FoldStep(base, F, first, h, s) = FoldStep(base, F, first, g, s)
    <3>1. CASE s = {}
      BY <3>1 DEF FoldStep
    <3>2. CASE s # {}
      <4>1. first[s] \in S /\ s \ {first[s]} \in UpTo(k, S)
        BY <2>2, <3>2
      <4>2. h[s \ {first[s]}] = g[s \ {first[s]}] /\ g[s \ {first[s]}] \in V
        BY <2>1, <2>3, <4>1
      <4> HIDE DEF h
      <4>3. QED
        BY <3>2, <4>1, <4>2 DEF FoldStep
    <3>3. QED
      BY <3>1, <3>2
  <2>5. h \in [UpTo(k + 1, S) -> V] /\ \A s \in UpTo(k + 1, S) : h[s] = FoldStep(base, F, first, h, s)
    BY <2>4
  <2> HIDE DEF h
  <2>6. QED
    BY <2>5
<1>3. Known = Nat
  <2> HIDE DEF Known
  <2>1. Known \in SUBSET Nat
    BY DEF Known
  <2>2. QED
    BY <1>1, <1>2, <2>1, AllNumbers
<1>4. PICK g \in [UpTo(Cardinality(S), S) -> V] :
              \A s \in UpTo(Cardinality(S), S) : g[s] = FoldStep(base, F, first, g, s)
  BY <1>3, FS_CardinalityType
<1>5. UpTo(Cardinality(S), S) = SUBSET S
  BY Parts DEF UpTo
<1>6. QED
  BY <1>4, <1>5 DEF IsFold

(* What holds of the empty set, and of a set when it holds of it without   *)
(* any one of its elements, holds of every part of a finite set.           *)
LEMMA AllParts ==
  ASSUME NEW S, IsFiniteSet(S), NEW G \in SUBSET SUBSET S, {} \in G,
         \A t \in SUBSET S : t # {} /\ (\A x \in t : t \ {x} \in G) => t \in G
  PROVE  G = SUBSET S
<1> DEFINE Good == {k \in Nat : \A t \in SUBSET S : Cardinality(t) = k => t \in G}
<1>1. \A t \in SUBSET S : /\ IsFiniteSet(t) /\ Cardinality(t) \in Nat
                          /\ Cardinality(t) = 0 <=> t = {}
                          /\ \A x \in t : Cardinality(t \ {x}) = Cardinality(t) - 1
  BY Parts, FS_RemoveElement
<1>2. 0 \in Good
  BY <1>1
<1>3. ASSUME NEW k \in Good  PROVE k + 1 \in Good
  <2>1. k \in Nat /\ \A t \in SUBSET S : Cardinality(t) = k => t \in G
    OBVIOUS
  <2>2. ASSUME NEW t \in SUBSET S, Cardinality(t) = k + 1
        PROVE  t \in G
    <3> HIDE DEF Good
    <3>1. t # {}
      BY <1>1, <2>1, <2>2
    <3>2. ASSUME NEW x \in t
          PROVE  t \ {x} \in G
      <4>1. Cardinality(t \ {x}) = k /\ t \ {x} \in SUBSET S
        BY <1>1, <2>1, <2>2
      <4>2. QED
        BY <2>1, <4>1
    <3>3. QED
      BY <3>1, <3>2
  <2>3. QED
    BY <2>1, <2>2
<1>4. Good = Nat
  <2> HIDE DEF Good
  <2>1. Good \in SUBSET Nat
    BY DEF Good
  <2>2. QED
    BY <1>2, <1>3, <2>1, AllNumbers
<1>5. ASSUME NEW t \in SUBSET S
      PROVE  t \in G
  BY <1>1, <1>4
<1>6. QED
  BY <1>5

-----------------------------------------------------------------------------
(* Sums over a finite set.                                                 *)

First(s) == CHOOSE x \in s : TRUE

(* The value of a sum on s, when those of smaller sets are known.          *)
SumStep(p, sums, s) == IF s = {} THEN 0 ELSE p[First(s)] + sums[s \ {First(s)}]

(* The sums of p on the subsets of S.                                      *)
SumsOf(p, sums, S) == sums = [s \in SUBSET S |-> SumStep(p, sums, s)]

Sums(p, S) == CHOOSE sums : SumsOf(p, sums, S)

(* What the sums of p are.                                                 *)
LEMMA SumsAdd ==
  ASSUME NEW S, IsFiniteSet(S), NEW p \in [S -> Nat], NEW s \in SUBSET S
  PROVE  /\ s = {} => Sums(p, S)[s] = 0
         /\ s # {} => Sums(p, S)[s] = p[First(s)] + Sums(p, S)[s \ {First(s)}]
<1> DEFINE F == [a \in S \X Nat |-> p[a[1]] + a[2]]
           first == [t \in SUBSET S |-> First(t)]
<1>1. F \in [S \X Nat -> Nat] /\ \A x \in S, m \in Nat : F[<<x, m>>] = p[x] + m
  OBVIOUS
<1>2. \A t \in SUBSET S : t # {} => first[t] \in t /\ first[t] = First(t)
  BY DEF First
<1> HIDE DEF F, first
<1>3. Takes(first, S)
  BY <1>2 DEF Takes
<1>4. PICK h \in [SUBSET S -> Nat] : IsFold(h, 0, F, first, S)
  <2>1. F \in [S \X Nat -> Nat]
    BY <1>1
  <2>2. 0 \in Nat
    OBVIOUS
  <2>3. QED
    BY <2>1, <2>2, <1>3, FoldExists
<1>5. ASSUME NEW t \in SUBSET S
      PROVE  h[t] = SumStep(p, h, t)
  <2>1. h[t] = FoldStep(0, F, first, h, t)
    BY <1>4 DEF IsFold
  <2>2. CASE t = {}
    BY <2>1, <2>2 DEF FoldStep, SumStep
  <2>3. CASE t # {}
    <3>1. first[t] \in S /\ first[t] = First(t) /\ t \ {First(t)} \in SUBSET S
      BY <1>2, <2>3
    <3>2. F[<<First(t), h[t \ {First(t)}]>>] = p[First(t)] + h[t \ {First(t)}]
      BY <1>1, <1>4, <3>1
    <3>3. QED
      BY <2>1, <2>3, <3>1, <3>2 DEF FoldStep, SumStep
  <2>4. QED
    BY <2>2, <2>3
<1>6. SumsOf(p, h, S)
  BY <1>4, <1>5 DEF SumsOf
<1>7. SumsOf(p, Sums(p, S), S)
  BY <1>6 DEF Sums
<1>8. Sums(p, S)[s] = SumStep(p, Sums(p, S), s)
  BY <1>7 DEF SumsOf
<1>9. QED
  BY <1>8 DEF SumStep

(* A sum of natural numbers is one.                                        *)
LEMMA SumsAreNat ==
  ASSUME NEW S, IsFiniteSet(S), NEW p \in [S -> Nat], NEW s \in SUBSET S
  PROVE  Sums(p, S)[s] \in Nat
<1> DEFINE P == Sums(p, S)
           G == {t \in SUBSET S : P[t] \in Nat}
<1>1. {} \in G
  <2>1. {} \in SUBSET S /\ P[{}] = 0
    BY SumsAdd
  <2> HIDE DEF P
  <2>2. QED
    BY <2>1
<1>2. ASSUME NEW t \in SUBSET S, t # {}, \A x \in t : t \ {x} \in G
      PROVE  t \in G
  <2>1. P[t] = p[First(t)] + P[t \ {First(t)}]
    BY <1>2, SumsAdd
  <2>2. First(t) \in t /\ p[First(t)] \in Nat
    BY <1>2 DEF First
  <2> HIDE DEF P
  <2>3. P[t \ {First(t)}] \in Nat
    BY <1>2, <2>2
  <2>4. P[t] \in Nat
    BY <2>1, <2>2, <2>3
  <2>5. QED
    BY <2>4
<1>3. G = SUBSET S
  <2> HIDE DEF G
  <2>1. G \in SUBSET SUBSET S
    BY DEF G
  <2>2. QED
    BY <1>1, <1>2, <2>1, AllParts
<1>4. QED
  BY <1>3

(* A sum can be taken apart at any of its elements.                        *)
LEMMA SumsRemove ==
  ASSUME NEW S, IsFiniteSet(S), NEW p \in [S -> Nat], NEW s \in SUBSET S, NEW z \in s
  PROVE  Sums(p, S)[s] = p[z] + Sums(p, S)[s \ {z}]
<1> DEFINE P == Sums(p, S)
           G == {t \in SUBSET S : \A x \in t : P[t] = p[x] + P[t \ {x}]}
<1>1. \A t \in SUBSET S : P[t] \in Nat
  BY SumsAreNat
<1>2. {} \in G
  OBVIOUS
<1>3. ASSUME NEW t \in SUBSET S, t # {}, \A x \in t : t \ {x} \in G
      PROVE  t \in G
  <2>1. PICK y \in t : P[t] = p[y] + P[t \ {y}]
    <3>1. First(t) \in t
      BY <1>3 DEF First
    <3>2. P[t] = p[First(t)] + P[t \ {First(t)}]
      BY <1>3, SumsAdd
    <3> HIDE DEF P
    <3>3. QED
      BY <3>1, <3>2
  <2> HIDE DEF P
  <2>2. ASSUME NEW x \in t
        PROVE  P[t] = p[x] + P[t \ {x}]
    <3>1. CASE x = y
      BY <2>1, <3>1
    <3>2. CASE x # y
      <4>1. PICK r \in SUBSET S : r = (t \ {y}) \ {x}
        OBVIOUS
      <4>2. r = (t \ {x}) \ {y} /\ x \in t \ {y} /\ y \in t \ {x}
        BY <3>2, <4>1
      <4>3. t \ {y} \in G /\ t \ {x} \in G
        BY <1>3
      <4>4. P[t \ {y}] = p[x] + P[r] /\ P[t \ {x}] = p[y] + P[r]
        BY <4>1, <4>2, <4>3
      <4>5. p[x] \in Nat /\ p[y] \in Nat /\ P[r] \in Nat
        BY <1>1
      <4>6. QED
        BY <2>1, <4>4, <4>5
    <3>3. QED
      BY <3>1, <3>2
  <2>3. QED
    BY <2>2
<1>4. G = SUBSET S
  <2> HIDE DEF G
  <2>1. G \in SUBSET SUBSET S
    BY DEF G
  <2>2. QED
    BY <1>2, <1>3, <2>1, AllParts
<1>5. QED
  BY <1>4

\* h adds up p on the subsets of S, one element after the other.
AddsUp(h, p, S) ==
  /\ h[{}] = 0
  /\ \A t \in SUBSET S : t # {} => \E x \in t : h[t] = p[x] + h[t \ {x}]

(* And what can be taken apart at some element of each set is the sum.     *)
LEMMA SumsUnique ==
  ASSUME NEW S, IsFiniteSet(S), NEW p \in [S -> Nat], NEW h, AddsUp(h, p, S),
         NEW s \in SUBSET S
  PROVE  h[s] = Sums(p, S)[s]
<1> DEFINE P == Sums(p, S)
           G == {t \in SUBSET S : h[t] = P[t]}
<1>1. {} \in G
  <2>1. {} \in SUBSET S /\ P[{}] = 0
    BY SumsAdd
  <2> HIDE DEF P
  <2>2. QED
    BY <2>1 DEF AddsUp
<1>2. ASSUME NEW t \in SUBSET S, t # {}, \A x \in t : t \ {x} \in G
      PROVE  t \in G
  <2>1. PICK x \in t : h[t] = p[x] + h[t \ {x}]
    BY <1>2 DEF AddsUp
  <2>2. P[t] = p[x] + P[t \ {x}]
    BY SumsRemove
  <2> HIDE DEF P
  <2>3. QED
    BY <1>2, <2>1, <2>2
<1>3. G = SUBSET S
  <2> HIDE DEF G
  <2>1. G \in SUBSET SUBSET S
    BY DEF G
  <2>2. QED
    BY <1>1, <1>2, <2>1, AllParts
<1>4. QED
  BY <1>3

(* A part's sum depends on its own summands alone.                         *)
LEMMA SumsOfPart ==
  ASSUME NEW S, IsFiniteSet(S), NEW p \in [S -> Nat],
         NEW T \in SUBSET S, NEW q \in [T -> Nat], \A x \in T : q[x] = p[x]
  PROVE  Sums(q, T)[T] = Sums(p, S)[T]
<1>1. IsFiniteSet(T) /\ SUBSET T \subseteq SUBSET S
  BY FS_Subset
<1>2. PICK h : h = Sums(p, S)
  OBVIOUS
<1>3. h[{}] = 0
  BY <1>2, SumsAdd
<1>4. ASSUME NEW t \in SUBSET T, t # {}
      PROVE  \E x \in t : h[t] = q[x] + h[t \ {x}]
  <2>1. PICK x \in t : TRUE
    BY <1>4
  <2>2. h[t] = p[x] + h[t \ {x}]
    BY <1>1, <1>2, SumsRemove
  <2>3. QED
    BY <2>2
<1>5. h[T] = Sums(q, T)[T]
  <2>1. AddsUp(h, q, T)
    BY <1>3, <1>4 DEF AddsUp
  <2>2. QED
    BY <1>1, <2>1, SumsUnique
<1>6. QED
  BY <1>2, <1>5

(* When one summand changes, the sum changes with it.                      *)
LEMMA SumChanges ==
  ASSUME NEW S, IsFiniteSet(S), NEW p \in [S -> Nat], NEW q \in [S -> Nat],
         NEW v \in S, \A w \in S : w # v => q[w] = p[w]
  PROVE  /\ Sums(p, S)[S] \in Nat
         /\ Sums(q, S)[S] = Sums(p, S)[S] + q[v] - p[v]
<1> DEFINE T == S \ {v}
           r == [x \in T |-> p[x]]
<1>1. Sums(p, S)[S] = p[v] + Sums(p, S)[T] /\ Sums(q, S)[S] = q[v] + Sums(q, S)[T]
  BY SumsRemove
<1>2. r \in [T -> Nat] /\ (\A x \in T : r[x] = p[x] /\ r[x] = q[x]) /\ T \in SUBSET S
  OBVIOUS
<1> HIDE DEF r, T
<1>3. Sums(r, T)[T] = Sums(p, S)[T] /\ Sums(r, T)[T] = Sums(q, S)[T]
  BY <1>2, SumsOfPart
<1>4. Sums(p, S)[S] \in Nat /\ Sums(p, S)[T] \in Nat /\ p[v] \in Nat /\ q[v] \in Nat
  BY <1>2, SumsAreNat
<1>5. QED
  BY <1>1, <1>3, <1>4

\* z is one of what p adds up over the part s of S, which adds p[z] to it.
Summand(S, p, s, z) == IsFiniteSet(S) /\ p \in [S -> Nat] /\ s \in SUBSET S /\ z \in s

IsAdded(S, p, s, z) ==
  /\ Sums(p, S)[{}] = 0 /\ Sums(p, S)[s] \in Nat
  /\ Sums(p, S)[s] = Sums(p, S)[s \ {z}] + p[z]

(* Each summand is added.                                                  *)
LEMMA SummandIsAdded == \A S, p, s, z : Summand(S, p, s, z) => IsAdded(S, p, s, z)
<1> SUFFICES ASSUME NEW S, NEW p, NEW s, NEW z, Summand(S, p, s, z)
             PROVE  IsAdded(S, p, s, z)
  OBVIOUS
<1>1. IsFiniteSet(S) /\ p \in [S -> Nat] /\ s \in SUBSET S /\ z \in s /\ p[z] \in Nat
      /\ s \ {z} \in SUBSET S
  BY DEF Summand
<1>2. Sums(p, S)[s] = p[z] + Sums(p, S)[s \ {z}]
  BY <1>1, SumsRemove
<1>3. Sums(p, S)[s \ {z}] \in Nat /\ Sums(p, S)[s] \in Nat
  BY <1>1, SumsAreNat
<1>4. Sums(p, S)[{}] = 0
  BY <1>1, SumsAdd
<1>5. QED
  BY <1>1, <1>2, <1>3, <1>4 DEF IsAdded

(* No summand is greater than the sum.                                     *)
LEMMA SumsBound ==
  ASSUME NEW S, IsFiniteSet(S), NEW p \in [S -> Nat], NEW x \in S
  PROVE  p[x] <= Sums(p, S)[S]
<1>1. Sums(p, S)[S] = p[x] + Sums(p, S)[S \ {x}]
  BY SumsRemove
<1>2. Sums(p, S)[S \ {x}] \in Nat
  BY SumsAreNat
<1>3. p[x] \in Nat
  OBVIOUS
<1>4. QED
  BY <1>1, <1>2, <1>3

\* A fold that adds takes one of the elements, and adds it to those of the rest.
AddStep(it, d, first, s) == IF s = {} THEN 0 ELSE it[s \ {first[s]}] + d[first[s]]

\* it is such a fold over the parts of D.
Adds(it, D, d, first) == \A s \in SUBSET D : it[s] = AddStep(it, d, first, s)

(* It is the sum, whichever element is taken first.                        *)
LEMMA FoldIsSum ==
  ASSUME NEW D, IsFiniteSet(D), NEW d \in [D -> Nat], NEW first, Takes(first, D)
  PROVE  /\ Adds(Sums(d, D), D, d, first)
         /\ \A it : Adds(it, D, d, first) => it[D] = Sums(d, D)[D]
<1>1. ASSUME NEW s \in SUBSET D
      PROVE  Sums(d, D)[s] = AddStep(Sums(d, D), d, first, s)
  <2>1. CASE s = {}
    BY <2>1, SumsAdd DEF AddStep
  <2>2. CASE s # {}
    <3>1. PICK z \in s : z = first[s]
      BY <2>2 DEF Takes
    <3>2. IsAdded(D, d, s, z)
      BY SummandIsAdded DEF Summand
    <3>3. QED
      BY <2>2, <3>1, <3>2 DEF IsAdded, AddStep
  <2>3. QED
    BY <2>1, <2>2
<1>2. ASSUME NEW it, Adds(it, D, d, first)
      PROVE  it[D] = Sums(d, D)[D]
  <2>1. it[{}] = 0
    <3>1. {} \in SUBSET D
      OBVIOUS
    <3>2. QED
      BY <1>2, <3>1 DEF Adds, AddStep
  <2>2. \A s \in SUBSET D : s # {} => first[s] \in s /\ it[s] = it[s \ {first[s]}] + d[first[s]]
    BY <1>2 DEF Adds, AddStep, Takes
  <2>3. \A s \in SUBSET D : it[s] \in Nat
    <3> DEFINE G == {s \in SUBSET D : it[s] \in Nat}
    <3>1. {} \in G
      BY <2>1
    <3>2. ASSUME NEW s \in SUBSET D, s # {}, \A x \in s : s \ {x} \in G
          PROVE  s \in G
      <4>1. PICK z \in s : it[s] = it[s \ {z}] + d[z]
        BY <2>2, <3>2
      <4>2. it[s \ {z}] \in Nat /\ d[z] \in Nat
        BY <3>2
      <4>3. QED
        BY <4>1, <4>2
    <3>3. G = SUBSET D
      <4> HIDE DEF G
      <4>1. G \in SUBSET SUBSET D
        BY DEF G
      <4>2. QED
        BY <3>1, <3>2, <4>1, AllParts
    <3>4. QED
      BY <3>3
  <2>4. ASSUME NEW s \in SUBSET D, s # {}
        PROVE  \E z \in s : it[s] = d[z] + it[s \ {z}]
    <3>1. PICK z \in s : it[s] = it[s \ {z}] + d[z]
      BY <2>2, <2>4
    <3>2. PICK m \in Nat : m = it[s \ {z}]
      BY <2>3
    <3>3. d[z] \in Nat
      OBVIOUS
    <3>4. it[s] = d[z] + m
      BY <3>1, <3>2, <3>3
    <3>5. QED
      BY <3>2, <3>4
  <2>5. AddsUp(it, d, D)
    BY <2>1, <2>4 DEF AddsUp
  <2>6. QED
    BY <2>5, SumsUnique
<1>3. QED
  BY <1>1, <1>2 DEF Adds

(* Sets that are matched one to one are of one size.                       *)
LEMMA SameSize ==
  ASSUME NEW S, IsFiniteSet(S), NEW T, NEW f \in [S -> T],
         \A x, y \in S : f[x] = f[y] => x = y, \A y \in T : \E x \in S : f[x] = y
  PROVE  IsFiniteSet(T) /\ Cardinality(T) = Cardinality(S)
<1>1. f \in Bijection(S, T)
  BY DEF Bijection, Injection, Surjection, IsInjective
<1>2. ExistsBijection(S, T)
  BY <1>1 DEF ExistsBijection
<1>3. QED
  BY <1>2, FS_Bijection

\* p counts the elements of D by their values of f.
Counts(p, V, f, D) ==
  V = {f[x] : x \in D} /\ p = [v \in V |-> Cardinality({x \in D : f[x] = v})]

(* So they are all counted.                                                *)
LEMMA CountedByValue ==
  ASSUME NEW D, IsFiniteSet(D), NEW f, NEW V, NEW p, Counts(p, V, f, D)
  PROVE  IsFiniteSet(V) /\ p \in [V -> Nat] /\ Sums(p, V)[V] = Cardinality(D)
<1> DEFINE Of(v) == {x \in D : f[x] = v}
           In(s) == {x \in D : f[x] \in s}
           G == {s \in SUBSET V : Sums(p, V)[s] = Cardinality(In(s))}
<1>1. V = {f[x] : x \in D} /\ p = [v \in V |-> Cardinality(Of(v))]
  BY DEF Counts
<1>2. IsFiniteSet(V)
  <2>1. [x \in D |-> f[x]] \in Surjection(D, V)
    BY <1>1 DEF Surjection
  <2>2. QED
    BY <2>1, FS_Surjection
<1>3. \A s : IsFiniteSet(In(s)) /\ Cardinality(In(s)) \in Nat
  <2>1. \A s : In(s) \in SUBSET D
    OBVIOUS
  <2> HIDE DEF In
  <2>2. QED
    BY <2>1, FS_Subset, FS_CardinalityType
<1>4. \A v : IsFiniteSet(Of(v)) /\ Cardinality(Of(v)) \in Nat
  <2>1. \A v : Of(v) \in SUBSET D
    OBVIOUS
  <2> HIDE DEF Of
  <2>2. QED
    BY <2>1, FS_Subset, FS_CardinalityType
<1>5. p \in [V -> Nat] /\ \A v \in V : p[v] = Cardinality(Of(v))
  BY <1>4, <1>1
<1>6. PICK sums : sums = Sums(p, V)
  OBVIOUS
<1>7. {} \in G
  <2>1. In({}) = {}
    OBVIOUS
  <2>2. Sums(p, V)[{}] = 0
    <3>1. {} \in SUBSET V
      OBVIOUS
    <3>2. QED
      BY <1>2, <1>5, <3>1, SumsAdd
  <2>3. Cardinality({}) = 0
    BY FS_EmptySet
  <2> HIDE DEF In
  <2>4. QED
    BY <2>1, <2>2, <2>3
<1>8. ASSUME NEW s \in SUBSET V, s # {}, \A v \in s : s \ {v} \in G
      PROVE  s \in G
  <2>1. PICK v \in s : TRUE
    BY <1>8
  <2>2. sums[s \ {v}] = Cardinality(In(s \ {v}))
    BY <1>6, <1>8, <2>1
  <2>3. In(s) = In(s \ {v}) \cup Of(v) /\ In(s \ {v}) \cap Of(v) = {}
    BY <2>1
  <2> HIDE DEF In, Of, G
  <2>4. IsAdded(V, p, s, v)
    BY <1>2, <1>5, <2>1, SummandIsAdded DEF Summand
  <2>5. sums[s] = sums[s \ {v}] + p[v] /\ p[v] = Cardinality(Of(v))
    BY <1>5, <1>6, <2>1, <2>4 DEF IsAdded
  <2>6. PICK A, B : A = In(s \ {v}) /\ B = Of(v)
    OBVIOUS
  <2>7. IsFiniteSet(A) /\ IsFiniteSet(B) /\ Cardinality(A) \in Nat /\ Cardinality(B) \in Nat
    BY <1>3, <1>4, <2>6
  <2>8. Cardinality(A \cup B) = Cardinality(A) + Cardinality(B) - Cardinality(A \cap B)
    BY <2>7, FS_Union
  <2>9. Cardinality(A \cap B) = 0
    BY <2>3, <2>6, FS_EmptySet
  <2>10. \A a, b \in Nat : a + b - 0 = a + b
    OBVIOUS
  <2>11. Cardinality(In(s)) = Cardinality(A) + Cardinality(B)
    BY <2>3, <2>6, <2>7, <2>8, <2>9, <2>10
  <2>12. QED
    BY <1>6, <2>2, <2>5, <2>6, <2>11 DEF G
<1>9. G = SUBSET V
  <2> HIDE DEF G
  <2>1. G \in SUBSET SUBSET V
    BY DEF G
  <2>2. QED
    BY <1>2, <1>7, <1>8, <2>1, AllParts
<1>10. Sums(p, V)[V] = Cardinality(In(V))
  <2>1. V \in G
    <3> HIDE DEF G
    <3>1. QED
      BY <1>9
  <2>2. QED
    BY <2>1
<1>11. In(V) = D
  BY <1>1
<1> HIDE DEF In
<1>12. QED
  BY <1>2, <1>5, <1>10, <1>11

-----------------------------------------------------------------------------
(* Finite sets in order.                                                   *)

\* R orders S, strictly and totally.
Orders(R, S) ==
  /\ \A x, y \in S : x # y => <<x, y>> \in R \/ <<y, x>> \in R
  /\ \A x, y \in S : <<x, y>> \in R => <<y, x>> \notin R
  /\ \A x, y, z \in S : <<x, y>> \in R /\ <<y, z>> \in R => <<x, z>> \in R

(* Of finitely many numbers one is the greatest.                           *)
LEMMA GreatestExists ==
  ASSUME NEW S, IsFiniteSet(S), S # {}, NEW v, \A x \in S : v[x] \in Nat
  PROVE  \E x \in S : \A y \in S : v[y] <= v[x]
<1> DEFINE G == {t \in SUBSET S : t # {} => \E x \in t : \A y \in t : v[y] <= v[x]}
<1>1. {} \in G
  OBVIOUS
<1>2. ASSUME NEW t \in SUBSET S, t # {}, \A x \in t : t \ {x} \in G
      PROVE  t \in G
  <2>1. PICK z \in t : TRUE
    BY <1>2
  <2>2. PICK r : r = t \ {z} /\ r \in G
    BY <1>2, <2>1
  <2>3. CASE r = {}
    <3>1. \A y \in t : y = z
      BY <2>2, <2>3
    <3>2. v[z] <= v[z]
      BY <2>1
    <3>3. QED
      BY <2>1, <3>1, <3>2
  <2>4. CASE r # {}
    <3>1. PICK x \in r : \A y \in r : v[y] <= v[x]
      BY <2>2, <2>4
    <3>2. v[x] \in Nat /\ v[z] \in Nat /\ \A y \in t : v[y] \in Nat /\ (y = z \/ y \in r)
      BY <2>1, <2>2, <3>1
    <3>3. CASE v[z] <= v[x]
      BY <2>2, <3>1, <3>2, <3>3
    <3>4. CASE v[x] <= v[z]
      <4>1. \A y \in t : v[y] <= v[z]
        BY <3>1, <3>2, <3>4
      <4>2. QED
        BY <2>1, <4>1
    <3>5. QED
      BY <3>2, <3>3, <3>4
  <2>5. QED
    BY <2>3, <2>4
<1>3. G = SUBSET S
  <2> HIDE DEF G
  <2>1. G \in SUBSET SUBSET S
    BY DEF G
  <2>2. QED
    BY <1>1, <1>2, <2>1, AllParts
<1>4. QED
  BY <1>3

(* A finite set can be listed in any order: each element has a rank, the   *)
(* number of those before it.                                              *)
LEMMA SortedList ==
  ASSUME NEW S, IsFiniteSet(S), NEW R, Orders(R, S)
  PROVE  \E o \in [1 .. Cardinality(S) -> S] :
           /\ \A i, j \in 1 .. Cardinality(S) : i < j => o[i] # o[j] /\ <<o[i], o[j]>> \in R
           /\ \A x \in S : \E i \in 1 .. Cardinality(S) : o[i] = x
<1> DEFINE n == Cardinality(S)
           Below(x) == {y \in S : <<y, x>> \in R}
           rank == [x \in S |-> Cardinality(Below(x)) + 1]
<1>1. n \in Nat
  BY FS_CardinalityType
<1>2. ASSUME NEW x \in S
      PROVE  /\ IsFiniteSet(Below(x)) /\ rank[x] = Cardinality(Below(x)) + 1 /\ rank[x] \in 1 .. n
             /\ Cardinality(Below(x)) \in Nat
  <2>1. Below(x) \in SUBSET (S \ {x})
    BY DEF Orders
  <2>2. IsFiniteSet(S \ {x}) /\ Cardinality(S \ {x}) = n - 1
    BY FS_RemoveElement
  <2>3. IsFiniteSet(Below(x)) /\ Cardinality(Below(x)) <= n - 1
    <3>1. PICK T : T = S \ {x}
      OBVIOUS
    <3>2. PICK B : B = Below(x)
      OBVIOUS
    <3>3. IsFiniteSet(B) /\ Cardinality(B) <= Cardinality(T)
      BY <2>1, <2>2, <3>1, <3>2, FS_Subset
    <3> HIDE DEF n, Below
    <3>4. QED
      BY <2>2, <3>1, <3>2, <3>3
  <2>4. Cardinality(Below(x)) \in Nat
    BY <2>3, FS_CardinalityType
  <2>5. rank[x] = Cardinality(Below(x)) + 1
    OBVIOUS
  <2> HIDE DEF n, Below, rank
  <2>6. QED
    BY <1>1, <2>3, <2>4, <2>5
<1>3. ASSUME NEW x \in S, NEW y \in S, <<x, y>> \in R
      PROVE  rank[x] < rank[y]
  <2>1. Below(x) \in SUBSET Below(y) /\ x \in Below(y) /\ x \notin Below(x)
    BY <1>3 DEF Orders
  <2>2. Cardinality(Below(x)) <= Cardinality(Below(y)) /\ Cardinality(Below(x)) # Cardinality(Below(y))
    <3>1. IsFiniteSet(Below(y))
      BY <1>2
    <3> HIDE DEF Below
    <3>2. QED
      BY <2>1, <3>1, FS_Subset
  <2> HIDE DEF n, Below, rank
  <2>3. QED
    BY <1>2, <2>2
<1>4. rank \in [S -> 1 .. n]
  BY <1>2
<1> HIDE DEF rank, Below
<1>5. \A x, y \in S : rank[x] = rank[y] => x = y
  <2>1. \A x \in S : rank[x] \in Nat
    BY <1>1, <1>4
  <2>2. \A x, y \in S : rank[x] = rank[y] => ~(rank[x] < rank[y]) /\ ~(rank[y] < rank[x])
    BY <2>1
  <2>3. QED
    BY <1>3, <2>2 DEF Orders
<1>6. rank \in Injection(S, 1 .. n)
  BY <1>4, <1>5 DEF Injection, IsInjective
<1>7. IsFiniteSet(1 .. n) /\ Cardinality(1 .. n) = n
  BY <1>1, FS_Interval
<1>8. rank \in Surjection(S, 1 .. n)
  BY <1>6, <1>7, FS_Injection
<1>9. \A i \in 1 .. n : \E x \in S : rank[x] = i
  BY <1>8 DEF Surjection
<1> DEFINE o == [i \in 1 .. n |-> CHOOSE x \in S : rank[x] = i]
<1>10. \A i \in 1 .. n : o[i] \in S /\ rank[o[i]] = i
  BY <1>9
<1>11. o \in [1 .. n -> S]
  BY <1>10
<1> HIDE DEF o
<1>12. ASSUME NEW i \in 1 .. n, NEW j \in 1 .. n, i < j
       PROVE  o[i] # o[j] /\ <<o[i], o[j]>> \in R
  <2>1. o[i] \in S /\ o[j] \in S /\ rank[o[i]] = i /\ rank[o[j]] = j
    BY <1>10
  <2>2. i # j /\ ~(j < i)
    BY <1>1, <1>12
  <2>3. o[i] # o[j] /\ <<o[j], o[i]>> \notin R
    BY <1>3, <2>1, <2>2
  <2>4. QED
    BY <2>1, <2>3 DEF Orders
<1>13. ASSUME NEW x \in S
       PROVE  \E i \in 1 .. n : o[i] = x
  <2>1. rank[x] \in 1 .. n
    BY <1>4
  <2>2. o[rank[x]] = x
    BY <1>5, <1>10, <2>1
  <2>3. QED
    BY <2>1, <2>2
<1>14. QED
  BY <1>11, <1>12, <1>13

(* A list as long as the set, of its elements in that order, has each of   *)
(* them once.                                                              *)
LEMMA ListIsWhole ==
  ASSUME NEW S, IsFiniteSet(S), NEW R, Orders(R, S), NEW N \in Nat, N = Cardinality(S),
         NEW o \in [1 .. N -> S], \A i, j \in 1 .. N : i < j => <<o[i], o[j]>> \in R
  PROVE  /\ \A i, j \in 1 .. N : i # j => o[i] # o[j]
         /\ \A x \in S : \E i \in 1 .. N : o[i] = x
<1>1. \A i, j \in 1 .. N : i < j => o[i] # o[j]
  BY DEF Orders
<1>2. ASSUME NEW i \in 1 .. N, NEW j \in 1 .. N, i # j
      PROVE  o[i] # o[j]
  <2>1. CASE i < j
    BY <1>1, <2>1
  <2>2. CASE j < i
    <3>1. o[j] # o[i]
      BY <1>1, <2>2
    <3>2. QED
      BY <3>1
  <2>3. QED
    BY <1>2, <2>1, <2>2
<1>3. ASSUME NEW x \in S, \A i \in 1 .. N : o[i] # x
      PROVE  FALSE
  <2>1. IsFiniteSet(S \ {x}) /\ Cardinality(S \ {x}) = N - 1
    BY FS_RemoveElement
  <2>2. IsFiniteSet(1 .. N) /\ Cardinality(1 .. N) = N
    BY FS_Interval
  <2>3. o \in [1 .. N -> S \ {x}]
    BY <1>3
  <2>4. Cardinality(S \ {x}) < Cardinality(1 .. N)
    BY <2>1, <2>2
  <2>5. \E i, j \in 1 .. N : i # j /\ o[i] = o[j]
    BY <2>1, <2>2, <2>3, <2>4, FS_PigeonHole
  <2>6. QED
    BY <1>2, <2>5
<1>4. QED
  BY <1>2, <1>3

\* The lists of S in the order R.
Listings(S, N, R) == {o \in [1 .. N -> S] : \A i, j \in DOMAIN o : i < j => <<o[i], o[j]>> \in R}

\* Such a list is whole: each element is in it, once.
IsListing(o, S, N, R) ==
  /\ o \in [1 .. N -> S]
  /\ \A i, j \in 1 .. N : i < j => <<o[i], o[j]>> \in R
  /\ \A i, j \in 1 .. N : i # j => o[i] # o[j]
  /\ \A x \in S : \E i \in 1 .. N : o[i] = x

(* There is such a list.                                                   *)
LEMMA ListExists ==
  ASSUME NEW S, IsFiniteSet(S), NEW R, Orders(R, S), NEW N, N = Cardinality(S)
  PROVE  /\ N \in Nat /\ Listings(S, N, R) # {}
         /\ \A o \in Listings(S, N, R) : IsListing(o, S, N, R)
<1>1. N \in Nat
  BY FS_CardinalityType
<1>2. PICK w \in [1 .. N -> S] : \A i, j \in 1 .. N : i < j => <<w[i], w[j]>> \in R
  BY SortedList
<1>3. w \in Listings(S, N, R)
  BY <1>2 DEF Listings
<1>4. ASSUME NEW o \in Listings(S, N, R)
      PROVE  /\ o \in [1 .. N -> S]
             /\ \A i, j \in 1 .. N : i < j => <<o[i], o[j]>> \in R
  BY DEF Listings
<1>5. ASSUME NEW o \in Listings(S, N, R)
      PROVE  IsListing(o, S, N, R)
  <2>1. /\ o \in [1 .. N -> S]
        /\ \A i, j \in 1 .. N : i < j => <<o[i], o[j]>> \in R
    BY <1>4
  <2>2. /\ \A i, j \in 1 .. N : i # j => o[i] # o[j]
        /\ \A x \in S : \E i \in 1 .. N : o[i] = x
    BY <1>1, <2>1, ListIsWhole
  <2>3. QED
    BY <2>1, <2>2 DEF IsListing
<1>6. QED
  BY <1>1, <1>3, <1>5

(* Numbers are in order.                                                   *)
LEMMA NumbersOrder ==
  ASSUME NEW S \in SUBSET Nat, NEW R, R = {e \in S \X S : e[1] < e[2]}
  PROVE  Orders(R, S)
<1>1. ASSUME NEW x \in S, NEW y \in S
      PROVE  <<x, y>> \in R <=> x < y
  <2>1. PICK e : e = <<x, y>>
    OBVIOUS
  <2>2. e \in S \X S /\ e[1] = x /\ e[2] = y
    BY <2>1
  <2>3. e \in R <=> x < y
    BY <2>2
  <2>4. QED
    BY <2>1, <2>3
<1>2. \A x \in S : x \in Nat
  OBVIOUS
<1>3. QED
  BY <1>1, <1>2 DEF Orders

\* h is the state of a loop over 1 .. N that begins with base, after each turn.
Loops(h, N, base, F) == h[0] = base /\ \A n \in 1 .. N : h[n] = F[<<h[n - 1], n>>]

(* There is such a function.                                               *)
LEMMA LoopExists ==
  ASSUME NEW N \in Nat, NEW V, NEW base \in V, NEW F \in [V \X (1 .. N) -> V]
  PROVE  \E h \in [0 .. N -> V] : Loops(h, N, base, F)
<1> DEFINE Runs(h, k) == h[0] = base /\ \A n \in 1 .. k : h[n] = F[<<h[n - 1], n>>]
           Known == {k \in Nat : k <= N => \E h \in [0 .. k -> V] : Runs(h, k)}
<1>1. 0 \in Known
  <2>1. [i \in 0 .. 0 |-> base] \in [0 .. 0 -> V] /\ 0 \in 0 .. 0
    OBVIOUS
  <2>2. Runs([i \in 0 .. 0 |-> base], 0)
    OBVIOUS
  <2>3. QED
    BY <2>1, <2>2
<1>2. ASSUME NEW k \in Known
      PROVE  k + 1 \in Known
  <2>1. k \in Nat
    OBVIOUS
  <2>2. SUFFICES ASSUME k + 1 <= N
                 PROVE  \E h \in [0 .. k + 1 -> V] : Runs(h, k + 1)
    BY <2>1
  <2>3. PICK g \in [0 .. k -> V] : Runs(g, k)
    BY <2>1, <2>2
  <2>4. k \in 0 .. k /\ k + 1 \in 1 .. N
    BY <2>1, <2>2
  <2> DEFINE h == [n \in 0 .. k + 1 |-> IF n <= k THEN g[n] ELSE F[<<g[k], k + 1>>]]
  <2>5. F[<<g[k], k + 1>>] \in V
    BY <2>4
  <2>6. h \in [0 .. k + 1 -> V]
    BY <2>1, <2>5
  <2>7. (\A n \in 0 .. k : h[n] = g[n]) /\ h[k + 1] = F[<<g[k], k + 1>>]
    BY <2>1
  <2> HIDE DEF h
  <2>8. ASSUME NEW n \in 1 .. k + 1
        PROVE  h[n] = F[<<h[n - 1], n>>]
    <3>1. CASE n = k + 1
      <4>1. n - 1 = k
        BY <2>1, <3>1
      <4>2. QED
        BY <2>4, <2>7, <3>1, <4>1
    <3>2. CASE n # k + 1
      <4>1. n \in 1 .. k /\ n \in 0 .. k /\ n - 1 \in 0 .. k
        BY <2>1, <3>2
      <4>2. g[n] = F[<<g[n - 1], n>>]
        BY <2>3, <4>1
      <4>3. QED
        BY <2>7, <4>1, <4>2
    <3>3. QED
      BY <3>1, <3>2
  <2>9. h[0] = base
    <3>1. 0 \in 0 .. k
      BY <2>1
    <3>2. QED
      BY <2>3, <2>7, <3>1
  <2>10. QED
    BY <2>6, <2>8, <2>9
<1>3. Known = Nat
  <2> HIDE DEF Known
  <2>1. Known \in SUBSET Nat
    BY DEF Known
  <2>2. QED
    BY <1>1, <1>2, <2>1, AllNumbers
<1>4. N \in Known
  BY <1>3
<1>5. QED
  BY <1>4 DEF Loops
-----------------------------------------------------------------------------
(* Sequences joined to one.                                               *)

\* seqs joined from the first to each of them.
FlatOf(flat, seqs) ==
  flat = [i \in 1 .. Len(seqs) |-> IF i = 1 THEN seqs[i] ELSE flat[i - 1] \o seqs[i]]

\* It joins sequences over V.
Joins(flat, seqs, V) == FlatOf(flat, seqs) /\ \A i \in 1 .. Len(seqs) : flat[i] \in Seq(V)

(* Sequences can be joined.                                                *)
LEMMA FlatIs ==
  ASSUME NEW V, NEW seqs \in Seq(Seq(V))
  PROVE  Joins(CHOOSE f : FlatOf(f, seqs), seqs, V)
<1>1. PICK flat : flat = CHOOSE f : FlatOf(f, seqs)
  OBVIOUS
<1> DEFINE N == Len(seqs)
           F == [a \in Seq(V) \X (1 .. N) |-> a[1] \o seqs[a[2]]]
<1>2. N \in Nat /\ N = Len(seqs) /\ \A i \in 1 .. N : seqs[i] \in Seq(V)
  OBVIOUS
<1>3. F \in [Seq(V) \X (1 .. N) -> Seq(V)]
  <2>1. \A a \in Seq(V) \X (1 .. N) : a[1] \in Seq(V) /\ seqs[a[2]] \in Seq(V)
    BY <1>2
  <2>2. \A s, t \in Seq(V) : s \o t \in Seq(V)
    OBVIOUS
  <2>3. \A a \in Seq(V) \X (1 .. N) : a[1] \o seqs[a[2]] \in Seq(V)
    BY <2>1, <2>2
  <2>4. QED
    BY <2>3
<1>4. \A s \in Seq(V), i \in 1 .. N : F[<<s, i>>] = s \o seqs[i]
  OBVIOUS
<1> HIDE DEF F, N
<1>5. <<>> \in Seq(V)
  OBVIOUS
<1>6. PICK h \in [0 .. N -> Seq(V)] : Loops(h, N, <<>>, F)
  BY <1>2, <1>3, <1>5, LoopExists
<1> DEFINE g == [i \in 1 .. N |-> h[i]]
<1>7. ASSUME NEW i \in 1 .. N
      PROVE  g[i] \in Seq(V) /\ g[i] = IF i = 1 THEN seqs[i] ELSE g[i - 1] \o seqs[i]
  <2>1. i \in 0 .. N /\ i - 1 \in 0 .. N
    BY <1>2
  <2>2. h[i] = h[i - 1] \o seqs[i] /\ h[i] \in Seq(V)
    BY <1>4, <1>6, <2>1 DEF Loops
  <2>3. CASE i = 1
    <3>1. h[i - 1] = <<>>
      BY <1>6, <2>3 DEF Loops
    <3>2. <<>> \o seqs[i] = seqs[i]
      BY <1>2
    <3>3. QED
      BY <2>2, <2>3, <3>1, <3>2
  <2>4. CASE i # 1
    <3>1. i - 1 \in 1 .. N
      BY <1>2, <2>4
    <3>2. QED
      BY <2>2, <2>4, <3>1
  <2>5. QED
    BY <2>3, <2>4
<1>8. FlatOf(g, seqs)
  BY <1>2, <1>7 DEF FlatOf
<1> HIDE DEF g
<1>9. FlatOf(flat, seqs)
  BY <1>8, <1>1
<1> DEFINE Good == {i \in Nat : i \in 1 .. N => flat[i] \in Seq(V)}
<1>10. \A i \in 1 .. N : flat[i] = IF i = 1 THEN seqs[i] ELSE flat[i - 1] \o seqs[i]
  BY <1>2, <1>9 DEF FlatOf
<1>11. ASSUME NEW i \in Good
       PROVE  i + 1 \in Good
  <2>1. SUFFICES ASSUME i + 1 \in 1 .. N
                 PROVE  flat[i + 1] \in Seq(V)
    OBVIOUS
  <2>2. CASE i = 0
    <3>1. i + 1 = 1 /\ flat[1] = seqs[1] /\ seqs[1] \in Seq(V)
      BY <1>2, <1>10, <2>1, <2>2
    <3>2. QED
      BY <3>1
  <2>3. CASE i # 0
    <3>1. i \in 1 .. N /\ (i + 1) - 1 = i /\ i + 1 # 1
      BY <1>2, <2>1, <2>3
    <3>2. flat[i] \in Seq(V) /\ flat[i + 1] = flat[i] \o seqs[i + 1]
      BY <1>10, <2>1, <3>1
    <3>3. seqs[i + 1] \in Seq(V)
      BY <1>2, <2>1
    <3>4. \A s, t \in Seq(V) : s \o t \in Seq(V)
      OBVIOUS
    <3>5. QED
      BY <3>2, <3>3, <3>4
  <2>4. QED
    BY <2>2, <2>3
<1>12. Good = Nat
  <2>1. Good \in SUBSET Nat /\ 0 \in Good
    OBVIOUS
  <2> HIDE DEF Good
  <2>2. QED
    BY <1>11, <2>1, AllNumbers
<1>13. Joins(flat, seqs, V)
  <2>1. ASSUME NEW i \in 1 .. N
        PROVE  flat[i] \in Seq(V)
    <3>1. i \in Good
      <4>1. i \in Nat
        BY <1>2
      <4> HIDE DEF Good
      <4>2. QED
        BY <1>12, <4>1
    <3>2. QED
      BY <3>1
  <2>2. QED
    BY <1>2, <1>9, <2>1 DEF Joins
<1>14. QED
  BY <1>13, <1>1

\* What is listed.
Members(s) == {s[i] : i \in DOMAIN s}

\* Each part of a joined sequence lists what is in its parts.
JoinsMembers(flat, seqs) ==
  \A i \in 1 .. Len(seqs) : Members(flat[i]) = UNION {Members(seqs[j]) : j \in 1 .. i}

(* Joined sequences list what was in them.                                 *)
LEMMA FlatMembers ==
  ASSUME NEW V, NEW seqs \in Seq(Seq(V)), NEW flat, Joins(flat, seqs, V)
  PROVE  JoinsMembers(flat, seqs)
<1> DEFINE N == Len(seqs)
           Good == {i \in Nat : i \in 1 .. N =>
                      Members(flat[i]) = UNION {Members(seqs[j]) : j \in 1 .. i}}
<1>1. N \in Nat /\ \A i \in 1 .. N : seqs[i] \in Seq(V)
  OBVIOUS
<1>2. \A i \in 1 .. N : flat[i] = IF i = 1 THEN seqs[i] ELSE flat[i - 1] \o seqs[i]
  BY DEF Joins, FlatOf
<1>3. ASSUME NEW i \in Good
      PROVE  i + 1 \in Good
  <2>1. SUFFICES ASSUME i + 1 \in 1 .. N
                 PROVE  Members(flat[i + 1]) = UNION {Members(seqs[j]) : j \in 1 .. i + 1}
    OBVIOUS
  <2>2. CASE i = 0
    <3>1. 1 \in 1 .. N
      BY <2>1, <2>2
    <3> HIDE DEF N, Good
    <3>2. flat[1] = seqs[1]
      BY <1>2, <3>1
    <3>3. 1 .. i + 1 = {1} /\ i + 1 = 1
      BY <2>2
    <3>4. QED
      BY <3>2, <3>3
  <2>3. CASE i # 0
    <3>1. i \in 1 .. N /\ (i + 1) - 1 = i /\ i + 1 # 1
      BY <1>1, <2>1, <2>3
    <3>2. flat[i + 1] = flat[i] \o seqs[i + 1]
      BY <1>2, <2>1, <3>1
    <3>3. Members(flat[i + 1]) = Members(flat[i]) \cup Members(seqs[i + 1])
      <4>1. PICK a, b : a = flat[i] /\ b = seqs[i + 1]
        OBVIOUS
      <4>2. a \in Seq(V) /\ b \in Seq(V)
        BY <1>1, <2>1, <3>1, <4>1 DEF Joins
      <4>3. Members(a \o b) = Members(a) \cup Members(b)
        <5>1. /\ Len(a \o b) = Len(a) + Len(b) /\ Len(a) \in Nat /\ Len(b) \in Nat
              /\ DOMAIN a = 1 .. Len(a) /\ DOMAIN b = 1 .. Len(b)
              /\ DOMAIN (a \o b) = 1 .. Len(a) + Len(b)
              /\ \A k \in 1 .. Len(a) + Len(b) :
                   (a \o b)[k] = IF k <= Len(a) THEN a[k] ELSE b[k - Len(a)]
          BY <4>2
        <5>2. \A k \in 1 .. Len(a) : k \in 1 .. Len(a) + Len(b) /\ (a \o b)[k] = a[k]
          BY <5>1
        <5>3. \A k \in 1 .. Len(b) : /\ Len(a) + k \in 1 .. Len(a) + Len(b)
                                     /\ (a \o b)[Len(a) + k] = b[k]
          BY <5>1
        <5>4. \A k \in 1 .. Len(a) + Len(b) :
                \/ k \in 1 .. Len(a) /\ (a \o b)[k] = a[k]
                \/ k - Len(a) \in 1 .. Len(b) /\ (a \o b)[k] = b[k - Len(a)]
          BY <5>1
        <5>5. PICK c : c = a \o b
          OBVIOUS
        <5>6. ASSUME NEW x \in Members(c)
              PROVE  x \in Members(a) \cup Members(b)
          <6>1. PICK k \in 1 .. Len(a) + Len(b) : x = c[k]
            BY <5>1, <5>5 DEF Members
          <6>2. CASE k \in 1 .. Len(a) /\ c[k] = a[k]
            BY <5>1, <6>1, <6>2 DEF Members
          <6>3. CASE k - Len(a) \in 1 .. Len(b) /\ c[k] = b[k - Len(a)]
            BY <5>1, <6>1, <6>3 DEF Members
          <6>4. QED
            BY <5>4, <5>5, <6>1, <6>2, <6>3
        <5>7. Members(a) \subseteq Members(c) /\ Members(b) \subseteq Members(c)
          <6>1. DOMAIN c = 1 .. Len(a) + Len(b)
            BY <5>1, <5>5
          <6>2. \A k \in DOMAIN a : k \in DOMAIN c /\ c[k] = a[k]
            BY <5>1, <5>2, <5>5, <6>1
          <6>3. \A k \in DOMAIN b : Len(a) + k \in DOMAIN c /\ c[Len(a) + k] = b[k]
            BY <5>1, <5>3, <5>5, <6>1
          <6>4. QED
            BY <6>2, <6>3 DEF Members
        <5>8. QED
          BY <5>5, <5>6, <5>7
      <4>4. QED
        BY <3>2, <4>1, <4>3
    <3>4. Members(flat[i]) = UNION {Members(seqs[j]) : j \in 1 .. i}
      BY <3>1
    <3>5. 1 .. i + 1 = (1 .. i) \cup {i + 1}
      OBVIOUS
    <3>6. QED
      BY <3>3, <3>4, <3>5
  <2>4. QED
    BY <2>2, <2>3
<1>4. Good = Nat
  <2>1. Good \in SUBSET Nat /\ 0 \in Good
    OBVIOUS
  <2> HIDE DEF Good
  <2>2. QED
    BY <1>3, <2>1, AllNumbers
<1>5. ASSUME NEW i \in 1 .. N
      PROVE  Members(flat[i]) = UNION {Members(seqs[j]) : j \in 1 .. i}
  <2>1. i \in Good
    <3>1. i \in Nat
      BY <1>1
    <3> HIDE DEF Good
    <3>2. QED
      BY <1>4, <3>1
  <2>2. QED
    BY <2>1
<1>6. QED
  BY <1>5 DEF JoinsMembers
=============================================================================
