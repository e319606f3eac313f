---------------------------- MODULE PlansProofs -----------------------------
(***************************************************************************)
(* Theorems about the programs of Plans, which only compute, for every     *)
(* input: that what they make is accepted where it is used, and that what  *)
(* they take from a recorded trace is what was recorded.                   *)
(***************************************************************************)
EXTENDS Plans, SumsAndOrders, SequenceTheorems, TLAPS

-----------------------------------------------------------------------------
(***************************************************************************)
(* CpuSets.                                                                *)
(***************************************************************************)

\* o lists X upwards.
IsAscending(o, X, N) ==
  /\ N = Cardinality(X) /\ N \in Nat /\ o \in [1 .. N -> X]
  /\ \A i, j \in 1 .. N : i < j => o[i] < o[j]
  /\ \A x \in X : \E i \in 1 .. N : o[i] = x

(* The set of a list of CPUs, in order.                                    *)
LEMMA AscendingIs ==
  ASSUME NEW X \in SUBSET Nat, IsFiniteSet(X)
  PROVE  IsAscending(Cpu!Ascending(X), X, Cardinality(X))
<1>1. PICK N, R, T : /\ N = Cardinality(X) /\ R = {e \in X \X X : e[1] < e[2]}
                     /\ T = Listings(X, N, R)
  OBVIOUS
<1>2. Orders(R, X)
  BY <1>1, NumbersOrder
<1>3. N \in Nat /\ T # {} /\ \A o \in T : IsListing(o, X, N, R)
  BY <1>1, <1>2, ListExists
<1>4. \A o \in [1 .. N -> X] : o \in T <=> \A i, j \in DOMAIN o : i < j => o[i] < o[j]
  <2>1. ASSUME NEW o \in [1 .. N -> X]
        PROVE  o \in T <=> \A i, j \in DOMAIN o : i < j => o[i] < o[j]
    <3>1. DOMAIN o = 1 .. N /\ \A i \in 1 .. N : o[i] \in X
      OBVIOUS
    <3>2. \A i, j \in 1 .. N : <<o[i], o[j]>> \in R <=> o[i] < o[j]
      BY <1>1, <3>1
    <3>3. o \in T <=> \A i, j \in DOMAIN o : i < j => <<o[i], o[j]>> \in R
      BY <1>1 DEF Listings
    <3>4. QED
      BY <3>1, <3>2, <3>3
  <2>2. QED
    BY <2>1
<1>5. Cpu!Cardinality(X) = N
  BY <1>1 DEF Cpu!Cardinality, Cardinality, Cpu!IsFiniteSet, IsFiniteSet
<1>6. PICK o : o = Cpu!Ascending(X)
  OBVIOUS
<1>7. o \in T
  <2>1. o = CHOOSE w \in [1 .. N -> X] : \A i, j \in DOMAIN w : i < j => w[i] < w[j]
    BY <1>5, <1>6 DEF Cpu!Ascending
  <2>2. \E w \in [1 .. N -> X] : \A i, j \in DOMAIN w : i < j => w[i] < w[j]
    <3>1. PICK w : w \in T
      BY <1>3
    <3>2. w \in [1 .. N -> X]
      BY <1>3, <3>1 DEF IsListing
    <3>3. QED
      BY <1>4, <3>1, <3>2
  <2>3. o \in [1 .. N -> X] /\ \A i, j \in DOMAIN o : i < j => o[i] < o[j]
    BY <2>1, <2>2
  <2>4. QED
    BY <1>4, <2>3
<1>8. IsListing(o, X, N, R)
  BY <1>3, <1>7
<1>9. o \in [1 .. N -> X] /\ \A i, j \in 1 .. N : i < j => o[i] < o[j]
  <2>1. o \in [1 .. N -> X] /\ DOMAIN o = 1 .. N
    BY <1>8 DEF IsListing
  <2>2. QED
    BY <1>4, <1>7, <2>1
<1>10. \A x \in X : \E i \in 1 .. N : o[i] = x
  BY <1>8 DEF IsListing
<1>11. IsAscending(o, X, N)
  BY <1>1, <1>3, <1>9, <1>10 DEF IsAscending
<1>12. QED
  BY <1>1, <1>6, <1>11

\* c lies in one of the ranges.
Covered(ranges, c) ==
  \E i \in 1 .. Len(ranges) : ranges[i][1] <= c /\ c <= ranges[i][2]

\* The first n CPUs, and those among them that begin a range.
FirstCpus(cpus, n) == {cpus[m] : m \in 1 .. n}
Begins(cpus, n) == {c \in FirstCpus(cpus, n) : c - 1 \notin FirstCpus(cpus, n)}

\* ranges is what format_cpu_list has of the first n CPUs.
Formats(ranges, cpus, n) ==
  /\ ranges \in Seq(Nat \X Nat) /\ Len(ranges) > 0
  /\ ranges[Len(ranges)][2] = cpus[n]
  /\ \A i \in 1 .. Len(ranges) : ranges[i][1] <= ranges[i][2]
  /\ \A c \in Nat : Covered(ranges, c) <=> c \in FirstCpus(cpus, n)
  /\ IsFiniteSet(Begins(cpus, n)) /\ Cardinality(Begins(cpus, n)) = Len(ranges)

\* One turn of its loop.
Extend(ranges, cpu) ==
  IF cpu = ranges[Len(ranges)][2] + 1
  THEN [ranges EXCEPT ![Len(ranges)] = <<ranges[Len(ranges)][1], cpu>>]
  ELSE Append(ranges, <<cpu, cpu>>)

(* The first CPU begins a range.                                           *)
LEMMA FormatsFirst ==
  ASSUME NEW N \in Nat \ {0}, NEW cpus \in [1 .. N -> Nat]
  PROVE  Formats(<< <<cpus[1], cpus[1]>> >>, cpus, 1)
<1>1. PICK c \in Nat : c = cpus[1]
  <2>1. 1 \in 1 .. N
    OBVIOUS
  <2>2. QED
    BY <2>1
<1>2. PICK r : r = << <<c, c>> >>
  OBVIOUS
<1>3. r \in Seq(Nat \X Nat) /\ Len(r) = 1 /\ r[1][1] = c /\ r[1][2] = c
  BY <1>2
<1>4. FirstCpus(cpus, 1) = {c}
  BY <1>1 DEF FirstCpus
<1>5. Begins(cpus, 1) = {c}
  <2>1. c - 1 # c
    OBVIOUS
  <2>2. QED
    BY <1>4, <2>1 DEF Begins
<1>6. IsFiniteSet({c}) /\ Cardinality({c}) = 1
  BY FS_Singleton
<1>7. \A d \in Nat : Covered(r, d) <=> d = c
  BY <1>3 DEF Covered
<1>8. \A i \in 1 .. Len(r) : i = 1 /\ r[i][1] <= r[i][2]
  BY <1>3
<1>9. Len(r) > 0 /\ r[Len(r)][2] = cpus[1]
  BY <1>1, <1>3
<1>10. \A d \in Nat : Covered(r, d) <=> d \in FirstCpus(cpus, 1)
  BY <1>4, <1>7
<1>11. IsFiniteSet(Begins(cpus, 1)) /\ Cardinality(Begins(cpus, 1)) = Len(r)
  BY <1>3, <1>5, <1>6
<1>12. Formats(r, cpus, 1)
  BY <1>3, <1>8, <1>9, <1>10, <1>11 DEF Formats
<1>13. QED
  BY <1>1, <1>2, <1>12

(* Each later CPU extends the last range or begins another.                *)
LEMMA FormatsNext ==
  ASSUME NEW N \in Nat, NEW cpus \in [1 .. N -> Nat],
         \A i, j \in 1 .. N : i < j => cpus[i] < cpus[j],
         NEW n \in 1 .. N, n + 1 \in 1 .. N, NEW ranges, Formats(ranges, cpus, n)
  PROVE  Formats(Extend(ranges, cpus[n + 1]), cpus, n + 1)
<1>1. PICK a \in Nat, b \in Nat, L \in Nat : a = cpus[n] /\ b = cpus[n + 1] /\ L = Len(ranges)
  BY DEF Formats
<1>2. a < b /\ \A m \in 1 .. n : m \in 1 .. N /\ cpus[m] \in Nat /\ cpus[m] <= a
  <2>1. \A m \in 1 .. n : m \in 1 .. N /\ (m < n \/ m = n)
    OBVIOUS
  <2>2. n < n + 1
    OBVIOUS
  <2>3. QED
    BY <1>1, <2>1, <2>2
<1>3. FirstCpus(cpus, n + 1) = FirstCpus(cpus, n) \cup {b}
  <2>1. 1 .. n + 1 = (1 .. n) \cup {n + 1}
    OBVIOUS
  <2>2. QED
    BY <1>1, <2>1 DEF FirstCpus
<1>4. /\ ranges \in Seq(Nat \X Nat) /\ L > 0 /\ ranges[L][2] = a
      /\ \A i \in 1 .. L : ranges[i][1] \in Nat /\ ranges[i][2] \in Nat /\ ranges[i][1] <= ranges[i][2]
      /\ \A c \in Nat : Covered(ranges, c) <=> c \in FirstCpus(cpus, n)
      /\ IsFiniteSet(Begins(cpus, n)) /\ Cardinality(Begins(cpus, n)) = L
  BY <1>1 DEF Formats
<1>5. PICK P : P = FirstCpus(cpus, n)
  OBVIOUS
<1>6. L \in 1 .. L
  BY <1>4
<1>7. \A c \in P : c \in Nat /\ c <= a
  BY <1>2, <1>5 DEF FirstCpus
<1>8. a \in P
  BY <1>1, <1>5 DEF FirstCpus
<1>9. b \notin P
  BY <1>2, <1>7
<1>10. CASE b = a + 1
  <2>1. PICK first \in Nat : first = ranges[L][1]
    BY <1>4, <1>6
  <2>2. PICK r : r = [ranges EXCEPT ![L] = <<first, b>>]
    OBVIOUS
  <2>3. Extend(ranges, b) = r
    BY <1>1, <1>4, <1>10, <2>1, <2>2 DEF Extend
  <2>4. /\ r \in Seq(Nat \X Nat) /\ Len(r) = L /\ r[L] = <<first, b>>
        /\ \A i \in 1 .. L : i # L => r[i] = ranges[i]
    <3>1. <<first, b>> \in Nat \X Nat /\ L \in 1 .. Len(ranges)
      BY <1>1, <1>4
    <3>2. QED
      BY <1>1, <1>4, <2>2, <3>1
  <2>5. \A i \in 1 .. L : r[i][1] <= r[i][2]
    <3>1. first <= b
      <4>1. first <= a
        BY <1>4, <1>6, <2>1
      <4>2. QED
        BY <1>2, <4>1
    <3>2. ASSUME NEW i \in 1 .. L
          PROVE  r[i][1] <= r[i][2]
      <4>1. CASE i = L
        BY <2>4, <3>1, <4>1
      <4>2. CASE i # L
        BY <1>4, <2>4, <4>2
      <4>3. QED
        BY <4>1, <4>2
    <3>3. QED
      BY <3>2
  <2>6. \A c \in Nat : Covered(r, c) <=> Covered(ranges, c) \/ c = b
    <3>1. \A c \in Nat : (first <= c /\ c <= b) <=> (first <= c /\ c <= a) \/ c = b
      <4>1. first <= a
        BY <1>4, <1>6, <2>1
      <4>2. QED
        BY <1>10, <4>1
    <3>2. L \in 1 .. L /\ r[L][1] = first /\ r[L][2] = b
      BY <1>6, <2>4
    <3>3. \A c \in Nat : Covered(r, c) <=>
            (first <= c /\ c <= b) \/ \E i \in 1 .. L : i # L /\ r[i][1] <= c /\ c <= r[i][2]
      <4>1. \A c : Covered(r, c) <=> \E i \in 1 .. L : r[i][1] <= c /\ c <= r[i][2]
        BY <2>4 DEF Covered
      <4>2. QED
        BY <3>2, <4>1
    <3>4. \A c \in Nat : Covered(ranges, c) <=>
            (first <= c /\ c <= a) \/ \E i \in 1 .. L : i # L /\ ranges[i][1] <= c /\ c <= ranges[i][2]
      <4>1. \A c : Covered(ranges, c) <=> \E i \in 1 .. L : ranges[i][1] <= c /\ c <= ranges[i][2]
        BY <1>1 DEF Covered
      <4>2. QED
        BY <1>4, <2>1, <3>2, <4>1
    <3>5. \A c \in Nat :
            (\E i \in 1 .. L : i # L /\ r[i][1] <= c /\ c <= r[i][2])
              <=> (\E i \in 1 .. L : i # L /\ ranges[i][1] <= c /\ c <= ranges[i][2])
      BY <2>4
    <3>6. QED
      BY <3>1, <3>3, <3>4, <3>5
  <2>7. Begins(cpus, n + 1) = Begins(cpus, n)
    <3>1. b - 1 = a /\ \A c \in P : c - 1 # b
      BY <1>2, <1>7, <1>10
    <3>2. QED
      BY <1>3, <1>5, <1>8, <1>9, <3>1 DEF Begins
  <2>8. r[Len(r)][2] = b /\ Len(r) = L /\ L > 0
    BY <1>4, <2>4
  <2>9. \A c \in Nat : Covered(r, c) <=> c \in FirstCpus(cpus, n + 1)
    BY <1>3, <1>4, <2>6
  <2>10. Formats(r, cpus, n + 1)
    BY <1>1, <1>4, <2>4, <2>5, <2>7, <2>8, <2>9 DEF Formats
  <2>11. QED
    BY <1>1, <2>3, <2>10
<1>11. CASE b # a + 1
  <2>1. PICK r : r = Append(ranges, <<b, b>>)
    OBVIOUS
  <2>2. Extend(ranges, b) = r
    BY <1>1, <1>4, <1>11, <2>1 DEF Extend
  <2>3. /\ r \in Seq(Nat \X Nat) /\ Len(r) = L + 1 /\ r[L + 1] = <<b, b>>
        /\ \A i \in 1 .. L : r[i] = ranges[i]
    BY <1>1, <1>4, <2>1
  <2>4. \A i \in 1 .. L + 1 : i \in 1 .. L \/ i = L + 1
    OBVIOUS
  <2>5. \A i \in 1 .. L + 1 : r[i][1] <= r[i][2]
    <3>1. ASSUME NEW i \in 1 .. L
          PROVE  r[i][1] <= r[i][2]
      BY <1>4, <2>3
    <3>2. r[L + 1][1] <= r[L + 1][2]
      BY <2>3
    <3>3. QED
      BY <2>4, <3>1, <3>2
  <2>6. \A c \in Nat : Covered(r, c) <=> Covered(ranges, c) \/ c = b
    <3>1. L + 1 \in 1 .. L + 1 /\ \A i \in 1 .. L : i \in 1 .. L + 1
      OBVIOUS
    <3>2. r[L + 1][1] = b /\ r[L + 1][2] = b
      BY <2>3
    <3>3. \A c \in Nat : b <= c /\ c <= b <=> c = b
      OBVIOUS
    <3>4. \A c \in Nat : Covered(r, c) <=>
            (b <= c /\ c <= b) \/ \E i \in 1 .. L : r[i][1] <= c /\ c <= r[i][2]
      BY <2>3, <2>4, <3>1, <3>2 DEF Covered
    <3>5. \A c \in Nat : Covered(ranges, c) <=> \E i \in 1 .. L : r[i][1] <= c /\ c <= r[i][2]
      BY <1>1, <2>3 DEF Covered
    <3>6. QED
      BY <3>3, <3>4, <3>5
  <2>7. Begins(cpus, n + 1) = Begins(cpus, n) \cup {b} /\ b \notin Begins(cpus, n)
    <3>1. b - 1 \notin P /\ b - 1 # b /\ \A c \in P : c - 1 # b
      BY <1>2, <1>7, <1>11
    <3>2. QED
      BY <1>3, <1>5, <1>9, <3>1 DEF Begins
  <2>8. /\ IsFiniteSet(Begins(cpus, n + 1))
        /\ Cardinality(Begins(cpus, n + 1)) = L + 1
    <3>1. PICK B : B = Begins(cpus, n)
      OBVIOUS
    <3>2. IsFiniteSet(B \cup {b}) /\ Cardinality(B \cup {b}) = Cardinality(B) + 1
      BY <1>4, <2>7, <3>1, FS_AddElement
    <3>3. QED
      BY <1>4, <2>7, <3>1, <3>2
  <2>9. L + 1 > 0 /\ r[Len(r)][2] = b /\ Len(r) = L + 1
    BY <2>3
  <2>10. \A c \in Nat : Covered(r, c) <=> c \in FirstCpus(cpus, n + 1)
    BY <1>3, <1>4, <2>6
  <2>11. Formats(r, cpus, n + 1)
    BY <1>1, <2>3, <2>5, <2>8, <2>9, <2>10 DEF Formats
  <2>12. QED
    BY <1>1, <2>2, <2>11
<1>12. QED
  BY <1>10, <1>11

\* The ranges after each turn of the loop.
RangesOf(f, cpus) ==
  f = [n \in 1 .. Len(cpus) |->
         IF n = 1 THEN << <<cpus[1], cpus[1]>> >> ELSE Extend(f[n - 1], cpus[n])]

(* The list of CPUs is made by such a loop.                                *)
LEMMA FormatIsLoop ==
  ASSUME NEW cpus
  PROVE  Cpu!FormatCpuList(cpus) = (CHOOSE f : RangesOf(f, cpus))[Len(cpus)]
  BY DEF Cpu!FormatCpuList, RangesOf, Extend

(* There is one.                                                           *)
LEMMA RangesExist ==
  ASSUME NEW N \in Nat \ {0}, NEW cpus \in [1 .. N -> Nat], Len(cpus) = N
  PROVE  \E f : RangesOf(f, cpus)
<1> DEFINE V == {r \in Seq(Nat \X Nat) : Len(r) > 0}
           base == << <<cpus[1], cpus[1]>> >>
           F == [e \in V \X (1 .. N) |-> IF e[2] = 1 THEN base ELSE Extend(e[1], cpus[e[2]])]
<1>1. base \in V
  <2>1. PICK c \in Nat : c = cpus[1]
    <3>1. 1 \in 1 .. N
      OBVIOUS
    <3>2. QED
      BY <3>1
  <2>2. << <<c, c>> >> \in Seq(Nat \X Nat) /\ Len(<< <<c, c>> >>) = 1
    OBVIOUS
  <2>3. QED
    BY <2>1, <2>2
<1>2. ASSUME NEW r \in V, NEW c \in Nat
      PROVE  Extend(r, c) \in V
  <2>1. r \in Seq(Nat \X Nat) /\ Len(r) \in Nat /\ Len(r) \in 1 .. Len(r)
    OBVIOUS
  <2>2. r[Len(r)] \in Nat \X Nat
    BY <2>1
  <2>3. <<r[Len(r)][1], c>> \in Nat \X Nat /\ <<c, c>> \in Nat \X Nat
    BY <2>2
  <2>4. /\ [r EXCEPT ![Len(r)] = <<r[Len(r)][1], c>>] \in Seq(Nat \X Nat)
        /\ Len([r EXCEPT ![Len(r)] = <<r[Len(r)][1], c>>]) = Len(r)
    BY <2>1, <2>3
  <2>5. Append(r, <<c, c>>) \in Seq(Nat \X Nat) /\ Len(Append(r, <<c, c>>)) = Len(r) + 1
    BY <2>1, <2>3
  <2>6. QED
    BY <2>1, <2>4, <2>5 DEF Extend
<1>3. F \in [V \X (1 .. N) -> V]
  <2> HIDE DEF V, base
  <2>1. \A e \in V \X (1 .. N) :
          (IF e[2] = 1 THEN base ELSE Extend(e[1], cpus[e[2]])) \in V
    BY <1>1, <1>2
  <2>2. QED
    BY <2>1
<1>4. \A r \in V, n \in 1 .. N : F[<<r, n>>] = IF n = 1 THEN base ELSE Extend(r, cpus[n])
  <2> HIDE DEF V, base
  <2>1. QED
    OBVIOUS
<1> HIDE DEF F
<1>5. PICK h \in [0 .. N -> V] : Loops(h, N, base, F)
  <2> HIDE DEF V, base
  <2>1. QED
    BY <1>1, <1>3, LoopExists
<1> DEFINE f == [n \in 1 .. N |-> h[n]]
<1>6. ASSUME NEW n \in 1 .. N
      PROVE  f[n] = IF n = 1 THEN base ELSE Extend(f[n - 1], cpus[n])
  <2> HIDE DEF V, base
  <2>1. n \in 0 .. N /\ n - 1 \in 0 .. N /\ (n # 1 => n - 1 \in 1 .. N)
    OBVIOUS
  <2>2. h[n] = F[<<h[n - 1], n>>] /\ h[n - 1] \in V
    BY <1>5, <2>1 DEF Loops
  <2>3. QED
    BY <1>4, <2>1, <2>2
<1>7. RangesOf(f, cpus)
  <2> HIDE DEF f
  <2>1. f = [n \in 1 .. N |-> f[n]]
    BY DEF f
  <2>2. QED
    BY <1>6, <2>1 DEF RangesOf
<1>8. QED
  BY <1>7

(* format_cpu_list covers the CPUs and no others, in as few ranges as      *)
(* there can be.                                                           *)
LEMMA FormatIs ==
  ASSUME NEW N \in Nat \ {0}, NEW cpus \in [1 .. N -> Nat], Len(cpus) = N,
         \A i, j \in 1 .. N : i < j => cpus[i] < cpus[j]
  PROVE  Formats(Cpu!FormatCpuList(cpus), cpus, N)
<1>1. PICK f : f = CHOOSE g : RangesOf(g, cpus)
  OBVIOUS
<1>2. Cpu!FormatCpuList(cpus) = f[N]
  BY <1>1, FormatIsLoop
<1>3. \A n \in 1 .. N : f[n] = IF n = 1 THEN << <<cpus[1], cpus[1]>> >>
                                 ELSE Extend(f[n - 1], cpus[n])
  <2>1. RangesOf(f, cpus)
    BY <1>1, RangesExist
  <2>2. QED
    BY <2>1 DEF RangesOf
<1> DEFINE Good == {n \in Nat : n \in 1 .. N => Formats(f[n], cpus, n)}
<1>4. ASSUME NEW n \in Good
      PROVE  n + 1 \in Good
  <2>1. SUFFICES ASSUME n + 1 \in 1 .. N
                 PROVE  Formats(f[n + 1], cpus, n + 1)
    OBVIOUS
  <2>2. CASE n = 0
    <3>1. f[1] = << <<cpus[1], cpus[1]>> >>
      BY <1>3, <2>1, <2>2
    <3>2. n + 1 = 1
      BY <2>2
    <3>3. Formats(f[1], cpus, 1)
      BY <3>1, FormatsFirst
    <3>4. QED
      BY <3>2, <3>3
  <2>3. CASE n # 0
    <3>1. n \in 1 .. N /\ n + 1 # 1 /\ (n + 1) - 1 = n
      BY <2>1, <2>3
    <3>2. f[n + 1] = Extend(f[n], cpus[n + 1]) /\ Formats(f[n], cpus, n)
      BY <1>3, <2>1, <3>1
    <3>3. QED
      BY <2>1, <3>1, <3>2, FormatsNext
  <2>4. QED
    BY <2>2, <2>3
<1>5. Good = Nat
  <2>1. Good \in SUBSET Nat /\ 0 \in Good
    OBVIOUS
  <2> HIDE DEF Good
  <2>2. QED
    BY <1>4, <2>1, AllNumbers
<1>6. N \in 1 .. N
  OBVIOUS
<1>7. QED
  BY <1>2, <1>5, <1>6

(* What the readers make of a list before they sort it.                    *)
LEMMA ExpandedIs ==
  ASSUME NEW parts \in Seq(Nat \X Nat), Len(parts) > 0,
         \A i \in 1 .. Len(parts) : parts[i][1] <= parts[i][2]
  PROVE  /\ Cpu!Range(Cpu!Expanded(parts)) \in SUBSET Nat
         /\ \A c \in Nat : c \in Cpu!Range(Cpu!Expanded(parts)) <=> Covered(parts, c)
<1>1. PICK N \in Nat : N = Len(parts) /\ N > 0
  OBVIOUS
<1>2. DOMAIN parts = 1 .. N /\ N \in 1 .. N
  BY <1>1
<1> DEFINE part(n) == [k \in 1 .. parts[n][2] - parts[n][1] + 1 |-> parts[n][1] + k - 1]
           seqs == [n \in 1 .. N |-> part(n)]
<1>3. ASSUME NEW n \in 1 .. N
      PROVE  part(n) \in Seq(Nat) /\ \A c \in Nat : c \in Members(part(n)) <=>
                                                   parts[n][1] <= c /\ c <= parts[n][2]
  <2>1. parts[n] \in Nat \X Nat
    BY <1>2
  <2>2. PICK a \in Nat, b \in Nat : a = parts[n][1] /\ b = parts[n][2]
    BY <2>1
  <2>3. a <= b
    BY <1>1, <2>2
  <2>4. b - a + 1 \in Nat /\ \A k \in 1 .. b - a + 1 : a + k - 1 \in Nat
    BY <2>3
  <2>5. PICK p : p = [k \in 1 .. b - a + 1 |-> a + k - 1]
    OBVIOUS
  <2>6. p \in Seq(Nat) /\ DOMAIN p = 1 .. b - a + 1 /\ \A k \in 1 .. b - a + 1 : p[k] = a + k - 1
    BY <2>4, <2>5
  <2>7. ASSUME NEW c \in Nat
        PROVE  c \in Members(p) <=> a <= c /\ c <= b
    <3>1. ASSUME a <= c, c <= b
          PROVE  c \in Members(p)
      <4>1. c - a + 1 \in 1 .. b - a + 1 /\ a + (c - a + 1) - 1 = c
        BY <3>1
      <4>2. QED
        BY <2>6, <4>1 DEF Members
    <3>2. ASSUME c \in Members(p)
          PROVE  a <= c /\ c <= b
      <4>1. PICK k \in 1 .. b - a + 1 : c = a + k - 1
        BY <2>6, <3>2 DEF Members
      <4>2. QED
        BY <4>1
    <3>3. QED
      BY <3>1, <3>2
  <2>8. part(n) = p
    BY <2>2, <2>5
  <2> HIDE DEF part
  <2>9. QED
    BY <2>2, <2>6, <2>7, <2>8
<1>4. seqs \in Seq(Seq(Nat)) /\ Len(seqs) = N /\ \A n \in 1 .. N : seqs[n] = part(n)
  <2> HIDE DEF part
  <2>1. QED
    BY <1>3
<1>5. Cpu!Expanded(parts) = Cpu!FlattenSeq(seqs)
  BY <1>2 DEF Cpu!Expanded
<1> HIDE DEF seqs
<1>6. PICK flat : flat = CHOOSE f : FlatOf(f, seqs)
  OBVIOUS
<1>7. Cpu!FlattenSeq(seqs) = flat[N]
  BY <1>1, <1>4, <1>6 DEF Cpu!FlattenSeq, FlatOf
<1>8. Joins(flat, seqs, Nat)
  BY <1>4, <1>6, FlatIs
<1>9. JoinsMembers(flat, seqs)
  BY <1>4, <1>8, FlatMembers
<1>10. flat[N] \in Seq(Nat) /\ Members(flat[N]) = UNION {Members(seqs[j]) : j \in 1 .. N}
  BY <1>2, <1>4, <1>8, <1>9 DEF Joins, JoinsMembers
<1>11. Cpu!Range(Cpu!Expanded(parts)) = Members(flat[N])
  BY <1>5, <1>7 DEF Cpu!Range, Members
<1>12. Members(flat[N]) \in SUBSET Nat
  BY <1>10 DEF Members
<1>13. \A c \in Nat : c \in Members(flat[N]) <=> Covered(parts, c)
  <2> HIDE DEF part
  <2>1. \A c \in Nat : Covered(parts, c) <=> \E n \in 1 .. N : c \in Members(seqs[n])
    BY <1>1, <1>3, <1>4 DEF Covered
  <2>2. QED
    BY <1>10, <2>1
<1>14. QED
  BY <1>11, <1>12, <1>13

(* The experiment's CPUs are listed in order.                              *)
LEMMA CpusetIs ==
  ASSUME Cpu!CpuInit
  PROVE  \E X \in SUBSET Nat :
           /\ IsFiniteSet(X) /\ Cpu!Cpuset(input) = Cpu!Ascending(X)
           /\ input.override = <<>> => X \subseteq input.affinity
<1>1. PICK parts : parts = << <<1, 2>>, <<2, 2>> >>
  OBVIOUS
<1>2. /\ input.override \in {<<>>, parts}
      /\ input.online \in SUBSET Cpus /\ input.affinity \in SUBSET Cpus
  BY <1>1 DEF Cpu!CpuInit
<1>3. \A X \in SUBSET Cpus : X \in SUBSET Nat /\ IsFiniteSet(X)
  BY PlansAssumption, FS_Subset DEF PlansAssumption
<1>4. CASE input.override # <<>>
  <2>1. PICK X : X = Cpu!Range(Cpu!Expanded(parts))
    OBVIOUS
  <2>2. /\ parts \in Seq(Nat \X Nat) /\ Len(parts) = 2
        /\ parts[1][1] = 1 /\ parts[1][2] = 2 /\ parts[2][1] = 2 /\ parts[2][2] = 2
    BY <1>1
  <2>3. \A i \in 1 .. Len(parts) : (i = 1 \/ i = 2) /\ parts[i][1] <= parts[i][2]
    BY <2>2
  <2>4. X \in SUBSET Nat /\ \A c \in Nat : c \in X <=> Covered(parts, c)
    <3>1. /\ parts \in Seq(Nat \X Nat) /\ Len(parts) > 0
          /\ \A i \in 1 .. Len(parts) : parts[i][1] <= parts[i][2]
      BY <2>2, <2>3
    <3>2. QED
      BY <2>1, <3>1, ExpandedIs
  <2>5. \A c \in Nat : Covered(parts, c) => c = 1 \/ c = 2
    <3>1. \A c \in Nat : (1 <= c /\ c <= 2) \/ (2 <= c /\ c <= 2) => c = 1 \/ c = 2
      OBVIOUS
    <3>2. QED
      BY <2>2, <2>3, <3>1 DEF Covered
  <2>6. X \subseteq {1, 2}
    BY <2>4, <2>5
  <2>7. IsFiniteSet({1, 2})
    <3>1. IsFiniteSet({1} \cup {2})
      BY FS_Singleton, FS_AddElement
    <3>2. {1} \cup {2} = {1, 2}
      OBVIOUS
    <3>3. QED
      BY <3>1, <3>2
  <2>8. IsFiniteSet(X)
    BY <2>6, <2>7, FS_Subset
  <2>9. Cpu!Cpuset(input) = Cpu!Ascending(X)
    BY <1>2, <1>4, <2>1 DEF Cpu!Cpuset, Cpu!ParseCpuList
  <2>10. QED
    BY <1>4, <2>4, <2>8, <2>9
<1>5. CASE input.override = <<>> /\ input.online = {}
  <2>1. Cpu!Cpuset(input) = Cpu!Ascending(input.affinity)
    BY <1>5 DEF Cpu!Cpuset
  <2>2. QED
    BY <1>2, <1>3, <2>1
<1>6. CASE input.override = <<>> /\ input.online # {}
  <2>1. PICK X : X = input.online \cap input.affinity
    OBVIOUS
  <2>2. Cpu!Cpuset(input) = Cpu!Ascending(X)
    BY <1>6, <2>1 DEF Cpu!Cpuset
  <2>3. X \in SUBSET Cpus /\ X \subseteq input.affinity
    BY <1>2, <2>1
  <2>4. QED
    BY <1>3, <2>2, <2>3
<1>7. QED
  BY <1>4, <1>5, <1>6

(* Every reader finds the CPUs that the experiment wrote.                  *)
LEMMA CpuPromise == Cpu!CpuInit => Cpu!ListsRoundTrip
<1>1. SUFFICES ASSUME Cpu!CpuInit
               PROVE  Cpu!ListsRoundTrip
  OBVIOUS
<1>2. PICK X \in SUBSET Nat :
        /\ IsFiniteSet(X) /\ Cpu!Cpuset(input) = Cpu!Ascending(X)
        /\ input.override = <<>> => X \subseteq input.affinity
  BY <1>1, CpusetIs
<1>3. PICK cpus, N : cpus = Cpu!Ascending(X) /\ N = Cardinality(X)
  OBVIOUS
<1>4. /\ N \in Nat /\ cpus \in [1 .. N -> X] /\ \A i, j \in 1 .. N : i < j => cpus[i] < cpus[j]
      /\ \A x \in X : \E i \in 1 .. N : cpus[i] = x
  BY <1>2, <1>3, AscendingIs DEF IsAscending
<1>5. DOMAIN cpus = 1 .. N /\ Len(cpus) = N /\ cpus \in [1 .. N -> Nat]
  <2>1. DOMAIN cpus = 1 .. N /\ cpus \in [1 .. N -> Nat]
    BY <1>4
  <2>2. cpus \in Seq(Nat)
    BY <1>4, <2>1
  <2>3. QED
    BY <1>4, <2>1, <2>2
<1>6. Cpu!Range(cpus) = X /\ FirstCpus(cpus, N) = X
  <2>1. \A i \in 1 .. N : cpus[i] \in X
    BY <1>4
  <2>2. QED
    BY <1>4, <1>5, <2>1 DEF Cpu!Range, FirstCpus
<1>7. SUFFICES ASSUME cpus # <<>>
               PROVE  LET parts == Cpu!FormatCpuList(cpus)
                          starts == {c \in Cpu!Range(cpus) : c - 1 \notin Cpu!Range(cpus)}
                      IN /\ Cpu!ParseCpuList(parts) = cpus
                         /\ Cpu!Node0ParseCpus(parts) = cpus
                         /\ Cpu!ColocateParseCpuList(parts) = cpus
                         /\ Cpu!YigCpusetCpus(parts) = cpus
                         /\ Len(parts) = Cpu!Cardinality(starts)
                         /\ input.override = <<>> => Cpu!Range(cpus) \subseteq input.affinity
  BY <1>2, <1>3 DEF Cpu!ListsRoundTrip
<1>8. N \in Nat \ {0}
  <2>1. SUFFICES ASSUME N = 0
                 PROVE  FALSE
    BY <1>4
  <2>2. cpus \in Seq(Nat) /\ Len(cpus) = 0
    BY <1>4, <1>5, <2>1
  <2>3. QED
    BY <1>7, <2>2
<1>9. PICK parts : parts = Cpu!FormatCpuList(cpus)
  OBVIOUS
<1>10. Formats(parts, cpus, N)
  BY <1>4, <1>5, <1>8, <1>9, FormatIs
<1>11. /\ parts \in Seq(Nat \X Nat) /\ Len(parts) > 0
       /\ \A i \in 1 .. Len(parts) : parts[i][1] <= parts[i][2]
       /\ \A c \in Nat : Covered(parts, c) <=> c \in X
       /\ Cardinality(Begins(cpus, N)) = Len(parts)
  BY <1>6, <1>10 DEF Formats
<1>12. Cpu!Range(Cpu!Expanded(parts)) = X
  <2>1. PICK Y : Y = Cpu!Range(Cpu!Expanded(parts))
    OBVIOUS
  <2>2. Y \in SUBSET Nat /\ \A c \in Nat : c \in Y <=> Covered(parts, c)
    BY <1>11, <2>1, ExpandedIs
  <2>3. \A c \in Nat : c \in Y <=> c \in X
    BY <1>11, <2>2
  <2>4. Y = X
    BY <2>2, <2>3
  <2>5. QED
    BY <2>1, <2>4
<1>13. Cpu!Ascending(Cpu!Range(Cpu!Expanded(parts))) = cpus
  BY <1>3, <1>12
<1>14. parts # <<>>
  BY <1>11
<1>15. Len(parts) = Cpu!Cardinality({c \in Cpu!Range(cpus) : c - 1 \notin Cpu!Range(cpus)})
  <2>1. {c \in Cpu!Range(cpus) : c - 1 \notin Cpu!Range(cpus)} = Begins(cpus, N)
    BY <1>6 DEF Begins
  <2>2. Cpu!Cardinality(Begins(cpus, N)) = Cardinality(Begins(cpus, N))
    BY DEF Cpu!Cardinality, Cardinality, Cpu!IsFiniteSet, IsFiniteSet
  <2>3. QED
    BY <1>11, <2>1, <2>2
<1>16. QED
  BY <1>2, <1>6, <1>9, <1>13, <1>14, <1>15
     DEF Cpu!ParseCpuList, Cpu!Node0ParseCpus, Cpu!ColocateParseCpuList, Cpu!YigCpusetCpus

-----------------------------------------------------------------------------
(***************************************************************************)
(* LaunchSchedule.                                                         *)
(***************************************************************************)

\* The gap before each session but the first.
Gaps(values, draws, scale) == [n \in DOMAIN draws |-> values[draws[n]] * scale]

\* The offsets that make_schedule adds up.
OffsetsOf(offset, values, draws, scale) ==
  offset = [n \in 1 .. Len(draws) + 1 |->
              IF n = 1 THEN 0 ELSE offset[n - 1] + values[draws[n - 1]] * scale]

(* There are such offsets: the sums of the gaps.                           *)
LEMMA OffsetsExist ==
  ASSUME NEW values \in Seq(Nat), NEW draws \in Seq(DOMAIN values), NEW scale \in Nat
  PROVE  \E offset : OffsetsOf(offset, values, draws, scale)
<1> DEFINE D == DOMAIN draws
           p == Gaps(values, draws, scale)
           offset == [n \in 1 .. Len(draws) + 1 |-> Sums(p, D)[1 .. n - 1]]
<1>1. D = 1 .. Len(draws) /\ Len(draws) \in Nat /\ IsFiniteSet(D)
  BY FS_Interval
<1>2. p \in [D -> Nat] /\ \A n \in D : p[n] = values[draws[n]] * scale
  <2>1. \A n \in D : values[draws[n]] \in Nat
    OBVIOUS
  <2>2. \A m \in Nat : m * scale \in Nat
    OBVIOUS
  <2>3. QED
    BY <2>1, <2>2 DEF Gaps
<1> HIDE DEF D, p
<1>3. ASSUME NEW n \in 1 .. Len(draws) + 1
      PROVE  offset[n] = IF n = 1 THEN 0 ELSE offset[n - 1] + values[draws[n - 1]] * scale
  <2>1. CASE n = 1
    <3>1. Sums(p, D)[{}] = 0
      <4>1. {} \in SUBSET D
        OBVIOUS
      <4>2. QED
        BY <1>1, <1>2, <4>1, SumsAdd
    <3>2. 1 .. n - 1 = {}
      BY <2>1
    <3>3. QED
      BY <2>1, <3>1, <3>2
  <2>2. CASE n # 1
    <3>1. /\ n - 1 \in 1 .. Len(draws) + 1 /\ n - 1 \in D /\ 1 .. n - 1 \in SUBSET D
          /\ n - 1 \in 1 .. n - 1 /\ (1 .. n - 1) \ {n - 1} = 1 .. (n - 1) - 1
      <4>1. PICK k \in Nat : k = n - 1 /\ 1 <= k /\ k <= Len(draws)
        BY <1>1, <2>2
      <4>2. k \in 1 .. Len(draws) + 1 /\ k \in D /\ 1 .. k \in SUBSET D /\ k \in 1 .. k
        BY <1>1, <4>1
      <4>3. (1 .. k) \ {k} = 1 .. k - 1
        BY <4>1
      <4>4. QED
        BY <4>1, <4>2, <4>3
    <3>2. Summand(D, p, 1 .. n - 1, n - 1)
      BY <1>1, <1>2, <3>1 DEF Summand
    <3>3. Sums(p, D)[1 .. n - 1] = Sums(p, D)[1 .. (n - 1) - 1] + p[n - 1]
      <4>1. IsAdded(D, p, 1 .. n - 1, n - 1)
        BY <3>2, SummandIsAdded
      <4>2. Sums(p, D)[1 .. n - 1] = Sums(p, D)[(1 .. n - 1) \ {n - 1}] + p[n - 1]
        BY <4>1 DEF IsAdded
      <4>3. QED
        BY <3>1, <4>2
    <3>4. offset[n] = Sums(p, D)[1 .. n - 1] /\ offset[n - 1] = Sums(p, D)[1 .. (n - 1) - 1]
      BY <3>1
    <3>5. p[n - 1] = values[draws[n - 1]] * scale
      BY <1>2, <3>1
    <3> HIDE DEF offset
    <3>6. QED
      BY <2>2, <3>3, <3>4, <3>5
  <2>3. QED
    BY <2>1, <2>2
<1>4. OffsetsOf(offset, values, draws, scale)
  BY <1>3 DEF OffsetsOf
<1>5. QED
  BY <1>4

(* The offsets begin at 0 and never go down.                               *)
LEMMA OffsetsGoUp ==
  ASSUME NEW values \in Seq(Nat), NEW draws \in Seq(DOMAIN values), NEW scale \in Nat,
         NEW offset, OffsetsOf(offset, values, draws, scale)
  PROVE  /\ offset[1] = 0
         /\ \A n \in 1 .. Len(draws) + 1 : /\ offset[n] \in Nat
                                           /\ n > 1 => offset[n] >= offset[n - 1]
<1>1. Len(draws) \in Nat
  OBVIOUS
<1>2. offset[1] = 0
  BY <1>1 DEF OffsetsOf
<1>3. ASSUME NEW n \in 1 .. Len(draws) + 1, n # 1
      PROVE  n - 1 \in 1 .. Len(draws) + 1 /\ \E gap \in Nat : offset[n] = offset[n - 1] + gap
  <2>1. n - 1 \in 1 .. Len(draws) + 1 /\ n - 1 \in DOMAIN draws
    BY <1>3
  <2>2. values[draws[n - 1]] \in Nat
    BY <2>1
  <2>3. values[draws[n - 1]] * scale \in Nat
    BY <2>2
  <2>4. offset[n] = offset[n - 1] + values[draws[n - 1]] * scale
    BY <1>3 DEF OffsetsOf
  <2>5. QED
    BY <2>1, <2>3, <2>4
<1> DEFINE Good == {n \in Nat : n + 1 \in 1 .. Len(draws) + 1 => offset[n + 1] \in Nat}
<1>4. 0 \in Good
  BY <1>2
<1>5. ASSUME NEW n \in Good  PROVE n + 1 \in Good
  <2>1. SUFFICES ASSUME (n + 1) + 1 \in 1 .. Len(draws) + 1
                 PROVE  offset[(n + 1) + 1] \in Nat
    OBVIOUS
  <2>2. n \in Nat /\ n + 1 \in 1 .. Len(draws) + 1 /\ offset[n + 1] \in Nat /\ (n + 1) + 1 # 1
        /\ ((n + 1) + 1) - 1 = n + 1
    BY <1>1, <2>1
  <2>3. PICK gap \in Nat : offset[(n + 1) + 1] = offset[n + 1] + gap
    BY <1>3, <2>1, <2>2
  <2>4. QED
    BY <2>2, <2>3
<1>6. Good = Nat
  <2> HIDE DEF Good
  <2>1. Good \in SUBSET Nat
    BY DEF Good
  <2>2. QED
    BY <1>4, <1>5, <2>1, AllNumbers
<1>7. ASSUME NEW n \in 1 .. Len(draws) + 1
      PROVE  offset[n] \in Nat
  <2>1. n - 1 \in Nat /\ (n - 1) + 1 = n
    BY <1>1
  <2> HIDE DEF Good
  <2>2. n - 1 \in Good
    BY <1>6, <2>1
  <2>3. QED
    BY <2>1, <2>2 DEF Good
<1>8. ASSUME NEW n \in 1 .. Len(draws) + 1, n > 1
      PROVE  offset[n] >= offset[n - 1]
  <2>1. n # 1
    BY <1>8
  <2>2. PICK gap \in Nat : offset[n] = offset[n - 1] + gap /\ n - 1 \in 1 .. Len(draws) + 1
    BY <1>3, <2>1
  <2>3. offset[n - 1] \in Nat
    BY <1>7, <2>2
  <2>4. QED
    BY <2>2, <2>3
<1>9. QED
  BY <1>2, <1>7, <1>8

(* Whatever gaps are drawn from whatever pool, an experiment with as many  *)
(* sessions accepts the schedule and no other does.                        *)
THEOREM SchedulesAreAccepted ==
  ASSUME NEW values \in Seq(Nat), NEW draws \in Seq(DOMAIN values), NEW scale \in Nat,
         NEW sessions \in Nat
  PROVE  Launch!LoadAdmissionSchedule(Launch!MakeSchedule(values, draws, scale), sessions)
           <=> sessions = Len(draws) + 1
<1> DEFINE file == Launch!MakeSchedule(values, draws, scale)
<1>1. PICK offset : offset = CHOOSE o : OffsetsOf(o, values, draws, scale)
  OBVIOUS
<1>2. OffsetsOf(offset, values, draws, scale)
  BY <1>1, OffsetsExist
<1>3. PICK rows : rows = [n \in 1 .. Len(draws) + 1 |-> [session |-> n, launchOffset |-> offset[n]]]
  OBVIOUS
<1>4. file = [format |-> "schedule_v1", sessions |-> rows]
  BY <1>1, <1>3 DEF Launch!MakeSchedule, OffsetsOf
<1>5. Len(draws) \in Nat
  OBVIOUS
<1>6. /\ Len(rows) = Len(draws) + 1 /\ DOMAIN rows = 1 .. Len(draws) + 1
      /\ \A n \in 1 .. Len(draws) + 1 : /\ rows[n].session = n /\ rows[n].launchOffset = offset[n]
                                        /\ "launchOffset" \in DOMAIN rows[n]
  BY <1>3, <1>5
<1>7. /\ offset[1] = 0
      /\ \A n \in 1 .. Len(draws) + 1 : offset[n] \in Nat /\ (n > 1 => offset[n] >= offset[n - 1])
  BY <1>2, OffsetsGoUp
<1>8. \A n \in DOMAIN rows :
        /\ rows[n].session = n
        /\ "launchOffset" \in DOMAIN rows[n]
        /\ rows[n].launchOffset >= 0
        /\ n > 1 => rows[n].launchOffset >= rows[n - 1].launchOffset
  <2>1. SUFFICES ASSUME NEW n \in 1 .. Len(draws) + 1
                 PROVE  /\ rows[n].session = n
                        /\ "launchOffset" \in DOMAIN rows[n]
                        /\ rows[n].launchOffset >= 0
                        /\ n > 1 => rows[n].launchOffset >= rows[n - 1].launchOffset
    BY <1>6
  <2>2. n > 1 => n - 1 \in 1 .. Len(draws) + 1
    BY <1>5
  <2>3. /\ rows[n].session = n /\ rows[n].launchOffset = offset[n] /\ offset[n] \in Nat
        /\ "launchOffset" \in DOMAIN rows[n]
    BY <1>6, <1>7
  <2>4. n > 1 => rows[n - 1].launchOffset = offset[n - 1] /\ offset[n] >= offset[n - 1]
    BY <1>6, <1>7, <2>2
  <2>5. QED
    BY <2>3, <2>4
<1>9. rows[1].launchOffset = 0
  <2>1. 1 \in 1 .. Len(draws) + 1
    BY <1>5
  <2>2. rows[1].launchOffset = offset[1]
    BY <1>6, <2>1
  <2>3. QED
    BY <1>7, <2>2
<1> HIDE DEF file
<1>10. /\ "format" \in DOMAIN file /\ file.format = "schedule_v1"
       /\ "sessions" \in DOMAIN file /\ file.sessions = rows
  BY <1>4
<1>11. Launch!LoadAdmissionSchedule(file, sessions) <=> sessions = Len(draws) + 1
  BY <1>6, <1>8, <1>9, <1>10 DEF Launch!LoadAdmissionSchedule
<1>12. QED
  BY <1>11 DEF file

(* Division, as the batches are made with.                                 *)
LEMMA Divided ==
  ASSUME NEW a \in Nat, NEW b \in Nat \ {0}
  PROVE  a \div b \in Nat /\ b * (a \div b) <= a /\ a < b * (a \div b) + b
  OBVIOUS

(* A greater multiple is greater by a multiplier at least.                 *)
LEMMA MoreMultiples ==
  ASSUME NEW p \in Nat, NEW q \in Nat, NEW b \in Nat, NEW a \in Nat,
         b * q <= a, a < b * p + b
  PROVE  ~(p < q)
<1>1. SUFFICES ASSUME p < q
               PROVE  FALSE
  OBVIOUS
<1>2. PICK e \in Nat : q = p + 1 + e
  <2>1. q - p - 1 \in Nat /\ q = p + 1 + (q - p - 1)
    BY <1>1
  <2>2. QED
    BY <2>1
<1>3. b * q = b * p + b + b * e
  BY <1>2
<1>4. PICK x \in Nat, y \in Nat, z \in Nat : x = b * q /\ y = b * p /\ z = b * e
  OBVIOUS
<1>5. QED
  BY <1>3, <1>4

\* The batch of a session, counted from 0.
BatchOf(n) == (n - 1) \div input.size

(* The sessions of a batch are as many as its size, one after another.     *)
LEMMA BatchIs ==
  ASSUME input.size \in Nat \ {0}, NEW n \in Nat \ {0}
  PROVE  /\ BatchOf(n) \in Nat
         /\ n \in BatchOf(n) * input.size + 1 .. BatchOf(n) * input.size + input.size
<1>1. PICK a \in Nat, b \in Nat \ {0} : a = n - 1 /\ b = input.size
  <2>1. n - 1 \in Nat
    OBVIOUS
  <2>2. QED
    BY <2>1
<1>2. PICK q \in Nat : q = a \div b /\ b * q <= a /\ a < b * q + b
  BY Divided
<1>3. BatchOf(n) = q
  BY <1>1, <1>2 DEF BatchOf
<1>4. n \in q * b + 1 .. q * b + b
  <2>1. PICK m \in Nat : m = b * q /\ m = q * b
    OBVIOUS
  <2>2. m <= a /\ a < m + b
    BY <1>2, <2>1
  <2>3. n \in m + 1 .. m + b
    BY <1>1, <2>2
  <2>4. QED
    BY <2>1, <2>3
<1>5. QED
  BY <1>1, <1>3, <1>4

(* And the other way round: what is between these is of the batch.         *)
LEMMA BatchHas ==
  ASSUME input.size \in Nat \ {0}, NEW q \in Nat, NEW n \in Nat,
         n \in q * input.size + 1 .. q * input.size + input.size
  PROVE  BatchOf(n) = q /\ n > 0
<1>1. PICK b \in Nat \ {0} : b = input.size
  OBVIOUS
<1>2. PICK m \in Nat : m = b * q /\ m = q * b
  OBVIOUS
<1>3. n \in m + 1 .. m + b
  BY <1>1, <1>2
<1>4. PICK a \in Nat : a = n - 1 /\ m <= a /\ a < m + b
  <2>1. n - 1 \in Nat /\ m <= n - 1 /\ n - 1 < m + b
    BY <1>3
  <2>2. QED
    BY <2>1
<1>5. b * q <= a /\ a < b * q + b
  BY <1>2, <1>4
<1>6. PICK p \in Nat : p = a \div b /\ b * p <= a /\ a < b * p + b
  BY Divided
<1>7. ~(p < q) /\ ~(q < p)
  BY <1>5, <1>6, MoreMultiples
<1>8. QED
  BY <1>1, <1>3, <1>4, <1>6, <1>7 DEF BatchOf

(* An interval of numbers that begins at a multiple of its length.         *)
LEMMA WholeBatch ==
  ASSUME NEW size \in Nat \ {0}, NEW q \in Nat
  PROVE  /\ IsFiniteSet(q * size + 1 .. q * size + size)
         /\ Cardinality(q * size + 1 .. q * size + size) = size
<1>1. PICK m \in Nat : m = q * size
  OBVIOUS
<1>2. /\ IsFiniteSet(m + 1 .. m + size)
      /\ Cardinality(m + 1 .. m + size) =
           IF m + 1 > m + size THEN 0 ELSE (m + size) - (m + 1) + 1
  <2>1. m + 1 \in Int /\ m + size \in Int
    BY <1>1
  <2>2. QED
    BY <2>1, FS_Interval
<1>3. Cardinality(m + 1 .. m + size) = size
  BY <1>2
<1>4. QED
  BY <1>1, <1>2, <1>3

(* What swebench_verified_microvm_plan.py admits, batch by batch, and what *)
(* its file is to the experiment.                                          *)
LEMMA BatchesPromise ==
  ASSUME Launch!BatchInit
  PROVE  Launch!BatchesInOrder
<1>1. /\ input.ids \in Seq(TurnIds) /\ input.limit \in Nat \ {0} /\ input.size \in Nat \ {0}
      /\ input.interval \in Nat
  <2>1. PICK n \in 0 .. MaxPlanned : input.ids \in [1 .. n -> TurnIds]
    BY DEF Launch!BatchInit
  <2>2. n \in Nat /\ MaxPlanned \in Nat /\ Scale \in Nat
    BY PlansAssumption
  <2>3. input.ids \in Seq(TurnIds)
    BY <2>1, <2>2
  <2>4. QED
    BY <2>2, <2>3 DEF Launch!BatchInit
<1> DEFINE file == Launch!AdmissionBatches(input.ids, input.limit, input.size, input.interval)
           Batch(rows, b) == {n \in DOMAIN rows : rows[n].batch = b}
<1>2. PICK ids : ids = input.ids
  OBVIOUS
<1>3. PICK count : count = IF Len(ids) < input.limit THEN Len(ids) ELSE input.limit
  OBVIOUS
<1>4. PICK rows : rows = [n \in 1 .. count |-> [session |-> n, instance |-> ids[n],
                                               batch |-> BatchOf(n) + 1,
                                               admitAt |-> BatchOf(n) * input.interval]]
  OBVIOUS
<1>5. file = [tenantSessions |-> rows]
  BY <1>2, <1>3, <1>4 DEF Launch!AdmissionBatches, BatchOf
<1> HIDE DEF file
<1>6. file.tenantSessions = rows /\ "format" \notin DOMAIN file
  BY <1>5
<1>7. SUFFICES ASSUME ids # <<>>
               PROVE  /\ Launch!IsPrefix([n \in DOMAIN rows |-> rows[n].instance], ids)
                      /\ Len(rows) < input.limit => Len(rows) = Len(ids)
                      /\ \A n \in DOMAIN rows :
                           /\ Launch!Cardinality(Batch(rows, rows[n].batch)) <= input.size
                           /\ rows[n].batch > 1 =>
                                Launch!Cardinality(Batch(rows, rows[n].batch - 1)) = input.size
                           /\ rows[n].admitAt = (rows[n].batch - 1) * input.interval
                      /\ \A sessions \in 1 .. MaxPlanned :
                           ~Launch!LoadAdmissionSchedule(file, sessions)
  BY <1>2, <1>6 DEF Launch!BatchesInOrder, Launch!LoadInstances, file
<1>8. ids \in Seq(TurnIds) /\ Len(ids) \in Nat /\ Len(ids) > 0
  BY <1>1, <1>2, <1>7
<1>9. count \in Nat /\ count > 0 /\ count <= Len(ids) /\ (count < input.limit => count = Len(ids))
  BY <1>1, <1>3, <1>8
<1>10. /\ DOMAIN rows = 1 .. count /\ Len(rows) = count
       /\ \A n \in 1 .. count : /\ rows[n].instance = ids[n] /\ rows[n].batch = BatchOf(n) + 1
                                /\ rows[n].admitAt = BatchOf(n) * input.interval
  BY <1>4, <1>9
<1>11. Launch!IsPrefix([n \in DOMAIN rows |-> rows[n].instance], ids)
  <2>1. PICK names : names = [n \in DOMAIN rows |-> rows[n].instance]
    OBVIOUS
  <2>2. names = [n \in 1 .. count |-> ids[n]]
    BY <1>10, <2>1
  <2>3. names \in Seq(TurnIds) /\ Len(names) = count /\ \A n \in 1 .. count : names[n] = ids[n]
    BY <1>8, <1>9, <2>2
  <2>4. SubSeq(names, 1, count) = [n \in 1 .. count |-> names[n]]
        /\ SubSeq(ids, 1, count) = [n \in 1 .. count |-> ids[n]]
    BY <1>8, <1>9, <2>3
  <2>5. SubSeq(names, 1, Len(names)) = SubSeq(ids, 1, Len(names))
    BY <2>2, <2>3, <2>4
  <2>6. QED
    BY <1>9, <2>1, <2>3, <2>5 DEF Launch!IsPrefix
<1>12. Len(rows) < input.limit => Len(rows) = Len(ids)
  BY <1>9, <1>10
<1>13. ASSUME NEW n \in 1 .. count
       PROVE  /\ Launch!Cardinality(Batch(rows, rows[n].batch)) <= input.size
              /\ rows[n].batch > 1 =>
                   Launch!Cardinality(Batch(rows, rows[n].batch - 1)) = input.size
              /\ rows[n].admitAt = (rows[n].batch - 1) * input.interval
  <2>1. n \in Nat \ {0} /\ rows[n].batch = BatchOf(n) + 1 /\ BatchOf(n) \in Nat
        /\ (rows[n].batch - 1) = BatchOf(n)
    <3>1. n \in Nat \ {0} /\ rows[n].batch = BatchOf(n) + 1
      BY <1>9, <1>10, <1>13
    <3>2. BatchOf(n) \in Nat
      BY <1>1, <3>1, BatchIs
    <3>3. QED
      BY <3>1, <3>2
  <2>2. PICK q \in Nat, size \in Nat \ {0} : q = BatchOf(n) /\ size = input.size
    BY <1>1, <2>1
  <2>3. \A S : Launch!Cardinality(S) = Cardinality(S)
    BY DEF Launch!Cardinality, Cardinality, Launch!IsFiniteSet, IsFiniteSet
  <2>4. Batch(rows, q + 1) \in SUBSET (q * size + 1 .. q * size + size)
    <3>1. SUFFICES ASSUME NEW m \in 1 .. count, rows[m].batch = q + 1
                   PROVE  m \in q * size + 1 .. q * size + size
      BY <1>10
    <3>2. m \in Nat \ {0} /\ BatchOf(m) + 1 = q + 1
      BY <1>9, <1>10, <3>1
    <3>3. /\ BatchOf(m) \in Nat
          /\ m \in BatchOf(m) * size + 1 .. BatchOf(m) * size + size
      BY <1>1, <2>2, <3>2, BatchIs
    <3>4. BatchOf(m) = q
      BY <3>2, <3>3
    <3>5. QED
      BY <3>3, <3>4
  <2>5. ASSUME q > 0
        PROVE  Cardinality(Batch(rows, q)) = size
    <3>1. PICK p \in Nat : q = p + 1
      <4>1. q - 1 \in Nat /\ q = (q - 1) + 1
        BY <2>5
      <4>2. QED
        BY <4>1
    <3>2. PICK low \in Nat : low = p * size
      OBVIOUS
    <3>3. q * size = low + size
      BY <3>1, <3>2
    <3>4. n > low + size
      <4>1. n \in q * size + 1 .. q * size + size
        BY <1>1, <2>1, <2>2, BatchIs
      <4>2. QED
        BY <2>1, <3>3, <4>1
    <3>5. ASSUME NEW m \in low + 1 .. low + size
          PROVE  m \in 1 .. count /\ rows[m].batch = q
      <4>1. m \in Nat /\ m \in 1 .. count
        BY <1>9, <2>1, <3>4, <3>5
      <4>2. BatchOf(m) = p
        BY <1>1, <2>2, <3>2, <3>5, <4>1, BatchHas
      <4>3. QED
        BY <1>10, <3>1, <4>1, <4>2
    <3>6. ASSUME NEW m \in 1 .. count, rows[m].batch = q
          PROVE  m \in low + 1 .. low + size
      <4>1. m \in Nat \ {0} /\ BatchOf(m) + 1 = p + 1
        BY <1>9, <1>10, <3>1, <3>6
      <4>2. BatchOf(m) \in Nat /\ m \in BatchOf(m) * size + 1 .. BatchOf(m) * size + size
        BY <1>1, <2>2, <4>1, BatchIs
      <4>3. BatchOf(m) = p
        BY <4>1, <4>2
      <4>4. QED
        BY <3>2, <4>2, <4>3
    <3>7. Batch(rows, q) = low + 1 .. low + size
      BY <1>10, <3>5, <3>6
    <3>8. QED
      BY <3>2, <3>7, WholeBatch
  <2> HIDE DEF Batch
  <2>6. Cardinality(Batch(rows, q + 1)) <= size
    <3>1. IsFiniteSet(q * size + 1 .. q * size + size)
          /\ Cardinality(q * size + 1 .. q * size + size) = size
      BY WholeBatch
    <3>2. QED
      BY <2>4, <3>1, FS_Subset
  <2>7. rows[n].batch = q + 1 /\ rows[n].batch - 1 = q /\ (rows[n].batch > 1 => q > 0)
    BY <2>1, <2>2
  <2>8. rows[n].admitAt = q * input.interval
    BY <1>10, <2>2
  <2>9. QED
    BY <2>2, <2>3, <2>5, <2>6, <2>7, <2>8
<1>14. \A sessions \in 1 .. MaxPlanned : ~Launch!LoadAdmissionSchedule(file, sessions)
  BY <1>6 DEF Launch!LoadAdmissionSchedule
<1>15. QED
  BY <1>10, <1>11, <1>12, <1>13, <1>14

-----------------------------------------------------------------------------
(* A pair is made of its two members.                                      *)
LEMMA PairIs ==
  ASSUME NEW A, NEW B, NEW k \in A \X B
  PROVE  k = <<k[1], k[2]>> /\ k[1] \in A /\ k[2] \in B
  OBVIOUS

(* The turns of an archive, by their keys.                                 *)
Keys == SessionIds \X TurnIds
TurnMaps == UNION {[D -> Nat] : D \in SUBSET Keys}

\* turns has the turns of the readable records, each with its earliest start.
Least(turns, records) ==
  /\ \A k \in DOMAIN turns :
       \E l \in records : l.start # Launch!Unread /\ Launch!Key(l) = k /\ turns[k] = l.start
  /\ \A l \in records : l.start # Launch!Unread =>
       Launch!Key(l) \in DOMAIN turns /\ turns[Launch!Key(l)] <= l.start

\* turns is a map of turns that has those of the records.
HasTurns(turns, records) == turns \in TurnMaps /\ Least(turns, records)

(* A record's key and its start.                                           *)
LEMMA LineIs ==
  ASSUME PlansAssumption, NEW l \in Launch!Line
  PROVE  Launch!Key(l) \in Keys /\ (l.start # Launch!Unread => l.start \in Nat)
<1>1. l.session \in SessionIds /\ l.turn \in TurnIds
      /\ l.start \in 0 .. MaxStart \cup {Launch!Unread}
  BY DEF Launch!Line
<1>2. MaxStart \in Nat
  BY DEF PlansAssumption
<1>3. QED
  BY <1>1, <1>2 DEF Launch!Key, Keys

(* Maps of turns.                                                          *)
LEMMA TurnMapIs ==
  ASSUME NEW turns \in TurnMaps
  PROVE  /\ DOMAIN turns \in SUBSET Keys /\ \A k \in DOMAIN turns : turns[k] \in Nat
         /\ turns = [k \in DOMAIN turns |-> turns[k]]
<1>1. PICK D \in SUBSET Keys : turns \in [D -> Nat]
  BY DEF TurnMaps
<1>2. QED
  BY <1>1

(* A map of turns to their starts is one.                                  *)
LEMMA MapOfTurns ==
  ASSUME NEW D \in SUBSET Keys, NEW turns \in [D -> Nat]
  PROVE  turns \in TurnMaps
  BY DEF TurnMaps

(* Only one map has the turns of the records.                              *)
LEMMA LeastUnique ==
  ASSUME PlansAssumption, NEW records \in SUBSET Launch!Line, NEW t, NEW u,
         HasTurns(t, records), HasTurns(u, records)
  PROVE  t = u
<1>1. /\ t = [k \in DOMAIN t |-> t[k]] /\ u = [k \in DOMAIN u |-> u[k]]
      /\ \A k \in DOMAIN t : t[k] \in Nat
      /\ \A k \in DOMAIN u : u[k] \in Nat
  BY TurnMapIs DEF HasTurns
<1>2. \A k \in DOMAIN t : k \in DOMAIN u /\ u[k] <= t[k]
  BY DEF HasTurns, Least
<1>3. \A k \in DOMAIN u : k \in DOMAIN t /\ t[k] <= u[k]
  BY DEF HasTurns, Least
<1>4. DOMAIN t = DOMAIN u
  BY <1>2, <1>3
<1>5. \A k \in DOMAIN t : t[k] = u[k]
  BY <1>1, <1>2, <1>3
<1>6. QED
  BY <1>1, <1>4, <1>5

(* Reading one more record.                                                *)
LEMMA KeepLeast ==
  ASSUME PlansAssumption, NEW records \in SUBSET Launch!Line, NEW t, HasTurns(t, records),
         NEW l \in Launch!Line
  PROVE  HasTurns(Launch!Keep(t, l), records \cup {l})
<1>1. PICK k \in Keys : k = Launch!Key(l)
  BY LineIs
<1>2. /\ t \in TurnMaps /\ DOMAIN t \in SUBSET Keys /\ \A j \in DOMAIN t : t[j] \in Nat
      /\ Least(t, records)
  BY TurnMapIs DEF HasTurns
<1>3. CASE l.start = Launch!Unread \/ (k \in DOMAIN t /\ t[k] <= l.start)
  <2>1. Launch!Keep(t, l) = t
    BY <1>1, <1>3 DEF Launch!Keep
  <2>2. Least(t, records \cup {l})
    BY <1>1, <1>2, <1>3 DEF Least
  <2>3. QED
    BY <1>2, <2>1, <2>2 DEF HasTurns
<1>4. CASE ~(l.start = Launch!Unread \/ (k \in DOMAIN t /\ t[k] <= l.start))
  <2>1. PICK s \in Nat : s = l.start /\ l.start # Launch!Unread
    BY <1>4, LineIs
  <2>2. PICK u : u = [j \in DOMAIN t \cup {k} |-> IF j = k THEN s ELSE t[j]]
    OBVIOUS
  <2>3. Launch!Keep(t, l) = u
    BY <1>1, <1>4, <2>1, <2>2 DEF Launch!Keep
  <2>4. u \in [DOMAIN t \cup {k} -> Nat] /\ DOMAIN t \cup {k} \in SUBSET Keys
    BY <1>2, <2>2
  <2>5. DOMAIN u = DOMAIN t \cup {k} /\ u[k] = s /\ \A j \in DOMAIN t : j # k => u[j] = t[j]
    BY <2>2
  <2>6. k \in DOMAIN t => s <= t[k]
    BY <1>2, <1>4, <2>1
  <2>7. \A j \in DOMAIN u :
          \E m \in records \cup {l} : m.start # Launch!Unread /\ Launch!Key(m) = j /\ u[j] = m.start
    BY <1>1, <1>2, <2>1, <2>5 DEF Least
  <2>8. ASSUME NEW m \in records \cup {l}, m.start # Launch!Unread
        PROVE  Launch!Key(m) \in DOMAIN u /\ u[Launch!Key(m)] <= m.start
    <3>1. CASE m = l
      BY <1>1, <2>1, <2>5, <3>1
    <3>2. CASE m # l
      <4>1. PICK j : j = Launch!Key(m) /\ j \in DOMAIN t /\ t[j] <= m.start
        BY <1>2, <2>8, <3>2 DEF Least
      <4>2. CASE j = k
        <5>1. m.start \in Nat /\ t[k] \in Nat
          BY <1>2, <2>8, <3>2, <4>1, <4>2, LineIs
        <5>2. QED
          BY <2>5, <2>6, <4>1, <4>2, <5>1
      <4>3. CASE j # k
        BY <2>5, <4>1, <4>3
      <4>4. QED
        BY <4>2, <4>3
    <3>3. QED
      BY <3>1, <3>2
  <2>9. Least(u, records \cup {l})
    BY <2>7, <2>8 DEF Least
  <2>10. u \in TurnMaps
    BY <2>4, MapOfTurns
  <2>11. QED
    BY <2>3, <2>9, <2>10 DEF HasTurns
<1>5. QED
  BY <1>3, <1>4

(* Merging the turns of two archives.                                      *)
LEMMA MergeLeast ==
  ASSUME PlansAssumption, NEW L \in SUBSET Launch!Line, NEW M \in SUBSET Launch!Line,
         NEW t, NEW u, HasTurns(t, L), HasTurns(u, M)
  PROVE  HasTurns(Launch!Merge(t, u), L \cup M)
<1>1. /\ DOMAIN t \in SUBSET Keys /\ (\A k \in DOMAIN t : t[k] \in Nat) /\ Least(t, L)
      /\ DOMAIN u \in SUBSET Keys /\ (\A k \in DOMAIN u : u[k] \in Nat) /\ Least(u, M)
  BY TurnMapIs DEF HasTurns
<1>2. PICK v : v = [k \in DOMAIN t \cup DOMAIN u |->
                      IF k \in DOMAIN u /\ (k \in DOMAIN t => t[k] > u[k]) THEN u[k] ELSE t[k]]
  OBVIOUS
<1>3. Launch!Merge(t, u) = v
  BY <1>2 DEF Launch!Merge
<1>4. v \in [DOMAIN t \cup DOMAIN u -> Nat] /\ DOMAIN t \cup DOMAIN u \in SUBSET Keys
  BY <1>1, <1>2
<1>5. /\ \A k \in DOMAIN v : (k \in DOMAIN t /\ v[k] = t[k]) \/ (k \in DOMAIN u /\ v[k] = u[k])
      /\ \A k \in DOMAIN t : k \in DOMAIN v /\ v[k] <= t[k]
      /\ \A k \in DOMAIN u : k \in DOMAIN v /\ v[k] <= u[k]
      /\ \A k \in DOMAIN v : v[k] \in Nat
  BY <1>1, <1>2
<1>6. \A k \in DOMAIN v :
        \E l \in L \cup M : l.start # Launch!Unread /\ Launch!Key(l) = k /\ v[k] = l.start
  BY <1>1, <1>5 DEF Least
<1>7. ASSUME NEW l \in L \cup M, l.start # Launch!Unread
      PROVE  Launch!Key(l) \in DOMAIN v /\ v[Launch!Key(l)] <= l.start
  <2>1. PICK k : k = Launch!Key(l)
    OBVIOUS
  <2>2. l.start \in Nat
    BY <1>7, LineIs
  <2>3. (k \in DOMAIN t /\ t[k] <= l.start) \/ (k \in DOMAIN u /\ u[k] <= l.start)
    BY <1>1, <1>7, <2>1 DEF Least
  <2>4. QED
    BY <1>1, <1>5, <2>1, <2>2, <2>3
<1>8. Least(v, L \cup M)
  BY <1>6, <1>7 DEF Least
<1>9. v \in TurnMaps
  BY <1>4, MapOfTurns
<1>10. QED
  BY <1>3, <1>8, <1>9 DEF HasTurns

\* The maps that have the turns of some records.
Known == {t \in TurnMaps : \E L \in SUBSET Launch!Line : HasTurns(t, L)}

\* No turn.
Nothing == [k \in {} |-> 0]

(* No turn is what no record has.                                          *)
LEMMA NothingIs == HasTurns(Nothing, {}) /\ Nothing \in Known
<1>1. Nothing \in [{} -> Nat] /\ DOMAIN Nothing = {}
  BY DEF Nothing
<1>2. Nothing \in TurnMaps
  BY <1>1, MapOfTurns
<1>3. HasTurns(Nothing, {})
  BY <1>1, <1>2 DEF HasTurns, Least
<1>4. QED
  BY <1>2, <1>3 DEF Known

\* The turns after each record of an archive.
ReadOf(turns, archive) ==
  turns = [n \in 0 .. Len(archive) |->
             IF n = 0 THEN Nothing ELSE Launch!Keep(turns[n - 1], archive[n])]

(* read_archive goes through the records of an archive.                    *)
LEMMA ReadIsLoop ==
  ASSUME NEW archive
  PROVE  Launch!ReadArchive(archive) = (CHOOSE t : ReadOf(t, archive))[Len(archive)]
  BY DEF Launch!ReadArchive, ReadOf, Nothing

(* An archive is read into the turns of its records.                       *)
LEMMA ReadLeast ==
  ASSUME PlansAssumption, NEW archive \in Seq(Launch!Line)
  PROVE  HasTurns(Launch!ReadArchive(archive), Members(archive))
<1> DEFINE N == Len(archive)
           F == [a \in Known \X (1 .. N) |-> Launch!Keep(a[1], archive[a[2]])]
<1>1. N \in Nat /\ DOMAIN archive = 1 .. N /\ N = Len(archive) /\ \A n \in 1 .. N : archive[n] \in Launch!Line
  OBVIOUS
<1>2. \A t \in Known, n \in 1 .. N : Launch!Keep(t, archive[n]) \in Known
  <2>1. ASSUME NEW t \in Known, NEW n \in 1 .. N
        PROVE  Launch!Keep(t, archive[n]) \in Known
    <3>1. PICK l \in Launch!Line : l = archive[n]
      BY <1>1
    <3>2. PICK L \in SUBSET Launch!Line : HasTurns(t, L)
      BY DEF Known
    <3>3. HasTurns(Launch!Keep(t, l), L \cup {l})
      BY <3>2, KeepLeast
    <3>4. L \cup {l} \in SUBSET Launch!Line
      OBVIOUS
    <3>5. QED
      BY <3>1, <3>3, <3>4 DEF Known, HasTurns
  <2>2. QED
    BY <2>1
<1>3. F \in [Known \X (1 .. N) -> Known]
  <2> HIDE DEF N
  <2>1. QED
    BY <1>2
<1>4. \A t \in Known, n \in 1 .. N : F[<<t, n>>] = Launch!Keep(t, archive[n])
  OBVIOUS
<1> HIDE DEF F, N
<1>5. PICK h \in [0 .. N -> Known] : Loops(h, N, Nothing, F)
  BY <1>1, <1>3, NothingIs, LoopExists
<1>6. ReadOf(h, archive)
  <2>1. ASSUME NEW n \in 0 .. N
        PROVE  h[n] = IF n = 0 THEN Nothing ELSE Launch!Keep(h[n - 1], archive[n])
    <3>1. CASE n = 0
      BY <1>5, <3>1 DEF Loops
    <3>2. CASE n # 0
      <4>1. n \in 1 .. N /\ n - 1 \in 0 .. N
        BY <1>1, <3>2
      <4>2. h[n] = F[<<h[n - 1], n>>] /\ h[n - 1] \in Known
        BY <1>5, <4>1 DEF Loops
      <4>3. QED
        BY <1>4, <3>2, <4>1, <4>2
    <3>3. QED
      BY <3>1, <3>2
  <2>2. QED
    BY <1>1, <2>1 DEF ReadOf
<1>7. PICK turns : turns = CHOOSE t : ReadOf(t, archive)
  OBVIOUS
<1>8. ReadOf(turns, archive)
  BY <1>6, <1>7
<1>9. turns[0] = Nothing /\ \A n \in 1 .. N : turns[n] = Launch!Keep(turns[n - 1], archive[n])
  <2>1. \A n \in 0 .. N : turns[n] = IF n = 0 THEN Nothing ELSE Launch!Keep(turns[n - 1], archive[n])
    BY <1>1, <1>8 DEF ReadOf
  <2>2. 0 \in 0 .. N /\ \A n \in 1 .. N : n \in 0 .. N /\ n # 0
    BY <1>1
  <2>3. QED
    BY <2>1, <2>2
<1> DEFINE Read(n) == {archive[m] : m \in 1 .. n}
           Good == {n \in Nat : n \in 0 .. N => HasTurns(turns[n], Read(n))}
<1>10. ASSUME NEW n \in Good
       PROVE  n + 1 \in Good
  <2>1. SUFFICES ASSUME n + 1 \in 0 .. N
                 PROVE  HasTurns(turns[n + 1], Read(n + 1))
    OBVIOUS
  <2>2. n \in 0 .. N /\ n + 1 \in 1 .. N /\ (n + 1) - 1 = n
    BY <1>1, <2>1
  <2>3. turns[n + 1] = Launch!Keep(turns[n], archive[n + 1]) /\ archive[n + 1] \in Launch!Line
    BY <1>1, <1>9, <2>2
  <2>4. HasTurns(turns[n], Read(n))
    BY <2>2
  <2>5. Read(n) \in SUBSET Launch!Line
    BY <1>1, <2>2
  <2>6. Read(n + 1) = Read(n) \cup {archive[n + 1]}
    <3>1. 1 .. n + 1 = (1 .. n) \cup {n + 1}
      OBVIOUS
    <3>2. QED
      BY <3>1
  <2> HIDE DEF Read, Good
  <2>7. QED
    BY <2>3, <2>4, <2>5, <2>6, KeepLeast
<1>11. 0 \in Good
  <2>1. Read(0) = {}
    OBVIOUS
  <2> HIDE DEF Read
  <2>2. QED
    BY <1>9, <2>1, NothingIs
<1>12. Good = Nat
  <2>1. Good \in SUBSET Nat
    OBVIOUS
  <2> HIDE DEF Good
  <2>2. QED
    BY <1>10, <1>11, <2>1, AllNumbers
<1>13. HasTurns(turns[N], Read(N))
  <2>1. N \in Good
    <3> HIDE DEF Good
    <3>1. QED
      BY <1>1, <1>12
  <2>2. N \in 0 .. N
    BY <1>1
  <2>3. QED
    BY <2>1, <2>2
<1>14. Read(N) = Members(archive)
  BY <1>1 DEF Members
<1>15. QED
  <2> HIDE DEF Read
  <2>1. QED
    BY <1>1, <1>7, <1>13, <1>14, ReadIsLoop

\* The turns after each archive.
TurnsOf(turns, archives) ==
  turns = [n \in 0 .. Len(archives) |->
             IF n = 0 THEN Nothing ELSE Launch!Merge(turns[n - 1], Launch!ReadArchive(archives[n]))]

(* main merges the archives one by one.                                    *)
LEMMA TurnsIsLoop ==
  ASSUME NEW archives
  PROVE  Launch!Turns(archives) = (CHOOSE t : TurnsOf(t, archives))[Len(archives)]
  BY DEF Launch!Turns, TurnsOf, Nothing

\* The records of the first n archives.
Records(archives, n) == UNION {Members(archives[m]) : m \in 1 .. n}

(* Archives are read into the turns of all their records.                  *)
LEMMA TurnsLeast ==
  ASSUME PlansAssumption, NEW archives \in Seq(Seq(Launch!Line))
  PROVE  /\ Records(archives, Len(archives)) \in SUBSET Launch!Line
         /\ HasTurns(Launch!Turns(archives), Records(archives, Len(archives)))
<1> DEFINE N == Len(archives)
           F == [a \in Known \X (1 .. N) |-> Launch!Merge(a[1], Launch!ReadArchive(archives[a[2]]))]
<1>1. N \in Nat /\ N = Len(archives) /\ \A n \in 1 .. N : archives[n] \in Seq(Launch!Line)
  OBVIOUS
<1>2. \A n \in 1 .. N : /\ Members(archives[n]) \in SUBSET Launch!Line
                         /\ HasTurns(Launch!ReadArchive(archives[n]), Members(archives[n]))
  <2>1. ASSUME NEW n \in 1 .. N
        PROVE  /\ Members(archives[n]) \in SUBSET Launch!Line
               /\ HasTurns(Launch!ReadArchive(archives[n]), Members(archives[n]))
    <3>1. PICK archive \in Seq(Launch!Line) : archive = archives[n]
      BY <1>1
    <3>2. HasTurns(Launch!ReadArchive(archive), Members(archive))
      BY ReadLeast
    <3>3. Members(archive) \in SUBSET Launch!Line
      BY DEF Members
    <3>4. QED
      BY <3>1, <3>2, <3>3
  <2>2. QED
    BY <2>1
<1>3. \A t \in Known, n \in 1 .. N : Launch!Merge(t, Launch!ReadArchive(archives[n])) \in Known
  <2>1. ASSUME NEW t \in Known, NEW n \in 1 .. N
        PROVE  Launch!Merge(t, Launch!ReadArchive(archives[n])) \in Known
    <3>1. PICK u, M : u = Launch!ReadArchive(archives[n]) /\ M = Members(archives[n])
      OBVIOUS
    <3>2. PICK L \in SUBSET Launch!Line : HasTurns(t, L)
      BY DEF Known
    <3>3. HasTurns(u, M) /\ M \in SUBSET Launch!Line
      BY <1>2, <3>1
    <3>4. HasTurns(Launch!Merge(t, u), L \cup M)
      BY <3>2, <3>3, MergeLeast
    <3>5. L \cup M \in SUBSET Launch!Line
      BY <3>3
    <3>6. QED
      BY <3>1, <3>4, <3>5 DEF Known, HasTurns
  <2>2. QED
    BY <2>1
<1>4. F \in [Known \X (1 .. N) -> Known]
  <2> HIDE DEF N
  <2>1. QED
    BY <1>3
<1>5. \A t \in Known, n \in 1 .. N : F[<<t, n>>] = Launch!Merge(t, Launch!ReadArchive(archives[n]))
  OBVIOUS
<1> HIDE DEF F, N
<1>6. PICK h \in [0 .. N -> Known] : Loops(h, N, Nothing, F)
  BY <1>1, <1>4, NothingIs, LoopExists
<1>7. TurnsOf(h, archives)
  <2>1. ASSUME NEW n \in 0 .. N
        PROVE  h[n] = IF n = 0 THEN Nothing
                      ELSE Launch!Merge(h[n - 1], Launch!ReadArchive(archives[n]))
    <3>1. CASE n = 0
      BY <1>6, <3>1 DEF Loops
    <3>2. CASE n # 0
      <4>1. n \in 1 .. N /\ n - 1 \in 0 .. N
        BY <1>1, <3>2
      <4>2. h[n] = F[<<h[n - 1], n>>] /\ h[n - 1] \in Known
        BY <1>6, <4>1 DEF Loops
      <4>3. QED
        BY <1>5, <3>2, <4>1, <4>2
    <3>3. QED
      BY <3>1, <3>2
  <2>2. QED
    BY <1>1, <2>1 DEF TurnsOf
<1>8. PICK turns : turns = CHOOSE t : TurnsOf(t, archives)
  OBVIOUS
<1>9. TurnsOf(turns, archives)
  BY <1>7, <1>8
<1>10. /\ turns[0] = Nothing
      /\ \A n \in 1 .. N : turns[n] = Launch!Merge(turns[n - 1], Launch!ReadArchive(archives[n]))
  <2>1. \A n \in 0 .. N : turns[n] = IF n = 0 THEN Nothing
                                    ELSE Launch!Merge(turns[n - 1], Launch!ReadArchive(archives[n]))
    BY <1>1, <1>9 DEF TurnsOf
  <2>2. 0 \in 0 .. N /\ \A n \in 1 .. N : n \in 0 .. N /\ n # 0
    BY <1>1
  <2>3. QED
    BY <2>1, <2>2
<1> DEFINE Good == {n \in Nat : n \in 0 .. N => /\ Records(archives, n) \in SUBSET Launch!Line
                                                /\ HasTurns(turns[n], Records(archives, n))}
<1>11. ASSUME NEW n \in Good
       PROVE  n + 1 \in Good
  <2>1. SUFFICES ASSUME n + 1 \in 0 .. N
                 PROVE  /\ Records(archives, n + 1) \in SUBSET Launch!Line
                        /\ HasTurns(turns[n + 1], Records(archives, n + 1))
    OBVIOUS
  <2>2. n \in 0 .. N /\ n + 1 \in 1 .. N /\ (n + 1) - 1 = n
    BY <1>1, <2>1
  <2>3. PICK u, M : u = Launch!ReadArchive(archives[n + 1]) /\ M = Members(archives[n + 1])
    OBVIOUS
  <2>4. turns[n + 1] = Launch!Merge(turns[n], u) /\ HasTurns(u, M) /\ M \in SUBSET Launch!Line
    BY <1>10, <1>2, <2>2, <2>3
  <2>5. HasTurns(turns[n], Records(archives, n)) /\ Records(archives, n) \in SUBSET Launch!Line
    BY <2>2
  <2>6. Records(archives, n + 1) = Records(archives, n) \cup M
    <3>1. 1 .. n + 1 = (1 .. n) \cup {n + 1}
      OBVIOUS
    <3>2. QED
      BY <2>3, <3>1 DEF Records
  <2> HIDE DEF Good
  <2>7. QED
    BY <2>4, <2>5, <2>6, MergeLeast
<1>12. 0 \in Good
  <2>1. Records(archives, 0) = {}
    BY DEF Records
  <2>2. QED
    BY <1>10, <2>1, NothingIs
<1>13. Good = Nat
  <2>1. Good \in SUBSET Nat
    OBVIOUS
  <2> HIDE DEF Good
  <2>2. QED
    BY <1>11, <1>12, <2>1, AllNumbers
<1>14. /\ Records(archives, N) \in SUBSET Launch!Line
       /\ HasTurns(turns[N], Records(archives, N))
  <2>1. N \in Good
    <3> HIDE DEF Good
    <3>1. QED
      BY <1>1, <1>13
  <2>2. N \in 0 .. N
    BY <1>1
  <2>3. QED
    BY <2>1, <2>2
<1>15. QED
  BY <1>1, <1>8, <1>14, TurnsIsLoop

\* The keys of the turns of a session.
KeysOf(t, s) == {k \in DOMAIN t : k[1] = s}

\* order has each of them, by their starts.
InOrder(order, t, s, N) ==
  /\ N = Cardinality(KeysOf(t, s)) /\ N \in Nat /\ order \in [1 .. N -> KeysOf(t, s)]
  /\ \A i, j \in 1 .. N : i < j => t[order[i]] <= t[order[j]]
  /\ \A k \in KeysOf(t, s) : \E i \in 1 .. N : order[i] = k

(* The turns of a session are sorted.                                      *)
LEMMA SortedIsOrder ==
  ASSUME PlansAssumption, NEW t \in TurnMaps, NEW s \in SessionIds
  PROVE  InOrder(Launch!Sorted(t, s), t, s, Cardinality(KeysOf(t, s)))
<1>1. PICK S : S = KeysOf(t, s)
  OBVIOUS
<1>2. DOMAIN t \in SUBSET Keys /\ \A k \in DOMAIN t : t[k] \in Nat
  BY TurnMapIs
<1>3. \A k \in S : /\ t[k] \in Nat /\ k[2] \in Nat
                   /\ \A j \in S : j[2] = k[2] => j = k
  <2>1. TurnIds \in SUBSET Nat
    BY DEF PlansAssumption
  <2>2. \A k \in S : k \in DOMAIN t /\ k \in SessionIds \X TurnIds /\ k[1] = s
    BY <1>1, <1>2 DEF KeysOf, Keys
  <2>3. ASSUME NEW k \in SessionIds \X TurnIds
        PROVE  k = <<k[1], k[2]>> /\ k[2] \in Nat
    <3>1. k = <<k[1], k[2]>> /\ k[2] \in TurnIds
      BY PairIs
    <3>2. QED
      BY <2>1, <3>1
  <2>4. QED
    BY <1>2, <2>2, <2>3
<1>4. IsFiniteSet(S)
  <2>1. IsFiniteSet(SessionIds \X TurnIds)
    BY FS_Product DEF PlansAssumption
  <2>2. S \in SUBSET (SessionIds \X TurnIds)
    BY <1>1, <1>2 DEF KeysOf, Keys
  <2>3. QED
    BY <2>1, <2>2, FS_Subset
<1> DEFINE Before(j, k) == t[j] < t[k] \/ (t[j] = t[k] /\ j[2] < k[2])
<1>5. PICK N, R, T : /\ N = Cardinality(S) /\ R = {e \in S \X S : Before(e[1], e[2])}
                     /\ T = Listings(S, N, R)
  OBVIOUS
<1>6. \A x, y \in S : <<x, y>> \in R <=> Before(x, y)
  <2> HIDE DEF Before
  <2>1. QED
    BY <1>5
<1>7. Orders(R, S)
  <2>1. \A x, y \in S : x # y => Before(x, y) \/ Before(y, x)
    BY <1>3
  <2>2. \A x, y \in S : Before(x, y) => ~Before(y, x)
    BY <1>3
  <2>3. \A x, y, z \in S : Before(x, y) /\ Before(y, z) => Before(x, z)
    BY <1>3
  <2> HIDE DEF Before
  <2>4. QED
    BY <1>6, <2>1, <2>2, <2>3 DEF Orders
<1>8. N \in Nat /\ T # {} /\ \A o \in T : IsListing(o, S, N, R)
  BY <1>4, <1>5, <1>7, ListExists
<1> HIDE DEF Before
<1>9. ASSUME NEW o \in [1 .. N -> S]
      PROVE  o \in T <=> \A i, j \in DOMAIN o : i < j => Before(o[i], o[j])
  <2>1. DOMAIN o = 1 .. N /\ \A i \in 1 .. N : o[i] \in S
    OBVIOUS
  <2>2. \A i, j \in 1 .. N : <<o[i], o[j]>> \in R <=> Before(o[i], o[j])
    BY <1>6, <2>1
  <2>3. o \in T <=> \A i, j \in DOMAIN o : i < j => <<o[i], o[j]>> \in R
    BY <1>5 DEF Listings
  <2>4. QED
    BY <2>1, <2>2, <2>3
<1>10. PICK o : o = Launch!Sorted(t, s)
  OBVIOUS
<1>11. o \in T
  <2>1. Launch!Cardinality(S) = N
    BY <1>5 DEF Launch!Cardinality, Cardinality, Launch!IsFiniteSet, IsFiniteSet
  <2>2. o = CHOOSE w \in [1 .. N -> S] : \A i, j \in DOMAIN w : i < j => Before(w[i], w[j])
    BY <1>1, <1>10, <2>1 DEF Launch!Sorted, KeysOf, Before
  <2>3. \E w \in [1 .. N -> S] : \A i, j \in DOMAIN w : i < j => Before(w[i], w[j])
    <3>1. PICK w : w \in T
      BY <1>8
    <3>2. w \in [1 .. N -> S]
      BY <1>8, <3>1 DEF IsListing
    <3>3. QED
      BY <1>9, <3>1, <3>2
  <2>4. o \in [1 .. N -> S] /\ \A i, j \in DOMAIN o : i < j => Before(o[i], o[j])
    BY <2>2, <2>3
  <2>5. QED
    BY <1>9, <2>4
<1>12. IsListing(o, S, N, R)
  BY <1>8, <1>11
<1>13. o \in [1 .. N -> S] /\ DOMAIN o = 1 .. N /\ \A k \in S : \E i \in 1 .. N : o[i] = k
  BY <1>12 DEF IsListing
<1>14. \A i, j \in 1 .. N : i < j => t[o[i]] <= t[o[j]]
  <2>1. \A x, y \in S : Before(x, y) => t[x] <= t[y]
    BY <1>3 DEF Before
  <2>2. QED
    BY <1>9, <1>11, <1>13, <2>1
<1>15. QED
  BY <1>1, <1>5, <1>8, <1>10, <1>13, <1>14 DEF InOrder

(* The gaps of a session are between its turns in this order.              *)
LEMMA GapsAre ==
  ASSUME PlansAssumption, NEW t \in TurnMaps, NEW s \in SessionIds,
         NEW order, NEW N, InOrder(order, t, s, N), order = Launch!Sorted(t, s)
  PROVE  /\ N \in Nat
         /\ \A n \in 1 .. N : t[order[n]] \in Nat /\ order[n] \in KeysOf(t, s)
         /\ Launch!SessionGaps(t, s) = [n \in 1 .. N - 1 |-> t[order[n + 1]] - t[order[n]]]
         /\ Launch!SessionGaps(t, s) \in [1 .. N - 1 -> Nat]
<1>1. /\ N \in Nat /\ order \in [1 .. N -> KeysOf(t, s)]
      /\ \A i, j \in 1 .. N : i < j => t[order[i]] <= t[order[j]]
  BY DEF InOrder
<1>2. \A n \in 1 .. N : order[n] \in KeysOf(t, s) /\ t[order[n]] \in Nat
  <2>1. \A k \in KeysOf(t, s) : t[k] \in Nat
    BY TurnMapIs DEF KeysOf
  <2>2. QED
    BY <1>1, <2>1
<1>3. Len(order) = N
  <2>1. order \in Seq(KeysOf(t, s))
    BY <1>1
  <2>2. QED
    BY <1>1, <2>1
<1>4. PICK gaps : gaps = [n \in 1 .. N - 1 |-> t[order[n + 1]] - t[order[n]]]
  OBVIOUS
<1>5. Launch!SessionGaps(t, s) = gaps
  BY <1>3, <1>4 DEF Launch!SessionGaps
<1>6. ASSUME NEW n \in 1 .. N - 1
      PROVE  t[order[n + 1]] - t[order[n]] \in Nat
  <2>1. n \in 1 .. N /\ n + 1 \in 1 .. N /\ n < n + 1
    BY <1>1
  <2>2. t[order[n]] <= t[order[n + 1]] /\ t[order[n]] \in Nat /\ t[order[n + 1]] \in Nat
    BY <1>1, <1>2, <2>1
  <2>3. QED
    BY <2>2
<1>7. gaps \in [1 .. N - 1 -> Nat]
  BY <1>4, <1>6
<1>8. QED
  BY <1>1, <1>2, <1>4, <1>5, <1>7

(* The pool of gaps.                                                       *)
LEMMA PoolIs ==
  ASSUME PlansAssumption, NEW archives \in Seq(Seq(Launch!Line))
  PROVE  Launch!ExtractGaps(archives) \in Seq(Nat)
<1>1. PICK t, N, order : t = Launch!Turns(archives) /\ N = Cardinality(SessionIds)
                         /\ order = Cpu!Ascending(SessionIds)
  OBVIOUS
<1>2. t \in TurnMaps
  BY <1>1, TurnsLeast DEF HasTurns
<1>3. IsAscending(order, SessionIds, N)
  BY <1>1, AscendingIs DEF PlansAssumption
<1>4. N \in Nat /\ DOMAIN order = 1 .. N /\ \A n \in 1 .. N : order[n] \in SessionIds
  BY <1>3 DEF IsAscending
<1>5. PICK gaps : gaps = [n \in 1 .. N |-> Launch!SessionGaps(t, order[n])]
  OBVIOUS
<1>6. Launch!ExtractGaps(archives) = Launch!FlattenSeq(gaps)
  <2>1. Launch!Cardinality(SessionIds) = N /\ Cpu!Cardinality(SessionIds) = N
    BY <1>1 DEF Launch!Cardinality, Cardinality, Launch!IsFiniteSet, IsFiniteSet,
                Cpu!Cardinality, Cpu!IsFiniteSet
  <2>2. order = CHOOSE o \in [1 .. N -> SessionIds] :
                  \A i, j \in DOMAIN o : i < j => o[i] < o[j]
    BY <1>1, <2>1 DEF Cpu!Ascending
  <2>3. Launch!ExtractGaps(archives) =
          Launch!FlattenSeq([n \in DOMAIN order |-> Launch!SessionGaps(t, order[n])])
    BY <1>1, <2>1, <2>2 DEF Launch!ExtractGaps
  <2>4. QED
    BY <1>4, <1>5, <2>3
<1>7. ASSUME NEW n \in 1 .. N
      PROVE  gaps[n] \in Seq(Nat)
  <2>1. PICK s \in SessionIds : s = order[n]
    BY <1>4
  <2>2. PICK M, o : M = Cardinality(KeysOf(t, s)) /\ o = Launch!Sorted(t, s)
    OBVIOUS
  <2>3. InOrder(o, t, s, M)
    BY <1>2, <2>2, SortedIsOrder
  <2>4. M \in Nat /\ Launch!SessionGaps(t, s) \in [1 .. M - 1 -> Nat]
    BY <1>2, <2>2, <2>3, GapsAre
  <2>5. PICK g : g = Launch!SessionGaps(t, s)
    OBVIOUS
  <2>6. g \in Seq(Nat)
    <3>1. CASE M = 0
      <4>1. 1 .. M - 1 = 1 .. 0
        BY <3>1
      <4>2. QED
        BY <2>4, <2>5, <4>1
    <3>2. CASE M # 0
      <4>1. M - 1 \in Nat
        BY <2>4, <3>2
      <4>2. QED
        BY <2>4, <2>5, <4>1
    <3>3. QED
      BY <3>1, <3>2
  <2>7. QED
    BY <1>5, <2>1, <2>5, <2>6
<1>8. gaps \in Seq(Seq(Nat)) /\ Len(gaps) = N
  BY <1>4, <1>5, <1>7
<1>9. Launch!FlattenSeq(gaps) \in Seq(Nat)
  <2>1. CASE N = 0
    <3>1. gaps = <<>>
      BY <1>8, <2>1
    <3>2. Launch!FlattenSeq(gaps) = gaps
      BY <1>8, <2>1 DEF Launch!FlattenSeq
    <3>3. <<>> \in Seq(Nat)
      OBVIOUS
    <3>4. QED
      BY <3>1, <3>2, <3>3
  <2>2. CASE N # 0
    <3>1. PICK flat : flat = CHOOSE f : FlatOf(f, gaps)
      OBVIOUS
    <3>2. Joins(flat, gaps, Nat)
      BY <1>8, <3>1, FlatIs
    <3>3. Launch!FlattenSeq(gaps) = flat[N]
      BY <1>8, <2>2, <3>1 DEF Launch!FlattenSeq, FlatOf
    <3>4. N \in 1 .. Len(gaps)
      BY <1>4, <1>8, <2>2
    <3>5. QED
      BY <3>2, <3>3, <3>4 DEF Joins
  <2>3. QED
    BY <2>1, <2>2
<1>10. QED
  BY <1>6, <1>9

(* The archives that the planner is given.                                 *)
LEMMA ArchivesAre ==
  ASSUME PlansAssumption, Launch!ScheduleInit
  PROVE  input.archives \in Seq(Seq(Launch!Line)) /\ Len(input.archives) = 2
<1>1. input.archives \in Launch!Archive \X Launch!Archive
  BY DEF Launch!ScheduleInit
<1>2. PICK a \in Launch!Archive, b \in Launch!Archive : input.archives = <<a, b>>
  BY <1>1
<1>3. a \in Seq(Launch!Line) /\ b \in Seq(Launch!Line)
  BY DEF Launch!Archive, PlansAssumption
<1>4. <<a, b>> \in Seq(Seq(Launch!Line)) /\ Len(<<a, b>>) = 2
  BY <1>3
<1>5. QED
  BY <1>2, <1>4

\* The fold of a sequence of numbers that adds them up.
GapFold(it, g) ==
  it = [s \in SUBSET DOMAIN g |->
          IF s = {} THEN 0 ELSE it[s \ {Launch!Max(s)}] + g[Launch!Max(s)]]

\* The sum that the property takes.
SumOf(g) == Launch!FoldLeft(+, 0, g)

(* The sum of the property is a fold.                                      *)
LEMMA SumIsFold ==
  ASSUME NEW g
  PROVE  SumOf(g) = (CHOOSE it : GapFold(it, g))[DOMAIN g]
  BY DEF SumOf, Launch!FoldLeft, Launch!MapThenFoldSet, GapFold

(* So the sequence's sum is that of its elements.                          *)
LEMMA SumIs ==
  ASSUME NEW g \in Seq(Nat)
  PROVE  SumOf(g) = Sums(g, DOMAIN g)[DOMAIN g]
<1>1. PICK D : D = DOMAIN g
  OBVIOUS
<1>2. PICK n \in Nat : D = 1 .. n
  BY <1>1
<1>3. IsFiniteSet(D) /\ g \in [D -> Nat]
  <2>1. IsFiniteSet(D)
    BY <1>2, FS_Interval
  <2>2. g \in [D -> Nat]
    BY <1>1
  <2>3. QED
    BY <2>1, <2>2
<1>4. PICK first : first = [s \in SUBSET D |-> Launch!Max(s)]
  OBVIOUS
<1>5. Takes(first, D)
  <2>1. \A s \in SUBSET D : s # {} => Launch!Max(s) \in s
    BY <1>2, LastChosen DEF Launch!Max
  <2>2. QED
    BY <1>4, <2>1 DEF Takes
<1>6. \A it : \A s \in SUBSET D :
        AddStep(it, g, first, s) = IF s = {} THEN 0 ELSE it[s \ {Launch!Max(s)}] + g[Launch!Max(s)]
  BY <1>4 DEF AddStep
<1>7. PICK full : full = Sums(g, D)
  OBVIOUS
<1>8. Adds(full, D, g, first) /\ \A it : Adds(it, D, g, first) => it[D] = full[D]
  BY <1>3, <1>5, <1>7, FoldIsSum
<1>9. PICK sums : sums = [s \in SUBSET D |-> full[s]]
  OBVIOUS
<1>10. GapFold(sums, g)
  <2>1. ASSUME NEW s \in SUBSET D
        PROVE  sums[s] = IF s = {} THEN 0
                         ELSE sums[s \ {Launch!Max(s)}] + g[Launch!Max(s)]
    <3>1. full[s] = IF s = {} THEN 0
                    ELSE full[s \ {Launch!Max(s)}] + g[Launch!Max(s)]
      BY <1>6, <1>8 DEF Adds
    <3>2. sums[s] = full[s] /\ sums[s \ {Launch!Max(s)}] = full[s \ {Launch!Max(s)}]
      BY <1>9
    <3>3. QED
      BY <3>1, <3>2
  <2>2. QED
    BY <1>1, <1>9, <2>1 DEF GapFold
<1>11. PICK it : it = CHOOSE h : GapFold(h, g)
  OBVIOUS
<1>12. GapFold(it, g)
  BY <1>10, <1>11
<1>13. Adds(it, D, g, first)
  <2>1. \A s \in SUBSET D : it[s] = IF s = {} THEN 0
                                   ELSE it[s \ {Launch!Max(s)}] + g[Launch!Max(s)]
    BY <1>1, <1>12 DEF GapFold
  <2>2. \A s \in SUBSET D : it[s] = AddStep(it, g, first, s)
    BY <1>6, <2>1
  <2>3. QED
    BY <2>2 DEF Adds
<1>14. it[D] = full[D]
  BY <1>8, <1>13
<1>15. QED
  BY <1>1, <1>11, <1>14, <1>7, SumIsFold

(* The gaps of a session add up to the time from its first turn to its     *)
(* last.                                                                   *)
LEMMA GapsSpan ==
  ASSUME NEW N \in Nat, NEW v \in [1 .. N + 1 -> Nat],
         NEW g \in [1 .. N -> Nat], \A n \in 1 .. N : g[n] = v[n + 1] - v[n]
  PROVE  Sums(g, 1 .. N)[1 .. N] = v[N + 1] - v[1]
<1>1. PICK D : D = 1 .. N
  OBVIOUS
<1>2. IsFiniteSet(D) /\ g \in [D -> Nat]
  <2>1. IsFiniteSet(D)
    BY <1>1, FS_Interval
  <2>2. QED
    BY <1>1, <2>1
<1>3. PICK sums : sums = Sums(g, D)
  OBVIOUS
<1>4. sums[{}] = 0
  BY <1>2, <1>3, SumsAdd
<1>5. ASSUME NEW n \in Nat, n + 1 \in D, sums[1 .. n] = v[n + 1] - v[1]
      PROVE  sums[1 .. n + 1] = v[(n + 1) + 1] - v[1]
  <2>1. 1 .. n + 1 \in SUBSET D /\ n + 1 \in 1 .. n + 1
    BY <1>1, <1>5
  <2>2. (1 .. n + 1) \ {n + 1} = 1 .. n
    OBVIOUS
  <2>3. IsAdded(D, g, 1 .. n + 1, n + 1)
    BY <1>2, <2>1, SummandIsAdded DEF Summand
  <2>4. sums[1 .. n + 1] = sums[1 .. n] + g[n + 1]
    BY <1>3, <2>2, <2>3 DEF IsAdded
  <2>5. g[n + 1] = v[(n + 1) + 1] - v[n + 1]
    BY <1>1, <1>5
  <2>6. v[1] \in Nat /\ v[n + 1] \in Nat /\ v[(n + 1) + 1] \in Nat
    BY <1>1, <1>5
  <2>7. QED
    BY <1>5, <2>4, <2>5, <2>6
<1> DEFINE Good == {n \in Nat : n \in 0 .. N => sums[1 .. n] = v[n + 1] - v[1]}
<1>6. 0 \in Good
  <2>1. 1 .. 0 = {} /\ 0 + 1 = 1
    OBVIOUS
  <2>2. v[1] \in Nat /\ v[1] - v[1] = 0
    OBVIOUS
  <2>3. QED
    BY <1>4, <2>1, <2>2
<1>7. ASSUME NEW n \in Good
      PROVE  n + 1 \in Good
  <2>1. SUFFICES ASSUME n + 1 \in 0 .. N
                 PROVE  sums[1 .. n + 1] = v[(n + 1) + 1] - v[1]
    OBVIOUS
  <2>2. n \in 0 .. N /\ n + 1 \in D
    BY <1>1, <2>1
  <2>3. QED
    BY <1>5, <2>2
<1>8. Good = Nat
  <2>1. Good \in SUBSET Nat
    OBVIOUS
  <2> HIDE DEF Good
  <2>2. QED
    BY <1>6, <1>7, <2>1, AllNumbers
<1>9. N \in Good
  <2> HIDE DEF Good
  <2>1. QED
    BY <1>8
<1>10. QED
  BY <1>1, <1>3, <1>9

(* The first turn's start is the earliest of a session, and the last one's *)
(* the latest.                                                             *)
LEMMA SessionSpan ==
  ASSUME PlansAssumption, NEW t \in TurnMaps, NEW s \in SessionIds,
         NEW starts, starts = {t[k] : k \in KeysOf(t, s)}, starts # {}
  PROVE  /\ Len(Launch!SessionGaps(t, s)) + 1 = Cardinality(KeysOf(t, s))
         /\ SumOf(Launch!SessionGaps(t, s)) =
              (CHOOSE x \in starts : \A y \in starts : y <= x)
              - (CHOOSE x \in starts : \A y \in starts : x <= y)
<1>1. PICK N, o : N = Cardinality(KeysOf(t, s)) /\ o = Launch!Sorted(t, s)
  OBVIOUS
<1>2. InOrder(o, t, s, N)
  BY <1>1, SortedIsOrder
<1>3. PICK g : g = Launch!SessionGaps(t, s)
  OBVIOUS
<1>4. /\ N \in Nat /\ \A n \in 1 .. N : t[o[n]] \in Nat /\ o[n] \in KeysOf(t, s)
      /\ g = [n \in 1 .. N - 1 |-> t[o[n + 1]] - t[o[n]]] /\ g \in [1 .. N - 1 -> Nat]
  BY <1>1, <1>2, <1>3, GapsAre
<1>5. /\ \A i, j \in 1 .. N : i < j => t[o[i]] <= t[o[j]]
      /\ \A k \in KeysOf(t, s) : \E i \in 1 .. N : o[i] = k
  BY <1>2 DEF InOrder
<1>6. N \in Nat \ {0} /\ 1 \in 1 .. N /\ N \in 1 .. N
  <2>1. PICK k : k \in KeysOf(t, s)
    OBVIOUS
  <2>2. PICK i \in 1 .. N : o[i] = k
    BY <1>5, <2>1
  <2>3. QED
    BY <1>4, <2>2
<1>7. PICK v : v = [n \in 1 .. N |-> t[o[n]]]
  OBVIOUS
<1>8. /\ v \in [1 .. N -> Nat] /\ starts = {v[n] : n \in 1 .. N}
      /\ \A i, j \in 1 .. N : i < j => v[i] <= v[j]
  <2>1. \A n \in 1 .. N : v[n] = t[o[n]] /\ v[n] \in Nat /\ v[n] \in starts
    BY <1>4, <1>7
  <2>2. \A x \in starts : \E n \in 1 .. N : v[n] = x
    BY <1>5, <2>1
  <2>3. QED
    BY <1>5, <1>7, <2>1, <2>2
<1>9. g \in Seq(Nat) /\ Len(g) = N - 1 /\ DOMAIN g = 1 .. N - 1
  <2>1. N - 1 \in Nat
    BY <1>6
  <2>2. QED
    BY <1>4, <2>1
<1>10. SumOf(g) = v[N] - v[1]
  <2>1. SumOf(g) = Sums(g, 1 .. N - 1)[1 .. N - 1]
    BY <1>9, SumIs
  <2>2. \A n \in 1 .. N - 1 : g[n] = v[n + 1] - v[n]
    BY <1>4, <1>6, <1>7
  <2>3. PICK M \in Nat : M = N - 1 /\ N = M + 1
    BY <1>6
  <2>4. Sums(g, 1 .. M)[1 .. M] = v[M + 1] - v[1]
    BY <1>4, <1>8, <2>2, <2>3, GapsSpan
  <2>5. QED
    BY <2>1, <2>3, <2>4
<1>11. \A n \in 1 .. N : v[1] <= v[n] /\ v[n] <= v[N] /\ v[n] \in Nat
  <2>1. ASSUME NEW n \in 1 .. N
        PROVE  v[1] <= v[n] /\ v[n] <= v[N] /\ v[n] \in Nat
    <3>1. v[n] \in Nat /\ (1 < n \/ n = 1) /\ (n < N \/ n = N)
      BY <1>8, <1>4
    <3>2. QED
      BY <1>6, <1>8, <3>1
  <2>2. QED
    BY <2>1
<1>12. starts \in SUBSET Nat /\ v[1] \in starts /\ v[N] \in starts
       /\ \A y \in starts : v[1] <= y /\ y <= v[N]
  BY <1>6, <1>8, <1>11
<1>13. (CHOOSE x \in starts : \A y \in starts : y <= x) = v[N]
  <2>1. PICK x : x = CHOOSE z \in starts : \A y \in starts : y <= z
    OBVIOUS
  <2>2. x \in starts /\ \A y \in starts : y <= x
    BY <1>12, <2>1
  <2>3. x \in Nat /\ v[N] \in Nat /\ x <= v[N] /\ v[N] <= x
    BY <1>12, <2>2
  <2>4. QED
    BY <2>1, <2>3
<1>14. (CHOOSE x \in starts : \A y \in starts : x <= y) = v[1]
  <2>1. PICK x : x = CHOOSE z \in starts : \A y \in starts : z <= y
    OBVIOUS
  <2>2. x \in starts /\ \A y \in starts : x <= y
    BY <1>12, <2>1
  <2>3. x \in Nat /\ v[1] \in Nat /\ x <= v[1] /\ v[1] <= x
    BY <1>12, <2>2
  <2>4. QED
    BY <2>1, <2>3
<1>15. Len(g) + 1 = N
  BY <1>6, <1>9
<1>16. QED
  BY <1>1, <1>3, <1>10, <1>13, <1>14, <1>15

(* The gaps do not depend on how the records are spread over archives.     *)
LEMMA OneArchive ==
  ASSUME PlansAssumption, NEW archives \in Seq(Seq(Launch!Line)), Len(archives) = 2
  PROVE  Launch!ExtractGaps(archives) = Launch!ExtractGaps(<<Launch!FlattenSeq(archives)>>)
<1>1. PICK flat : flat = CHOOSE f : FlatOf(f, archives)
  OBVIOUS
<1>2. Joins(flat, archives, Launch!Line)
  BY <1>1, FlatIs
<1>3. PICK all : all = flat[2]
  OBVIOUS
<1>4. Launch!FlattenSeq(archives) = all
  BY <1>1, <1>3 DEF Launch!FlattenSeq, FlatOf
<1>5. all \in Seq(Launch!Line)
  BY <1>2, <1>3 DEF Joins
<1>6. Members(all) = Records(archives, 2)
  <2>1. JoinsMembers(flat, archives) /\ 2 \in 1 .. Len(archives)
    BY <1>2, FlatMembers
  <2>2. QED
    BY <1>3, <2>1 DEF JoinsMembers, Records
<1>7. PICK one : one = <<all>>
  OBVIOUS
<1>8. one \in Seq(Seq(Launch!Line)) /\ Len(one) = 1 /\ one[1] = all
  BY <1>5, <1>7
<1>9. Records(one, 1) = Members(all)
  <2>1. 1 .. 1 = {1}
    OBVIOUS
  <2>2. QED
    BY <1>8, <2>1 DEF Records
<1>10. Records(archives, 2) \in SUBSET Launch!Line
       /\ HasTurns(Launch!Turns(archives), Records(archives, 2))
  BY TurnsLeast
<1>11. HasTurns(Launch!Turns(one), Records(one, 1))
  BY <1>8, TurnsLeast
<1>12. Launch!Turns(archives) = Launch!Turns(one)
  BY <1>6, <1>9, <1>10, <1>11, LeastUnique
<1>13. Launch!ExtractGaps(archives) = Launch!ExtractGaps(one)
  BY <1>12 DEF Launch!ExtractGaps
<1>14. QED
  BY <1>4, <1>7, <1>13

(* The gaps are those observed.                                            *)
LEMMA GapsPromise ==
  PlansAssumption /\ Launch!ScheduleInit => Launch!GapsObserved
<1> SUFFICES ASSUME PlansAssumption, Launch!ScheduleInit
             PROVE  Launch!GapsObserved
  OBVIOUS
<1>1. PICK archives \in Seq(Seq(Launch!Line)) : archives = input.archives /\ Len(archives) = 2
  BY ArchivesAre
<1>2. Launch!ExtractGaps(archives) = Launch!ExtractGaps(<<Launch!FlattenSeq(archives)>>)
  BY <1>1, OneArchive
<1> DEFINE t == Launch!Turns(input.archives)
<1>3. t \in TurnMaps
  BY <1>1, TurnsLeast DEF HasTurns
<1> HIDE DEF t
<1>4. ASSUME NEW s \in SessionIds, NEW starts, starts = {t[k] : k \in KeysOf(t, s)}, starts # {}
      PROVE  /\ Len(Launch!SessionGaps(t, s)) + 1 = Launch!Cardinality(KeysOf(t, s))
             /\ SumOf(Launch!SessionGaps(t, s)) =
                  (CHOOSE x \in starts : \A y \in starts : y <= x)
                  - (CHOOSE x \in starts : \A y \in starts : x <= y)
  <2>1. PICK S : S = KeysOf(t, s)
    OBVIOUS
  <2>2. Launch!Cardinality(S) = Cardinality(S)
    BY DEF Launch!Cardinality, Cardinality, Launch!IsFiniteSet, IsFiniteSet
  <2>3. QED
    BY <1>3, <1>4, <2>1, <2>2, SessionSpan
<1>5. ASSUME NEW s \in SessionIds
      PROVE  LET starts == {t[k] : k \in {j \in DOMAIN t : j[1] = s}}
             IN starts # {} =>
                  /\ Len(Launch!SessionGaps(t, s)) + 1 = Launch!Cardinality({k \in DOMAIN t : k[1] = s})
                  /\ Launch!FoldLeft(+, 0, Launch!SessionGaps(t, s)) =
                       (CHOOSE x \in starts : \A y \in starts : y <= x)
                       - (CHOOSE x \in starts : \A y \in starts : x <= y)
  BY <1>4 DEF KeysOf, SumOf
<1>6. Launch!ExtractGaps(input.archives) =
        Launch!ExtractGaps(<<Launch!FlattenSeq(input.archives)>>)
  BY <1>1, <1>2
<1>7. QED
  BY <1>5, <1>6 DEF Launch!GapsObserved, t

(* Every schedule that make_schedule writes for a number of sessions is    *)
(* accepted for as many, and for no other number.                          *)
LEMMA SchedulePromise == PlansAssumption /\ Launch!ScheduleInit => Launch!ScheduleAccepted
<1> SUFFICES ASSUME PlansAssumption, Launch!ScheduleInit
             PROVE  Launch!ScheduleAccepted
  OBVIOUS
<1> DEFINE values == Launch!ExtractGaps(input.archives)
<1>1. values \in Seq(Nat)
  BY ArchivesAre, PoolIs
<1>2. MaxPlanned \in Nat /\ Scale \in Nat
  BY DEF PlansAssumption
<1> HIDE DEF values
<1>3. ASSUME NEW count \in 1 .. MaxPlanned, NEW draws \in [1 .. count - 1 -> DOMAIN values],
             NEW sessions \in 1 .. MaxPlanned
      PROVE  Launch!LoadAdmissionSchedule(Launch!MakeSchedule(values, draws, Scale), sessions)
               <=> sessions = count
  <2>1. count - 1 \in Nat /\ count \in Nat /\ sessions \in Nat /\ (count - 1) + 1 = count
    BY <1>2
  <2>2. draws \in Seq(DOMAIN values) /\ Len(draws) = count - 1
    BY <2>1
  <2>3. QED
    BY <1>1, <1>2, <2>1, <2>2, SchedulesAreAccepted
<1>4. QED
  BY <1>3 DEF Launch!ScheduleAccepted, values

-----------------------------------------------------------------------------
(***************************************************************************)
(* TraceSteps.                                                             *)
(***************************************************************************)

(* The trace that the replay is given.                                     *)
TraceIsRead ==
  /\ DOMAIN input.events = 1 .. Len(input.events) /\ Len(input.events) \in Nat
  /\ \A n \in DOMAIN input.events : /\ n \in Nat
                                    /\ input.events[n].turn \in Nat /\ input.events[n].at \in Nat
                                    /\ input.events[n].action \in {"command", "no command", "other"}
  /\ DOMAIN input.spans = 1 .. Len(input.spans) /\ Len(input.spans) \in Nat
  /\ \A n \in DOMAIN input.spans : n \in Nat /\ input.spans[n] \in Nat
  /\ input.older \in BOOLEAN

(* A recorded trace is as it is read.                                      *)
LEMMA TraceIs ==
  ASSUME PlansAssumption, Steps!TraceInit
  PROVE  TraceIsRead
<1>1. UserTurns \in Nat /\ MaxEvents \in Nat /\ MaxSpans \in Nat
  BY DEF PlansAssumption
<1>2. \A x \in Steps!Times : x \in Nat
  BY <1>1 DEF Steps!Times
<1>3. PICK events, spans : events = input.events /\ spans = input.spans
  OBVIOUS
<1>4. /\ events \in UNION {[1 .. n -> Steps!Events] : n \in 0 .. MaxEvents}
      /\ spans \in UNION {[1 .. n -> Steps!Times] : n \in 0 .. MaxSpans}
      /\ input.older \in BOOLEAN
  BY <1>3 DEF Steps!TraceInit
<1>5. PICK n \in 0 .. MaxEvents : events \in [1 .. n -> Steps!Events]
  BY <1>4
<1>6. PICK m \in 0 .. MaxSpans : spans \in [1 .. m -> Steps!Times]
  BY <1>4
<1>7. events \in Seq(Steps!Events) /\ spans \in Seq(Steps!Times)
  BY <1>1, <1>5, <1>6
<1>8. \A e \in Steps!Events : /\ e.turn \in Nat /\ e.at \in Nat
                              /\ e.action \in {"command", "no command", "other"}
  <2>1. \A x \in 1 .. UserTurns : x \in Nat
    BY <1>1
  <2>2. QED
    BY <1>2, <2>1 DEF Steps!Events
<1>9. \A k \in DOMAIN spans : k \in Nat /\ spans[k] \in Nat
  <2>1. \A k \in DOMAIN spans : k \in Nat /\ spans[k] \in Steps!Times
    BY <1>7
  <2>2. QED
    BY <1>2, <2>1
<1>10. \A k \in DOMAIN events : k \in Nat /\ events[k] \in Steps!Events
  BY <1>7
<1>11. /\ DOMAIN events = 1 .. Len(events) /\ Len(events) \in Nat
       /\ DOMAIN spans = 1 .. Len(spans) /\ Len(spans) \in Nat
  BY <1>7
<1>12. QED
  BY <1>3, <1>4, <1>8, <1>9, <1>10, <1>11 DEF TraceIsRead

\* The steps, and how each of them ranks.
AllSteps == Steps!TerminalSteps \cup Steps!WaitSteps

Rank(s) == <<s.turn, s.at, IF s.kind = "llm_wait" THEN 0 ELSE 1, s.n>>

Precedes(a, b) ==
  \/ a[1] < b[1]
  \/ a[1] = b[1] /\ a[2] < b[2]
  \/ a[1] = b[1] /\ a[2] = b[2] /\ a[3] < b[3]
  \/ a[1] = b[1] /\ a[2] = b[2] /\ a[3] = b[3] /\ a[4] < b[4]

(* Steps are sorted by their ranks.                                        *)
LEMMA BeforeIs ==
  ASSUME NEW s, NEW r
  PROVE  Steps!Before(s, r) <=> Precedes(Rank(s), Rank(r))
<1>1. PICK a, b : a = Rank(s) /\ b = Rank(r)
  OBVIOUS
<1>2. Steps!Before(s, r) <=>
        \E k \in 1 .. 4 : (\A j \in 1 .. k - 1 : a[j] = b[j]) /\ a[k] < b[k]
  BY <1>1 DEF Steps!Before, Rank
<1>3. 1 .. 4 = {1, 2, 3, 4}
  OBVIOUS
<1>4. 1 .. 1 - 1 = {} /\ 1 .. 2 - 1 = {1} /\ 1 .. 3 - 1 = {1, 2} /\ 1 .. 4 - 1 = {1, 2, 3}
  OBVIOUS
<1>5. QED
  BY <1>1, <1>2, <1>3, <1>4 DEF Precedes

\* What a step is.
IsTerminal(s, n) ==
  /\ n \in DOMAIN input.events /\ input.events[n].action = "command"
  /\ s = [kind |-> "terminal", n |-> n, turn |-> input.events[n].turn, at |-> input.events[n].at]

IsWait(s, n, t) ==
  /\ n \in DOMAIN input.spans /\ t \in Steps!Matched(input.spans[n])
  /\ s = [kind |-> "llm_wait", n |-> n, turn |-> t, at |-> input.spans[n]]

(* The two kinds of step of a trace.                                       *)
LEMMA StepsAre ==
  /\ \A s : s \in Steps!TerminalSteps <=> \E n : IsTerminal(s, n)
  /\ \A s : s \in Steps!WaitSteps <=> \E n, t : IsWait(s, n, t)
<1>1. \A s : s \in Steps!TerminalSteps <=> \E n : IsTerminal(s, n)
  BY DEF Steps!TerminalSteps, Steps!TerminalCommand, IsTerminal
<1>2. \A s : s \in Steps!WaitSteps <=> \E n, t : IsWait(s, n, t)
  BY DEF Steps!WaitSteps, IsWait
<1>3. QED
  BY <1>1, <1>2

(* A call falls into one turn at most.                                     *)
LEMMA MatchedOnce ==
  ASSUME PlansAssumption, NEW at \in Nat
  PROVE  /\ Steps!Matched(at) \in SUBSET (1 .. UserTurns) /\ UserTurns \in Nat
         /\ \A t, u \in Steps!Matched(at) : t = u
<1>1. UserTurns \in Nat
  BY DEF PlansAssumption
<1>2. Steps!Matched(at) = {t \in 1 .. UserTurns : 3 * t - 2 <= at /\ at <= 3 * t - 1}
  BY DEF Steps!Matched
<1>3. \A t, u \in 1 .. UserTurns :
        3 * t - 2 <= at /\ at <= 3 * t - 1 /\ 3 * u - 2 <= at /\ at <= 3 * u - 1 => t = u
  BY <1>1
<1>4. QED
  BY <1>1, <1>2, <1>3

(* Each step has a rank of its own.                                        *)
LEMMA RanksAre ==
  ASSUME PlansAssumption, TraceIsRead
  PROVE  /\ \A s \in AllSteps : Rank(s) \in Nat \X Nat \X Nat \X Nat
         /\ \A s, r \in AllSteps : Rank(s) = Rank(r) => s = r
<1>1. ASSUME NEW s \in AllSteps
      PROVE  /\ s.turn \in Nat /\ s.at \in Nat /\ s.n \in Nat /\ s.kind \in {"terminal", "llm_wait"}
             /\ s = [kind |-> s.kind, n |-> s.n, turn |-> s.turn, at |-> s.at]
  <2>1. CASE s \in Steps!TerminalSteps
    <3>1. PICK n : IsTerminal(s, n)
      BY <2>1, StepsAre
    <3>2. n \in DOMAIN input.events /\ n \in Nat /\ input.events[n].turn \in Nat
          /\ input.events[n].at \in Nat
      BY <3>1 DEF IsTerminal, TraceIsRead
    <3>3. s = [kind |-> "terminal", n |-> n, turn |-> input.events[n].turn, at |-> input.events[n].at]
      BY <3>1 DEF IsTerminal
    <3>4. QED
      BY <3>2, <3>3
  <2>2. CASE s \in Steps!WaitSteps
    <3>1. PICK n, t : IsWait(s, n, t)
      BY <2>2, StepsAre
    <3>2. n \in Nat /\ input.spans[n] \in Nat
      BY <3>1 DEF IsWait, TraceIsRead
    <3>3. t \in Nat
      BY <3>1, <3>2, MatchedOnce DEF IsWait
    <3>4. s = [kind |-> "llm_wait", n |-> n, turn |-> t, at |-> input.spans[n]]
      BY <3>1 DEF IsWait
    <3>5. QED
      BY <3>2, <3>3, <3>4
  <2>3. QED
    BY <2>1, <2>2 DEF AllSteps
<1>2. \A s \in AllSteps : Rank(s) \in Nat \X Nat \X Nat \X Nat
  BY <1>1 DEF Rank
<1>3. ASSUME NEW s \in AllSteps, NEW r \in AllSteps, Rank(s) = Rank(r)
      PROVE  s = r
  <2>1. s.turn = r.turn /\ s.at = r.at /\ s.n = r.n
        /\ (IF s.kind = "llm_wait" THEN 0 ELSE 1) = (IF r.kind = "llm_wait" THEN 0 ELSE 1)
    BY <1>3 DEF Rank
  <2>2. s.kind = r.kind
    BY <1>1, <2>1
  <2>3. QED
    BY <1>1, <2>1, <2>2
<1>4. QED
  BY <1>2, <1>3

\* The commands, and the calls of the model that fall into a turn.
CommandEvents == {n \in DOMAIN input.events : input.events[n].action = "command"}
MatchedSpans == {n \in DOMAIN input.spans : Steps!Matched(input.spans[n]) # {}}

(* There is a step for each of them.                                       *)
LEMMA StepSizes ==
  ASSUME PlansAssumption, TraceIsRead
  PROVE  /\ IsFiniteSet(CommandEvents) /\ IsFiniteSet(MatchedSpans) /\ IsFiniteSet(AllSteps)
         /\ Cardinality(AllSteps) = Cardinality(CommandEvents) + Cardinality(MatchedSpans)
<1>1. IsFiniteSet(DOMAIN input.events) /\ IsFiniteSet(DOMAIN input.spans)
  <2>1. PICK m \in Nat, n \in Nat : DOMAIN input.events = 1 .. m /\ DOMAIN input.spans = 1 .. n
    BY DEF TraceIsRead
  <2>2. IsFiniteSet(1 .. m) /\ IsFiniteSet(1 .. n)
    BY FS_Interval
  <2>3. QED
    BY <2>1, <2>2
<1>2. IsFiniteSet(CommandEvents) /\ IsFiniteSet(MatchedSpans)
  BY <1>1, FS_Subset DEF CommandEvents, MatchedSpans
<1>3. PICK T, W : T = Steps!TerminalSteps /\ W = Steps!WaitSteps
  OBVIOUS
<1>4. IsFiniteSet(T) /\ Cardinality(T) = Cardinality(CommandEvents)
  <2> DEFINE step(n) == [kind |-> "terminal", n |-> n, turn |-> input.events[n].turn,
                         at |-> input.events[n].at]
             f == [n \in CommandEvents |-> step(n)]
  <2>1. \A n \in CommandEvents : step(n) \in T
    BY <1>3, StepsAre DEF IsTerminal, CommandEvents
  <2>2. \A y \in T : \E n \in CommandEvents : step(n) = y
    BY <1>3, StepsAre DEF IsTerminal, CommandEvents
  <2>3. \A m, n \in CommandEvents : step(m) = step(n) => m = n
    <3>1. \A n : step(n).n = n
      OBVIOUS
    <3> HIDE DEF step
    <3>2. QED
      BY <3>1
  <2> HIDE DEF step
  <2>4. f \in [CommandEvents -> T] /\ \A n \in CommandEvents : f[n] = step(n)
    BY <2>1
  <2> HIDE DEF f
  <2>5. QED
    BY <1>2, <2>2, <2>3, <2>4, SameSize
<1>5. IsFiniteSet(W) /\ Cardinality(W) = Cardinality(MatchedSpans)
  <2> DEFINE turn(n) == CHOOSE t \in Steps!Matched(input.spans[n]) : TRUE
             step(n) == [kind |-> "llm_wait", n |-> n, turn |-> turn(n), at |-> input.spans[n]]
             f == [n \in MatchedSpans |-> step(n)]
  <2>1. \A n \in MatchedSpans : turn(n) \in Steps!Matched(input.spans[n])
    BY DEF MatchedSpans
  <2>2. \A n \in MatchedSpans : \A t \in Steps!Matched(input.spans[n]) : t = turn(n)
    <3>1. \A n \in MatchedSpans : input.spans[n] \in Nat
      BY DEF MatchedSpans, TraceIsRead
    <3> HIDE DEF turn
    <3>2. QED
      BY <2>1, <3>1, MatchedOnce
  <2> HIDE DEF turn
  <2>3. \A n \in MatchedSpans : step(n) \in W
    BY <1>3, <2>1, StepsAre DEF IsWait, MatchedSpans
  <2>4. \A y \in W : \E n \in MatchedSpans : step(n) = y
    <3>1. ASSUME NEW y \in W
          PROVE  \E n \in MatchedSpans : step(n) = y
      <4>1. PICK n, t : IsWait(y, n, t)
        BY <1>3, StepsAre
      <4>2. n \in MatchedSpans
        BY <4>1 DEF IsWait, MatchedSpans
      <4>3. t = turn(n)
        BY <2>2, <4>1, <4>2 DEF IsWait
      <4>4. QED
        BY <4>1, <4>2, <4>3 DEF IsWait
    <3>2. QED
      BY <3>1
  <2>5. \A m, n \in MatchedSpans : step(m) = step(n) => m = n
    <3>1. \A n : step(n).n = n
      OBVIOUS
    <3> HIDE DEF step
    <3>2. QED
      BY <3>1
  <2> HIDE DEF step
  <2>6. f \in [MatchedSpans -> W] /\ \A n \in MatchedSpans : f[n] = step(n)
    BY <2>3
  <2> HIDE DEF f
  <2>7. QED
    BY <1>2, <2>4, <2>5, <2>6, SameSize
<1>6. T \cap W = {}
  <2>1. \A s \in T : s.kind = "terminal"
    BY <1>3, StepsAre DEF IsTerminal
  <2>2. \A s \in W : s.kind = "llm_wait"
    BY <1>3, StepsAre DEF IsWait
  <2>3. QED
    BY <2>1, <2>2
<1>7. Cardinality(T \cap W) = 0
  BY <1>6, FS_EmptySet
<1>8. Cardinality(T) \in Nat /\ Cardinality(W) \in Nat
  BY <1>4, <1>5, FS_CardinalityType
<1>9. /\ IsFiniteSet(T \cup W)
      /\ Cardinality(T \cup W) = Cardinality(T) + Cardinality(W) - Cardinality(T \cap W)
  BY <1>4, <1>5, FS_Union
<1>10. Cardinality(T \cup W) = Cardinality(T) + Cardinality(W)
  BY <1>7, <1>8, <1>9
<1>11. AllSteps = T \cup W
  BY <1>3 DEF AllSteps
<1>12. QED
  BY <1>2, <1>4, <1>5, <1>9, <1>10, <1>11

\* o lists the steps by their ranks.
StepList(o, N) ==
  /\ N = Cardinality(AllSteps) /\ N \in Nat /\ o \in [1 .. N -> AllSteps]
  /\ \A i, j \in 1 .. N : i < j => Precedes(Rank(o[i]), Rank(o[j]))
  /\ \A i, j \in 1 .. N : i # j => o[i] # o[j]
  /\ \A s \in AllSteps : \E i \in 1 .. N : o[i] = s

(* The steps are sorted.                                                   *)
LEMMA StepsListed ==
  ASSUME PlansAssumption, TraceIsRead
  PROVE  StepList(Steps!Steps, Cardinality(AllSteps))
<1>1. PICK S : S = AllSteps
  OBVIOUS
<1>2. IsFiniteSet(S)
  BY <1>1, StepSizes
<1> DEFINE Below(x, y) == Precedes(Rank(x), Rank(y))
<1>3. PICK N, R, L : /\ N = Cardinality(S) /\ R = {e \in S \X S : Below(e[1], e[2])}
                     /\ L = Listings(S, N, R)
  OBVIOUS
<1>4. \A x, y \in S : <<x, y>> \in R <=> Below(x, y)
  <2> HIDE DEF Below
  <2>1. QED
    BY <1>3
<1>5. Orders(R, S)
  <2> DEFINE V == Nat \X Nat \X Nat \X Nat
  <2>1. \A a \in V : a[1] \in Nat /\ a[2] \in Nat /\ a[3] \in Nat /\ a[4] \in Nat
                     /\ a = <<a[1], a[2], a[3], a[4]>>
    OBVIOUS
  <2>2. \A a, b \in V : a # b => Precedes(a, b) \/ Precedes(b, a)
    <3> HIDE DEF V
    <3>1. ASSUME NEW a \in V, NEW b \in V, a # b
          PROVE  Precedes(a, b) \/ Precedes(b, a)
      <4>1. /\ a[1] \in Nat /\ a[2] \in Nat /\ a[3] \in Nat /\ a[4] \in Nat
            /\ b[1] \in Nat /\ b[2] \in Nat /\ b[3] \in Nat /\ b[4] \in Nat
        BY <2>1
      <4>2. ~(a[1] = b[1] /\ a[2] = b[2] /\ a[3] = b[3] /\ a[4] = b[4])
        BY <2>1, <3>1
      <4>3. QED
        BY <4>1, <4>2 DEF Precedes
    <3>2. QED
      BY <3>1
  <2>3. \A a, b \in V : Precedes(a, b) => ~Precedes(b, a)
    <3> HIDE DEF V
    <3>1. QED
      BY <2>1 DEF Precedes
  <2>4. \A a, b, c \in V : Precedes(a, b) /\ Precedes(b, c) => Precedes(a, c)
    <3> HIDE DEF V
    <3>1. QED
      BY <2>1 DEF Precedes
  <2>5. \A x \in S : Rank(x) \in V
    BY <1>1, RanksAre
  <2>6. \A x, y \in S : Rank(x) = Rank(y) => x = y
    BY <1>1, RanksAre
  <2> HIDE DEF V
  <2>7. \A x, y \in S : x # y => Below(x, y) \/ Below(y, x)
    BY <2>2, <2>5, <2>6
  <2>8. \A x, y \in S : Below(x, y) => ~Below(y, x)
    BY <2>3, <2>5
  <2>9. \A x, y, z \in S : Below(x, y) /\ Below(y, z) => Below(x, z)
    BY <2>4, <2>5
  <2> HIDE DEF Below
  <2>10. QED
    BY <1>4, <2>7, <2>8, <2>9 DEF Orders
<1>6. N \in Nat /\ L # {} /\ \A o \in L : IsListing(o, S, N, R)
  BY <1>2, <1>3, <1>5, ListExists
<1> HIDE DEF Below
<1>7. ASSUME NEW o \in [1 .. N -> S]
      PROVE  o \in L <=> \A i, j \in DOMAIN o : i < j => Below(o[i], o[j])
  <2>1. DOMAIN o = 1 .. N /\ \A i \in 1 .. N : o[i] \in S
    OBVIOUS
  <2>2. \A i, j \in 1 .. N : <<o[i], o[j]>> \in R <=> Below(o[i], o[j])
    BY <1>4, <2>1
  <2>3. o \in L <=> \A i, j \in DOMAIN o : i < j => <<o[i], o[j]>> \in R
    BY <1>3 DEF Listings
  <2>4. QED
    BY <2>1, <2>2, <2>3
<1>8. PICK o : o = Steps!Steps
  OBVIOUS
<1>9. o \in L
  <2>1. Steps!Cardinality(S) = N
    BY <1>3 DEF Steps!Cardinality, Cardinality, Steps!IsFiniteSet, IsFiniteSet
  <2>2. o = CHOOSE w \in [1 .. N -> S] : \A i, j \in DOMAIN w : i < j => Steps!Before(w[i], w[j])
    BY <1>1, <1>8, <2>1 DEF Steps!Steps, AllSteps
  <2>3. \E w \in [1 .. N -> S] : \A i, j \in DOMAIN w : i < j => Steps!Before(w[i], w[j])
    <3>1. PICK w : w \in L
      BY <1>6
    <3>2. w \in [1 .. N -> S]
      BY <1>6, <3>1 DEF IsListing
    <3>3. \A i, j \in DOMAIN w : i < j => Below(w[i], w[j])
      BY <1>7, <3>1, <3>2
    <3>4. QED
      BY <3>2, <3>3, BeforeIs DEF Below
  <2>4. o \in [1 .. N -> S] /\ \A i, j \in DOMAIN o : i < j => Steps!Before(o[i], o[j])
    BY <2>2, <2>3
  <2>5. \A i, j \in DOMAIN o : i < j => Below(o[i], o[j])
    BY <2>4, BeforeIs DEF Below
  <2>6. QED
    BY <1>7, <2>4, <2>5
<1>10. IsListing(o, S, N, R)
  BY <1>6, <1>9
<1>11. /\ o \in [1 .. N -> S] /\ DOMAIN o = 1 .. N
       /\ \A i, j \in 1 .. N : i # j => o[i] # o[j]
       /\ \A x \in S : \E i \in 1 .. N : o[i] = x
  BY <1>10 DEF IsListing
<1>12. \A i, j \in 1 .. N : i < j => Precedes(Rank(o[i]), Rank(o[j]))
  BY <1>7, <1>9, <1>11 DEF Below
<1>13. QED
  BY <1>1, <1>3, <1>6, <1>8, <1>11, <1>12 DEF StepList

\* The fold of a function that adds up its values.
ValueFold(it, p) ==
  it = [s \in SUBSET DOMAIN p |->
          IF s = {} THEN 0 ELSE p[CHOOSE x \in s : TRUE] + it[s \ {CHOOSE x \in s : TRUE}]]

\* The total that the property takes.
TotalOf(p) == Steps!FoldFunction(+, 0, p)

(* The total of the property is a fold.                                    *)
LEMMA TotalIsValueFold ==
  ASSUME NEW p
  PROVE  TotalOf(p) = (CHOOSE it : ValueFold(it, p))[DOMAIN p]
  BY DEF TotalOf, Steps!FoldFunction, Steps!FoldFunctionOnSet, Steps!MapThenFoldSet, ValueFold

(* It is the sum of the values.                                            *)
LEMMA TotalIsSum ==
  ASSUME NEW V, IsFiniteSet(V), NEW p \in [V -> Nat]
  PROVE  TotalOf(p) = Sums(p, V)[V]
<1>1. PICK first : first = [s \in SUBSET V |-> CHOOSE x \in s : TRUE]
  OBVIOUS
<1>2. Takes(first, V) /\ \A s \in SUBSET V : first[s] = CHOOSE x \in s : TRUE
  BY <1>1 DEF Takes
<1>3. PICK full : full = Sums(p, V)
  OBVIOUS
<1>4. PICK sums : sums = [s \in SUBSET V |-> full[s]]
  OBVIOUS
<1>5. ASSUME NEW s \in SUBSET V
      PROVE  sums[s] = IF s = {} THEN 0
                       ELSE p[CHOOSE x \in s : TRUE] + sums[s \ {CHOOSE x \in s : TRUE}]
  <2>1. CASE s = {}
    BY <1>3, <1>4, <2>1, SumsAdd
  <2>2. CASE s # {}
    <3>1. PICK z \in s : z = CHOOSE x \in s : TRUE
      BY <2>2
    <3>2. full[s] = p[z] + full[s \ {z}]
      <4>1. Sums(p, V)[s] = p[z] + Sums(p, V)[s \ {z}]
        BY SumsRemove
      <4>2. QED
        BY <1>3, <4>1
    <3>3. sums[s] = full[s] /\ sums[s \ {z}] = full[s \ {z}]
      BY <1>4
    <3>4. QED
      BY <2>2, <3>1, <3>2, <3>3
  <2>3. QED
    BY <2>1, <2>2
<1>6. ValueFold(sums, p)
  BY <1>4, <1>5 DEF ValueFold
<1>7. PICK it : it = CHOOSE h : ValueFold(h, p)
  OBVIOUS
<1>8. ValueFold(it, p)
  BY <1>6, <1>7
<1>9. \A s \in SUBSET V : it[s] = IF s = {} THEN 0
                                 ELSE p[CHOOSE x \in s : TRUE] + it[s \ {CHOOSE x \in s : TRUE}]
  BY <1>8 DEF ValueFold
<1>10. AddsUp(it, p, V)
  <2>1. it[{}] = 0
    <3>1. {} \in SUBSET V
      OBVIOUS
    <3>2. QED
      BY <1>9, <3>1
  <2>2. ASSUME NEW s \in SUBSET V, s # {}
        PROVE  \E z \in s : it[s] = p[z] + it[s \ {z}]
    <3>1. PICK z \in s : z = CHOOSE x \in s : TRUE
      BY <2>2
    <3>2. it[s] = p[z] + it[s \ {z}]
      BY <1>9, <2>2, <3>1
    <3>3. QED
      BY <3>2
  <2>3. QED
    BY <2>1, <2>2 DEF AddsUp
<1>11. it[V] = Sums(p, V)[V]
  BY <1>10, SumsUnique
<1>12. DOMAIN p = V
  OBVIOUS
<1>13. QED
  BY <1>7, <1>11, <1>12, TotalIsValueFold

(* Within a turn, the steps are in the order of their times.               *)
LEMMA StepsInTime ==
  ASSUME PlansAssumption, TraceIsRead, NEW o, NEW N, StepList(o, N)
  PROVE  \A i, j \in 1 .. N : i < j /\ o[i].turn = o[j].turn => o[i].at <= o[j].at
<1>1. ASSUME NEW i \in 1 .. N, NEW j \in 1 .. N, i < j, o[i].turn = o[j].turn
      PROVE  o[i].at <= o[j].at
  <2>1. PICK s \in AllSteps, r \in AllSteps : s = o[i] /\ r = o[j]
    BY DEF StepList
  <2>2. PICK a, b : a = Rank(s) /\ b = Rank(r)
    OBVIOUS
  <2>3. Precedes(a, b)
    BY <1>1, <2>1, <2>2 DEF StepList
  <2>4. a \in Nat \X Nat \X Nat \X Nat /\ b \in Nat \X Nat \X Nat \X Nat
    BY <2>2, RanksAre
  <2>5. /\ a[1] \in Nat /\ a[2] \in Nat /\ b[1] \in Nat /\ b[2] \in Nat
    BY <2>4
  <2>6. a[1] = s.turn /\ a[2] = s.at /\ b[1] = r.turn /\ b[2] = r.at
    BY <2>2 DEF Rank
  <2>7. a[1] = b[1]
    BY <1>1, <2>1, <2>6
  <2>8. a[2] <= b[2]
    BY <2>3, <2>5, <2>7 DEF Precedes
  <2>9. QED
    BY <2>1, <2>6, <2>8
<1>2. QED
  BY <1>1

(* A call is a step of each turn that it falls into.                       *)
LEMMA CallsAreSteps ==
  ASSUME PlansAssumption, TraceIsRead, NEW o, NEW N, StepList(o, N), NEW n \in DOMAIN input.spans
  PROVE  Cardinality({i \in 1 .. N : o[i].kind = "llm_wait" /\ o[i].n = n})
           = Cardinality(Steps!Matched(input.spans[n]))
<1>1. PICK I, M : /\ I = {i \in 1 .. N : o[i].kind = "llm_wait" /\ o[i].n = n}
                  /\ M = Steps!Matched(input.spans[n])
  OBVIOUS
<1>2. N \in Nat /\ \A i \in 1 .. N : o[i] \in AllSteps
  BY DEF StepList
<1>3. IsFiniteSet(I)
  <2>1. IsFiniteSet(1 .. N)
    BY <1>2, FS_Interval
  <2>2. QED
    BY <1>1, <2>1, FS_Subset
<1>4. ASSUME NEW i \in I
      PROVE  IsWait(o[i], n, o[i].turn) /\ o[i].turn \in M
  <2>1. PICK s \in AllSteps : s = o[i] /\ s.kind = "llm_wait" /\ s.n = n
    BY <1>1, <1>2
  <2>2. s \notin Steps!TerminalSteps
    <3>1. \A r \in Steps!TerminalSteps : r.kind = "terminal"
      BY StepsAre DEF IsTerminal
    <3>2. QED
      BY <2>1, <3>1
  <2>3. PICK m, t : IsWait(s, m, t)
    BY <2>2, StepsAre DEF AllSteps
  <2>4. s.n = m /\ s.turn = t
    BY <2>3 DEF IsWait
  <2>5. QED
    BY <1>1, <2>1, <2>3, <2>4 DEF IsWait
<1>5. PICK f : f = [i \in I |-> o[i].turn]
  OBVIOUS
<1>6. f \in [I -> M] /\ \A i \in I : f[i] = o[i].turn
  BY <1>4, <1>5
<1>7. ASSUME NEW i \in I, NEW j \in I, f[i] = f[j]
      PROVE  i = j
  <2>1. PICK t : t = o[i].turn /\ t = o[j].turn
    BY <1>6, <1>7
  <2>2. IsWait(o[i], n, t) /\ IsWait(o[j], n, t)
    BY <1>4, <2>1
  <2>3. o[i] = o[j]
    BY <2>2 DEF IsWait
  <2>4. i \in 1 .. N /\ j \in 1 .. N
    BY <1>1
  <2>5. QED
    BY <2>3, <2>4 DEF StepList
<1>8. ASSUME NEW t \in M
      PROVE  \E i \in I : f[i] = t
  <2>1. PICK s : s = [kind |-> "llm_wait", n |-> n, turn |-> t, at |-> input.spans[n]]
    OBVIOUS
  <2>2. IsWait(s, n, t)
    BY <1>1, <2>1 DEF IsWait
  <2>3. s \in AllSteps
    BY <2>2, StepsAre DEF AllSteps
  <2>4. PICK i \in 1 .. N : o[i] = s
    BY <2>3 DEF StepList
  <2>5. i \in I /\ o[i].turn = t
    BY <1>1, <2>1, <2>4
  <2>6. QED
    BY <1>6, <2>5
<1>9. Cardinality(M) = Cardinality(I)
  BY <1>3, <1>6, <1>7, <1>8, SameSize
<1>10. QED
  BY <1>1, <1>9

(* per-turn.json counts all the steps.                                     *)
LEMMA PerTurnCounts ==
  ASSUME PlansAssumption, TraceIsRead, NEW o, NEW N, StepList(o, N)
  PROVE  TotalOf(Steps!PerTurn(o)) = N
<1>1. N \in Nat /\ DOMAIN o = 1 .. N
  BY DEF StepList
<1>2. PICK D, f : D = 1 .. N /\ f = [i \in D |-> o[i].turn]
  OBVIOUS
<1>3. PICK V : V = {f[x] : x \in D}
  OBVIOUS
<1>4. PICK p : p = [v \in V |-> Cardinality({x \in D : f[x] = v})]
  OBVIOUS
<1>5. IsFiniteSet(D) /\ Cardinality(D) = N
  BY <1>1, <1>2, FS_Interval
<1>6. IsFiniteSet(V) /\ p \in [V -> Nat] /\ Sums(p, V)[V] = Cardinality(D)
  <2>1. Counts(p, V, f, D)
    BY <1>3, <1>4 DEF Counts
  <2>2. QED
    BY <1>5, <2>1, CountedByValue
<1>7. TotalOf(p) = N
  BY <1>5, <1>6, TotalIsSum
<1>8. Steps!PerTurn(o) = p
  <2>1. Steps!Range(o) = {o[x] : x \in D}
    BY <1>1, <1>2 DEF Steps!Range
  <2>2. {s.turn : s \in Steps!Range(o)} = V
    <3>1. \A x \in D : f[x] = o[x].turn
      BY <1>2
    <3>2. QED
      BY <1>3, <2>1, <3>1
  <2>3. \A v : {n \in DOMAIN o : o[n].turn = v} = {x \in D : f[x] = v}
    BY <1>1, <1>2
  <2>4. \A v : Steps!Cardinality({n \in DOMAIN o : o[n].turn = v}) = Cardinality({x \in D : f[x] = v})
    <3>1. \A S : Steps!Cardinality(S) = Cardinality(S)
      BY DEF Steps!Cardinality, Cardinality, Steps!IsFiniteSet, IsFiniteSet
    <3>2. QED
      BY <2>3, <3>1
  <2>5. QED
    BY <1>4, <2>2, <2>4 DEF Steps!PerTurn
<1>9. QED
  BY <1>7, <1>8

(* As many steps are awaited as there are, or more.                        *)
LEMMA StepsExpected ==
  ASSUME PlansAssumption, TraceIsRead, ~input.older, NEW N, N = Cardinality(AllSteps),
         NEW expected, expected = Steps!ExpectedStepCount
  PROVE  /\ N \in Nat /\ expected \in Nat /\ N <= expected
         /\ N = expected <=> /\ \A n \in DOMAIN input.events : input.events[n].action # "no command"
                             /\ \A n \in DOMAIN input.spans : Steps!Matched(input.spans[n]) # {}
<1>1. PICK T, E, C, M, D : /\ E = DOMAIN input.events /\ D = DOMAIN input.spans
                           /\ T = {n \in E : input.events[n].action # "other"}
                           /\ C = CommandEvents /\ M = MatchedSpans
  OBVIOUS
<1>2. PICK m \in Nat, k \in Nat : E = 1 .. m /\ D = 1 .. k /\ k = Len(input.spans)
  BY <1>1 DEF TraceIsRead
<1>3. IsFiniteSet(E) /\ IsFiniteSet(D) /\ Cardinality(D) = k
  BY <1>2, FS_Interval
<1>4. C \in SUBSET T /\ M \in SUBSET D /\ IsFiniteSet(T)
  <2>1. T \in SUBSET E
    BY <1>1
  <2>2. IsFiniteSet(T)
    BY <1>3, <2>1, FS_Subset
  <2>3. QED
    BY <1>1, <2>2 DEF CommandEvents, MatchedSpans
<1>5. /\ Cardinality(C) <= Cardinality(T) /\ (Cardinality(C) = Cardinality(T) => C = T)
      /\ Cardinality(M) <= k /\ (Cardinality(M) = k => M = D)
  BY <1>3, <1>4, FS_Subset
<1>6. Cardinality(C) \in Nat /\ Cardinality(T) \in Nat /\ Cardinality(M) \in Nat
  <2>1. IsFiniteSet(C) /\ IsFiniteSet(M)
    BY <1>3, <1>4, FS_Subset
  <2>2. QED
    BY <1>4, <2>1, FS_CardinalityType
<1>7. N = Cardinality(C) + Cardinality(M)
  BY <1>1, StepSizes
<1>8. expected = Cardinality(T) + k
  <2>1. Steps!Cardinality(T) = Cardinality(T)
    BY DEF Steps!Cardinality, Cardinality, Steps!IsFiniteSet, IsFiniteSet
  <2>2. QED
    BY <1>1, <1>2, <2>1 DEF Steps!ExpectedStepCount
<1>9. N \in Nat /\ expected \in Nat /\ N <= expected
  BY <1>2, <1>5, <1>6, <1>7, <1>8
<1>10. N = expected <=> C = T /\ M = D
  <2>1. C = T /\ M = D => N = expected
    BY <1>3, <1>7, <1>8
  <2>2. N = expected => Cardinality(C) = Cardinality(T) /\ Cardinality(M) = k
    BY <1>2, <1>5, <1>6, <1>7, <1>8
  <2>3. QED
    BY <1>5, <2>1, <2>2
<1>11. C = T <=> \A n \in E : input.events[n].action # "no command"
  <2>1. \A n \in E : input.events[n].action \in {"command", "no command", "other"}
    BY <1>1 DEF TraceIsRead
  <2>2. C = {n \in E : input.events[n].action = "command"}
    BY <1>1 DEF CommandEvents
  <2>3. QED
    BY <1>1, <2>1, <2>2
<1>12. M = D <=> \A n \in D : Steps!Matched(input.spans[n]) # {}
  BY <1>1 DEF MatchedSpans
<1>13. QED
  BY <1>1, <1>9, <1>10, <1>11, <1>12

(* node0 waits for what is replayed.                                       *)
LEMMA StepsPromise ==
  PlansAssumption /\ Steps!TraceInit => Steps!StepsAwaited
<1> SUFFICES ASSUME PlansAssumption, Steps!TraceInit
             PROVE  Steps!StepsAwaited
  OBVIOUS
<1>1. TraceIsRead
  BY TraceIs
<1> DEFINE o == Steps!Steps
           N == Cardinality(AllSteps)
           expected == Steps!ExpectedStepCount
           regular == /\ ~input.older
                      /\ \A n \in DOMAIN input.events : input.events[n].action # "no command"
                      /\ \A n \in DOMAIN input.spans : Steps!Matched(input.spans[n]) # {}
<1>2. StepList(o, N)
  BY <1>1, StepsListed
<1>3. ~input.older => N \in Nat /\ expected \in Nat /\ N <= expected /\ (N = expected <=> regular)
  BY <1>1, StepsExpected
<1> HIDE DEF o, N, expected, regular
<1>4. N \in Nat /\ DOMAIN o = 1 .. N /\ Len(o) = N
  <2>1. N \in Nat /\ o \in [1 .. N -> AllSteps]
    BY <1>2 DEF StepList
  <2>2. o \in Seq(AllSteps)
    BY <2>1
  <2>3. QED
    BY <2>1, <2>2
<1>5. \A i, j \in DOMAIN o : i < j /\ o[i].turn = o[j].turn => o[i].at <= o[j].at
  BY <1>1, <1>2, <1>4, StepsInTime
<1>6. \A n \in DOMAIN input.spans :
        Steps!Cardinality({i \in DOMAIN o : o[i].kind = "llm_wait" /\ o[i].n = n})
          = Steps!Cardinality(Steps!Matched(input.spans[n]))
  <2>1. \A S : Steps!Cardinality(S) = Cardinality(S)
    BY DEF Steps!Cardinality, Cardinality, Steps!IsFiniteSet, IsFiniteSet
  <2>2. QED
    BY <1>1, <1>2, <1>4, <2>1, CallsAreSteps
<1>7. TotalOf(Steps!PerTurn(o)) = Len(o)
  BY <1>1, <1>2, <1>4, PerTurnCounts
<1>8. regular => \A written \in 0 .. Len(o) : Steps!Complete(written) <=> written = Len(o)
  <2>1. ASSUME regular, NEW written \in 0 .. N
        PROVE  Steps!Complete(written) <=> written = N
    <3>1. N = expected /\ written \in Nat
      <4>1. ~input.older
        BY <2>1 DEF regular
      <4>2. QED
        BY <1>3, <1>4, <2>1, <4>1
    <3>2. Steps!Complete(written) <=> written >= expected
      BY DEF Steps!Complete, expected
    <3>3. QED
      BY <1>4, <2>1, <3>1, <3>2
  <2>2. QED
    BY <1>4, <2>1
<1>9. ~regular /\ ~input.older => \A written \in 0 .. Len(o) : ~Steps!Complete(written)
  <2>1. ASSUME ~regular, ~input.older, NEW written \in 0 .. N
        PROVE  ~Steps!Complete(written)
    <3>1. N # expected /\ N <= expected /\ expected \in Nat /\ written \in Nat
      BY <1>3, <1>4, <2>1
    <3>2. Steps!Complete(written) <=> written >= expected
      BY DEF Steps!Complete, expected
    <3>3. QED
      BY <1>4, <2>1, <3>1, <3>2
  <2>2. QED
    BY <1>4, <2>1
<1>10. QED
  BY <1>5, <1>6, <1>7, <1>8, <1>9 DEF Steps!StepsAwaited, TotalOf, o, regular

-----------------------------------------------------------------------------
(***************************************************************************)
(* Trajectories.                                                           *)
(***************************************************************************)

\* A trajectory as it is read.
IsFile(file) ==
  /\ file.timings \in Nat
  /\ DOMAIN file.messages = 1 .. Len(file.messages) /\ Len(file.messages) \in Nat
  /\ \A n \in DOMAIN file.messages : Files!Range(file.messages[n]) # {}

FilesAreRead ==
  /\ DOMAIN input = 1 .. Len(input) /\ Len(input) \in Nat
  /\ \A n \in DOMAIN input : IsFile(input[n])

(* A trajectory is as it is read.                                          *)
LEMMA FileIs ==
  ASSUME PlansAssumption, NEW calls \in Nat, NEW file \in Files!Trajectory(calls)
  PROVE  IsFile(file)
<1>1. MaxMessages \in Nat /\ MaxTimings \in Nat
  BY DEF PlansAssumption
<1>2. PICK message : message = UNION {[1 .. k -> Files!Calls] : k \in 1 .. calls}
  OBVIOUS
<1>3. file.timings \in 0 .. MaxTimings
      /\ file.messages \in UNION {[1 .. n -> message] : n \in 0 .. MaxMessages}
  BY <1>2 DEF Files!Trajectory
<1>4. PICK messages : messages = file.messages
  OBVIOUS
<1>5. PICK n \in 0 .. MaxMessages : messages \in [1 .. n -> message]
  BY <1>3, <1>4
<1>6. messages \in Seq(message)
  BY <1>1, <1>5
<1>7. ASSUME NEW m \in message
      PROVE  Files!Range(m) # {}
  <2>1. PICK k \in 1 .. calls : m \in [1 .. k -> Files!Calls]
    BY <1>2
  <2>2. 1 \in DOMAIN m
    BY <2>1
  <2>3. QED
    BY <2>2 DEF Files!Range
<1>8. DOMAIN messages = 1 .. Len(messages) /\ Len(messages) \in Nat
      /\ \A k \in DOMAIN messages : messages[k] \in message
  BY <1>6
<1>9. file.timings \in Nat
  BY <1>1, <1>3
<1>10. QED
  BY <1>4, <1>7, <1>8, <1>9 DEF IsFile

(* The trajectories of a directory are as they are read.                   *)
LEMMA FilesAre ==
  ASSUME PlansAssumption, Files!TrajectoryInit
  PROVE  FilesAreRead
<1>1. MaxCalls \in Nat /\ 1 \in Nat
  BY DEF PlansAssumption
<1>2. CASE \E file \in Files!Trajectory(MaxCalls) : input = <<file>>
  <2>1. PICK file : input = <<file>> /\ file \in Files!Trajectory(MaxCalls)
    BY <1>2
  <2>2. IsFile(file)
    BY <1>1, <2>1, FileIs
  <2>3. Len(input) = 1 /\ DOMAIN input = {1} /\ input[1] = file /\ 1 .. 1 = {1}
    BY <2>1
  <2>4. QED
    BY <2>2, <2>3 DEF FilesAreRead
<1>3. CASE input \in Files!Trajectory(1) \X Files!Trajectory(1)
  <2>1. PICK a, b : a = input[1] /\ b = input[2]
    OBVIOUS
  <2>2. input = <<a, b>> /\ a \in Files!Trajectory(1) /\ b \in Files!Trajectory(1)
    BY <1>3, <2>1, PairIs
  <2>3. IsFile(a) /\ IsFile(b)
    BY <1>1, <2>2, FileIs
  <2>4. Len(input) = 2 /\ DOMAIN input = {1, 2} /\ 1 .. 2 = {1, 2}
    BY <2>2
  <2>5. QED
    BY <2>1, <2>3, <2>4 DEF FilesAreRead
<1>4. QED
  BY <1>2, <1>3 DEF Files!TrajectoryInit

\* The first trajectory of each instance.
FirstFiles == {n \in DOMAIN input : \A m \in 1 .. n - 1 : input[m].id # input[n].id}

(* Each instance has one.                                                  *)
LEMMA FirstIs ==
  ASSUME FilesAreRead
  PROVE  /\ \A n \in DOMAIN input : \E m \in FirstFiles : input[m].id = input[n].id
         /\ \A m, n \in FirstFiles : input[m].id = input[n].id => m = n
         /\ \A m \in FirstFiles : Files!FirstOf(input, input[m].id) = m
<1>1. PICK L \in Nat : DOMAIN input = 1 .. L
  BY DEF FilesAreRead
<1>2. ASSUME NEW n \in 1 .. L
      PROVE  \E m \in FirstFiles : input[m].id = input[n].id
  <2>1. PICK S : S = {m \in 1 .. L : input[m].id = input[n].id}
    OBVIOUS
  <2>2. n \in S /\ \A m \in S : m \in Nat
    BY <2>1
  <2>3. PICK m \in S : \A k \in S : m <= k
    BY <2>2, LeastNumber
  <2>4. ASSUME NEW k \in 1 .. m - 1, input[k].id = input[m].id
        PROVE  FALSE
    <3>1. k \in 1 .. L /\ k < m
      BY <2>1, <2>3
    <3>2. k \in S
      BY <2>1, <2>3, <2>4, <3>1
    <3>3. m <= k /\ m \in Nat /\ k \in Nat
      BY <2>2, <2>3, <3>2
    <3>4. QED
      BY <3>1, <3>3
  <2>5. m \in FirstFiles /\ input[m].id = input[n].id
    BY <1>1, <2>1, <2>3, <2>4 DEF FirstFiles
  <2>6. QED
    BY <2>5
<1>3. ASSUME NEW m \in FirstFiles, NEW n \in FirstFiles, input[m].id = input[n].id
      PROVE  m = n
  <2>1. m \in 1 .. L /\ n \in 1 .. L
    BY <1>1 DEF FirstFiles
  <2>2. ~(m < n)
    <3>1. m < n => m \in 1 .. n - 1
      BY <2>1
    <3>2. QED
      BY <1>3, <3>1 DEF FirstFiles
  <2>3. ~(n < m)
    <3>1. n < m => n \in 1 .. m - 1
      BY <2>1
    <3>2. QED
      BY <1>3, <3>1 DEF FirstFiles
  <2>4. QED
    BY <2>1, <2>2, <2>3
<1>4. ASSUME NEW m \in FirstFiles
      PROVE  Files!FirstOf(input, input[m].id) = m
  <2>1. PICK id : id = input[m].id
    OBVIOUS
  <2>2. PICK k : k = Files!FirstOf(input, id)
    OBVIOUS
  <2>3. k \in DOMAIN input /\ input[k].id = id /\ \A j \in 1 .. k - 1 : input[j].id # id
    <3>1. m \in DOMAIN input /\ input[m].id = id /\ \A j \in 1 .. m - 1 : input[j].id # id
      BY <2>1 DEF FirstFiles
    <3>2. QED
      BY <2>2, <3>1 DEF Files!FirstOf
  <2>4. k \in FirstFiles
    BY <2>3 DEF FirstFiles
  <2>5. QED
    BY <1>3, <2>1, <2>2, <2>3, <2>4
<1>5. QED
  BY <1>1, <1>2, <1>3, <1>4

(* What the yig script finds, in order.                                    *)
FoundIs(found, order, N) ==
  /\ IsAscending(order, FirstFiles, N)
  /\ found = [k \in 1 .. N |-> [id |-> input[order[k]].id,
                                turns |-> Files!TrajectoryManifest(input[order[k]]),
                                unmatched |-> Files!Unmatched(input[order[k]])]]

(* The commands of the trajectories are listed in the order of their files.*)
LEMMA FoundInOrder ==
  ASSUME FilesAreRead
  PROVE  \E order, N : FoundIs(Files!Found(input), order, N)
<1>1. FirstFiles \in SUBSET Nat /\ IsFiniteSet(FirstFiles)
  <2>1. PICK L \in Nat : DOMAIN input = 1 .. L
    BY DEF FilesAreRead
  <2>2. IsFiniteSet(1 .. L) /\ FirstFiles \in SUBSET (1 .. L)
    BY <2>1, FS_Interval DEF FirstFiles
  <2>3. FirstFiles \in SUBSET Nat
    <3>1. \A n \in 1 .. L : n \in Nat
      OBVIOUS
    <3>2. QED
      BY <2>2, <3>1
  <2>4. QED
    BY <2>2, <2>3, FS_Subset
<1>2. PICK order, N : order = Cpu!Ascending(FirstFiles) /\ N = Cardinality(FirstFiles)
  OBVIOUS
<1>3. IsAscending(order, FirstFiles, N)
  BY <1>1, <1>2, AscendingIs
<1>4. DOMAIN order = 1 .. N
  BY <1>3 DEF IsAscending
<1>5. Files!Cardinality(FirstFiles) = N /\ Cpu!Cardinality(FirstFiles) = N
  BY <1>2 DEF Files!Cardinality, Cardinality, Files!IsFiniteSet, IsFiniteSet,
              Cpu!Cardinality, Cpu!IsFiniteSet
<1>6. order = CHOOSE o \in [1 .. N -> FirstFiles] : \A i, j \in DOMAIN o : i < j => o[i] < o[j]
  BY <1>2, <1>5 DEF Cpu!Ascending
<1>7. Files!Found(input) =
        [k \in DOMAIN order |-> [id |-> input[order[k]].id,
                                 turns |-> Files!TrajectoryManifest(input[order[k]]),
                                 unmatched |-> Files!Unmatched(input[order[k]])]]
  BY <1>5, <1>6 DEF Files!Found, FirstFiles
<1>8. FoundIs(Files!Found(input), order, N)
  BY <1>3, <1>4, <1>7 DEF FoundIs
<1>9. QED
  BY <1>8

(* From what both can read, both take the same commands.                   *)
LEMMA SameCommands ==
  ASSUME NEW file, IsFile(file), ~Files!ManifestFails(file)
  PROVE  Files!TraceWorkflow(file) = Files!TrajectoryManifest(file)
<1>1. ASSUME NEW n \in 1 .. file.timings, NEW c \in DOMAIN Files!TurnCalls(file, n)
      PROVE  Files!TurnCalls(file, n)[c] \in {"string", "object"}
               <=> Files!TurnCalls(file, n)[c] \in {"string"}
  <2>1. Files!TurnCalls(file, n)[c] \in Files!AllCalls(file)
    BY DEF Files!AllCalls, Files!Range
  <2>2. Files!AllCalls(file) \subseteq {"other tool", "string"}
    BY DEF Files!ManifestFails
  <2>3. QED
    BY <2>1, <2>2
<1>2. \A n \in 1 .. file.timings :
        {c \in DOMAIN Files!TurnCalls(file, n) : Files!TurnCalls(file, n)[c] \in {"string", "object"}}
          = {c \in DOMAIN Files!TurnCalls(file, n) : Files!TurnCalls(file, n)[c] \in {"string"}}
  BY <1>1
<1>3. QED
  BY <1>2 DEF Files!TraceWorkflow, Files!TrajectoryManifest, Files!Commands

\* The messages whose commands are not replayed.
Untimed(file) ==
  {n \in DOMAIN file.messages :
     Files!Range(file.messages[n]) # {"other tool"}
       /\ \A t \in 1 .. file.timings : \A c \in Files!TrajectoryManifest(file)[t] : c[1] # n}

(* They are among those that have no timing.                               *)
LEMMA UntimedAreCounted ==
  ASSUME NEW file, IsFile(file), ~Files!ManifestFails(file)
  PROVE  Cardinality(Untimed(file)) <= Files!Unmatched(file)
<1>1. PICK L \in Nat, T \in Nat : L = Len(file.messages) /\ T = file.timings /\ DOMAIN file.messages = 1 .. L
  BY DEF IsFile
<1>2. ASSUME NEW n \in Untimed(file), n <= T
      PROVE  FALSE
  <2>1. n \in 1 .. L /\ n \in DOMAIN file.messages /\ n \in 1 .. T
    <3>1. n \in DOMAIN file.messages
      BY DEF Untimed
    <3>2. QED
      BY <1>1, <1>2, <3>1
  <2>2. PICK calls : calls = file.messages[n] /\ Files!TurnCalls(file, n) = calls
    BY <2>1 DEF Files!TurnCalls
  <2>3. Files!Range(calls) \subseteq {"other tool", "string"}
    <3>1. Files!Range(calls) \subseteq Files!AllCalls(file)
      BY <1>1, <2>1, <2>2 DEF Files!AllCalls
    <3>2. QED
      BY <3>1 DEF Files!ManifestFails
  <2>4. Files!Range(calls) # {} /\ Files!Range(calls) # {"other tool"}
    BY <2>1, <2>2 DEF IsFile, Untimed
  <2>5. PICK k \in DOMAIN calls : calls[k] = "string"
    BY <2>3, <2>4 DEF Files!Range
  <2>6. <<n, k>> \in Files!TrajectoryManifest(file)[n]
    <3>1. Files!TrajectoryManifest(file)[n] =
            {<<n, c>> : c \in {d \in DOMAIN calls : calls[d] \in {"string"}}}
      BY <1>1, <2>1, <2>2 DEF Files!TrajectoryManifest, Files!Commands
    <3>2. QED
      BY <2>5, <3>1
  <2>7. \A c \in Files!TrajectoryManifest(file)[n] : c[1] # n
    BY <1>1, <2>1 DEF Untimed
  <2>8. <<n, k>>[1] = n
    OBVIOUS
  <2>9. QED
    BY <2>6, <2>7, <2>8
<1>3. Untimed(file) \in SUBSET (T + 1 .. L)
  <2>1. \A n \in 1 .. L : n \in T + 1 .. L \/ n <= T
    OBVIOUS
  <2>2. \A n \in Untimed(file) : n \in 1 .. L
    BY <1>1 DEF Untimed
  <2>3. QED
    BY <1>2, <2>1, <2>2
<1>4. IsFiniteSet(T + 1 .. L) /\ Cardinality(T + 1 .. L) = IF T + 1 > L THEN 0 ELSE L - (T + 1) + 1
  BY FS_Interval
<1>5. Cardinality(Untimed(file)) <= Cardinality(T + 1 .. L)
  BY <1>3, <1>4, FS_Subset
<1>6. Files!Unmatched(file) = IF L > T THEN L - T ELSE 0
  BY <1>1 DEF Files!Unmatched
<1>7. Cardinality(T + 1 .. L) = Files!Unmatched(file)
  BY <1>4, <1>6
<1>8. QED
  BY <1>5, <1>7

(* The two readers agree.                                                  *)
LEMMA ReadersPromise ==
  PlansAssumption /\ Files!TrajectoryInit => Files!ReadersAgree
<1> SUFFICES ASSUME PlansAssumption, Files!TrajectoryInit
             PROVE  Files!ReadersAgree
  OBVIOUS
<1>1. FilesAreRead
  BY FilesAre
<1> DEFINE serverFails == \E n \in DOMAIN input : Files!WorkflowFails(input[n])
           yigFails == \E n \in DOMAIN input : Files!ManifestFails(input[n])
           workflows == Files!LoadServerWorkflows(input)
           found == Files!Found(input)
<1>2. PICK order, N : FoundIs(found, order, N)
  BY <1>1, FoundInOrder
<1>3. /\ N \in Nat /\ order \in [1 .. N -> FirstFiles]
      /\ \A i, j \in 1 .. N : i < j => order[i] < order[j]
      /\ \A x \in FirstFiles : \E i \in 1 .. N : order[i] = x
  BY <1>2 DEF FoundIs, IsAscending
<1> DEFINE ids == {input[n].id : n \in DOMAIN input}
<1>4. DOMAIN workflows = ids /\ \A id \in ids : workflows[id] = Files!TraceWorkflow(input[Files!FirstOf(input, id)])
  BY DEF Files!LoadServerWorkflows
<1> HIDE DEF found, workflows, serverFails, yigFails
<1>5. DOMAIN found = 1 .. N /\ Len(found) = N
  <2>1. found \in Seq({found[k] : k \in 1 .. N}) /\ DOMAIN found = 1 .. N
    BY <1>2, <1>3 DEF FoundIs
  <2>2. QED
    BY <1>3, <2>1
<1>6. ASSUME NEW k \in 1 .. N
      PROVE  /\ order[k] \in FirstFiles /\ order[k] \in DOMAIN input /\ IsFile(input[order[k]])
             /\ found[k].id = input[order[k]].id /\ found[k].id \in ids
             /\ found[k].turns = Files!TrajectoryManifest(input[order[k]])
             /\ found[k].unmatched = Files!Unmatched(input[order[k]])
             /\ Files!FirstOf(input, found[k].id) = order[k]
  <2>1. order[k] \in FirstFiles /\ order[k] \in DOMAIN input
    BY <1>3 DEF FirstFiles
  <2>2. /\ found[k].id = input[order[k]].id
        /\ found[k].turns = Files!TrajectoryManifest(input[order[k]])
        /\ found[k].unmatched = Files!Unmatched(input[order[k]])
    BY <1>2 DEF FoundIs
  <2>3. Files!FirstOf(input, found[k].id) = order[k]
    BY <1>1, <2>1, <2>2, FirstIs
  <2>4. QED
    BY <1>1, <2>1, <2>2, <2>3 DEF FilesAreRead
<1>7. PICK f : f = [k \in 1 .. N |-> found[k].id]
  OBVIOUS
<1>8. f \in [1 .. N -> ids] /\ \A k \in 1 .. N : f[k] = found[k].id
  BY <1>6, <1>7
<1>9. \A id \in ids : \E k \in 1 .. N : f[k] = id
  <2>1. ASSUME NEW n \in DOMAIN input
        PROVE  \E k \in 1 .. N : f[k] = input[n].id
    <3>1. PICK m \in FirstFiles : input[m].id = input[n].id
      BY <1>1, FirstIs
    <3>2. PICK k \in 1 .. N : order[k] = m
      BY <1>3
    <3>3. QED
      BY <1>6, <1>8, <3>1, <3>2
  <2>2. QED
    BY <2>1
<1>10. \A i, j \in 1 .. N : f[i] = f[j] => i = j
  <2>1. ASSUME NEW i \in 1 .. N, NEW j \in 1 .. N, f[i] = f[j]
        PROVE  i = j
    <3>1. order[i] = order[j]
      BY <1>6, <1>8, <2>1
    <3>2. \A n \in FirstFiles : n \in Nat
      BY <1>1 DEF FirstFiles, FilesAreRead
    <3>3. ~(i < j) /\ ~(j < i)
      <4>1. order[i] \in Nat /\ order[j] \in Nat
        BY <1>6, <3>2
      <4>2. ~(order[i] < order[j]) /\ ~(order[j] < order[i])
        BY <3>1, <4>1
      <4>3. QED
        BY <1>3, <4>2
    <3>4. QED
      BY <1>3, <3>3
  <2>2. QED
    BY <2>1
<1> HIDE DEF ids
<1>11. {found[n].id : n \in DOMAIN found} = DOMAIN workflows
  BY <1>4, <1>5, <1>8, <1>9
<1>12. Len(found) = Files!Cardinality(DOMAIN workflows)
  <2>1. IsFiniteSet(1 .. N) /\ Cardinality(1 .. N) = N
    BY <1>3, FS_Interval
  <2>2. Cardinality(ids) = N
    BY <1>8, <1>9, <1>10, <2>1, SameSize
  <2>3. Files!Cardinality(ids) = Cardinality(ids)
    BY DEF Files!Cardinality, Cardinality, Files!IsFiniteSet, IsFiniteSet
  <2>4. QED
    BY <1>4, <1>5, <2>2, <2>3
<1>13. ~yigFails => \A n \in DOMAIN found : workflows[found[n].id] = found[n].turns
  <2>1. ASSUME ~yigFails, NEW n \in 1 .. N
        PROVE  workflows[found[n].id] = found[n].turns
    <3>1. ~Files!ManifestFails(input[order[n]])
      BY <1>6, <2>1 DEF yigFails
    <3>2. Files!TraceWorkflow(input[order[n]]) = Files!TrajectoryManifest(input[order[n]])
      BY <1>6, <3>1, SameCommands
    <3>3. workflows[found[n].id] = Files!TraceWorkflow(input[order[n]])
      BY <1>4, <1>6
    <3>4. QED
      BY <1>6, <3>2, <3>3
  <2>2. QED
    BY <1>5, <2>1
<1>14. serverFails /\ ~yigFails => \E n \in DOMAIN input : input[n].timings = 0
  <2>1. \A file : Files!WorkflowFails(file) => Files!ManifestFails(file) \/ file.timings = 0
    BY DEF Files!WorkflowFails, Files!ManifestFails
  <2>2. QED
    BY <2>1 DEF serverFails, yigFails
<1>15. ~yigFails => \A n \in DOMAIN found :
         Files!Cardinality(Untimed(input[Files!FirstOf(input, found[n].id)])) <= found[n].unmatched
  <2>1. ASSUME ~yigFails, NEW n \in 1 .. N
        PROVE  Files!Cardinality(Untimed(input[Files!FirstOf(input, found[n].id)])) <= found[n].unmatched
    <3>1. ~Files!ManifestFails(input[order[n]])
      BY <1>6, <2>1 DEF yigFails
    <3>2. Cardinality(Untimed(input[order[n]])) <= Files!Unmatched(input[order[n]])
      BY <1>6, <3>1, UntimedAreCounted
    <3>3. \A S : Files!Cardinality(S) = Cardinality(S)
      BY DEF Files!Cardinality, Cardinality, Files!IsFiniteSet, IsFiniteSet
    <3>4. QED
      BY <1>6, <3>2, <3>3
  <2>2. QED
    BY <1>5, <2>1
<1>16. QED
  BY <1>11, <1>12, <1>13, <1>14, <1>15 DEF Files!ReadersAgree, Untimed, found, workflows, serverFails, yigFails

-----------------------------------------------------------------------------
(***************************************************************************)
(* CriticalPath.                                                           *)
(***************************************************************************)

(* A span's times.                                                         *)
LEMMA SpanIs ==
  ASSUME NEW s \in Path!Span
  PROVE  /\ s.from \in Nat /\ s.to \in Nat /\ s.from <= s.to
         /\ Path!Duration(s) = s.to - s.from /\ Path!Duration(s) \in Nat
<1>1. s.from \in 0 .. PathTime /\ s.to \in 0 .. PathTime /\ s.from <= s.to
  BY DEF Path!Span
<1>2. s.from \in Nat /\ s.to \in Nat
  BY <1>1, PlansAssumption
<1>3. QED
  BY <1>1, <1>2 DEF Path!Duration

(* max takes one of the greatest.                                          *)
LEMMA ArgMaxIs ==
  ASSUME NEW N \in Nat, NEW P \in SUBSET (1 .. N), P # {}, NEW v, \A j \in P : v[j] \in Nat
  PROVE  /\ Path!ArgMax(P, v) \in P
         /\ \A j \in P : v[j] <= v[Path!ArgMax(P, v)]
<1>1. IsFiniteSet(P)
  <2>1. IsFiniteSet(1 .. N)
    BY FS_Interval
  <2>2. QED
    BY <2>1, FS_Subset
<1>2. PICK x \in P : \A y \in P : v[y] <= v[x]
  BY <1>1, GreatestExists
<1> DEFINE M == {i \in P : v[i] = v[x]}
<1>3. PICK m \in M : \A i \in M : m <= i
  <2>1. M \in SUBSET Nat
    <3>1. P \in SUBSET Nat /\ M \in SUBSET P
      OBVIOUS
    <3> HIDE DEF M
    <3>2. QED
      BY <3>1
  <2>2. x \in M
    OBVIOUS
  <2> HIDE DEF M
  <2>3. QED
    BY <2>1, <2>2, LeastNumber
<1>4. (\A j \in P : v[j] <= v[m]) /\ \A j \in P : v[j] = v[m] => m <= j
  BY <1>2, <1>3
<1>5. QED
  BY <1>3, <1>4 DEF Path!ArgMax

(* Who comes before a candidate is one of those listed before it.          *)
LEMMA PriorIs ==
  ASSUME NEW c, NEW n \in Nat
  PROVE  Path!Prior(c, n) \in SUBSET (1 .. n - 1)
  BY DEF Path!Prior

\* The best of Best, and what it makes of the values before it.
BestOf(best, c) ==
  best = [n \in DOMAIN c |->
            Path!Duration(c[n])
              + IF Path!Prior(c, n) = {} THEN 0
                ELSE [j \in Path!Prior(c, n) |-> best[j]]
                       [Path!ArgMax(Path!Prior(c, n), [j \in Path!Prior(c, n) |-> best[j]])]]

BestAfter(c, b) ==
  LET n == Len(b) + 1
  IN IF n \in DOMAIN c
     THEN Path!Duration(c[n])
            + IF Path!Prior(c, n) = {} THEN 0
              ELSE [j \in Path!Prior(c, n) |-> b[j]]
                     [Path!ArgMax(Path!Prior(c, n), [j \in Path!Prior(c, n) |-> b[j]])]
     ELSE 0

(* There are such values.                                                  *)
LEMMA BestExists ==
  ASSUME NEW c \in Seq(Path!Span)
  PROVE  \E best : BestOf(best, c)
<1> DEFINE step == [b \in Seq(Nat) |-> BestAfter(c, b)]
<1>1. ASSUME NEW b \in Seq(Nat)
      PROVE  BestAfter(c, b) \in Nat
  <2>1. PICK n \in Nat : n = Len(b) + 1
    OBVIOUS
  <2>2. CASE n \in DOMAIN c
    <3>1. Path!Duration(c[n]) \in Nat
      BY <2>2, SpanIs
    <3>2. CASE Path!Prior(c, n) = {}
      BY <2>1, <2>2, <3>1, <3>2 DEF BestAfter
    <3>3. CASE Path!Prior(c, n) # {}
      <4>1. PICK before : before = [j \in Path!Prior(c, n) |-> b[j]]
        OBVIOUS
      <4>2. \A j \in Path!Prior(c, n) : j \in 1 .. Len(b) /\ before[j] = b[j] /\ before[j] \in Nat
        <5>1. \A j \in Path!Prior(c, n) : j \in 1 .. Len(b)
          BY <2>1, PriorIs
        <5>2. QED
          BY <4>1, <5>1
      <4>3. Path!Prior(c, n) \in SUBSET (1 .. n - 1) /\ n - 1 \in Nat
        BY <2>1, PriorIs
      <4>4. Path!ArgMax(Path!Prior(c, n), before) \in Path!Prior(c, n)
        BY <3>3, <4>2, <4>3, ArgMaxIs
      <4>5. PICK m \in Nat : m = before[Path!ArgMax(Path!Prior(c, n), before)]
        BY <4>2, <4>4
      <4>6. BestAfter(c, b) = Path!Duration(c[n]) + m
        BY <2>1, <2>2, <3>3, <4>1, <4>5 DEF BestAfter
      <4>7. QED
        BY <3>1, <4>6
    <3>4. QED
      BY <3>2, <3>3
  <2>3. QED
    BY <2>1, <2>2 DEF BestAfter
<1>2. step \in [Seq(Nat) -> Nat] /\ \A b \in Seq(Nat) : step[b] = BestAfter(c, b)
  BY <1>1
<1> HIDE DEF step
<1>3. Len(c) \in Nat /\ DOMAIN c = 1 .. Len(c)
  OBVIOUS
<1>4. PICK best \in [1 .. Len(c) -> Nat] : Continues(best, step, Len(c))
  BY <1>2, <1>3, RecursionExists
<1>5. ASSUME NEW n \in DOMAIN c
      PROVE  best[n] = Path!Duration(c[n])
               + IF Path!Prior(c, n) = {} THEN 0
                 ELSE [j \in Path!Prior(c, n) |-> best[j]]
                        [Path!ArgMax(Path!Prior(c, n), [j \in Path!Prior(c, n) |-> best[j]])]
  <2>1. PICK b : b = [j \in 1 .. n - 1 |-> best[j]]
    OBVIOUS
  <2>2. n \in Nat /\ n - 1 \in Nat /\ \A j \in 1 .. n - 1 : j \in 1 .. Len(c) /\ best[j] \in Nat
    BY <1>3
  <2>3. b \in Seq(Nat) /\ Len(b) + 1 = n
    <3>1. b \in [1 .. n - 1 -> Nat]
      BY <2>1, <2>2
    <3>2. PICK k \in Nat : k = n - 1 /\ k + 1 = n
      BY <2>2
    <3>3. b \in Seq(Nat) /\ Len(b) = k
      BY <3>1, <3>2
    <3>4. QED
      BY <3>2, <3>3
  <2>4. best[n] = BestAfter(c, b)
    BY <1>2, <1>3, <1>4, <2>1, <2>3 DEF Continues
  <2>5. [j \in Path!Prior(c, n) |-> b[j]] = [j \in Path!Prior(c, n) |-> best[j]]
    BY <2>1, <2>2, PriorIs
  <2>6. QED
    BY <2>3, <2>4, <2>5 DEF BestAfter
<1>6. BestOf(best, c)
  BY <1>3, <1>4, <1>5 DEF BestOf
<1>7. QED
  BY <1>6

\* The length of a longest sequence that ends with the n-th candidate.
IsBestAt(best, c, n) ==
  /\ best[n] \in Nat
  /\ Path!Prior(c, n) = {} => best[n] = Path!Duration(c[n])
  /\ Path!Prior(c, n) # {} =>
       /\ Path!ArgMax(Path!Prior(c, n), best) \in Path!Prior(c, n)
       /\ best[n] = Path!Duration(c[n]) + best[Path!ArgMax(Path!Prior(c, n), best)]
       /\ \A j \in Path!Prior(c, n) : best[j] <= best[Path!ArgMax(Path!Prior(c, n), best)]

(* Best is that at each candidate.                                         *)
LEMMA BestIs ==
  ASSUME NEW c \in Seq(Path!Span), NEW best, BestOf(best, c)
  PROVE  \A n \in DOMAIN c : IsBestAt(best, c, n)
<1> DEFINE G == {n \in Nat : n \in DOMAIN c => IsBestAt(best, c, n)}
<1>1. Len(c) \in Nat /\ DOMAIN c = 1 .. Len(c)
  OBVIOUS
<1>2. ASSUME NEW n \in Nat, \A j \in Nat : j < n => j \in G
      PROVE  n \in G
  <2>1. SUFFICES ASSUME n \in DOMAIN c
                 PROVE  IsBestAt(best, c, n)
    OBVIOUS
  <2>2. PICK P : P = Path!Prior(c, n)
    OBVIOUS
  <2>3. P \in SUBSET (1 .. n - 1) /\ n - 1 \in Nat
    BY <1>1, <2>1, <2>2, PriorIs
  <2>4. \A j \in P : j \in Nat /\ j < n /\ j \in DOMAIN c
    BY <1>1, <2>1, <2>3
  <2>5. \A j \in P : best[j] \in Nat
    BY <1>2, <2>4 DEF IsBestAt
  <2>6. Path!Duration(c[n]) \in Nat
    BY <2>1, SpanIs
  <2>7. PICK before : before = [j \in P |-> best[j]]
    OBVIOUS
  <2>8. best[n] = Path!Duration(c[n]) + IF P = {} THEN 0 ELSE before[Path!ArgMax(P, before)]
    BY <2>1, <2>2, <2>7 DEF BestOf
  <2>9. CASE P = {}
    BY <2>2, <2>6, <2>8, <2>9 DEF IsBestAt
  <2>10. CASE P # {}
    <3>1. \A j \in P : before[j] = best[j]
      BY <2>7
    <3>2. Path!ArgMax(P, before) = Path!ArgMax(P, best)
      <4>1. \A i \in P : (/\ \A j \in P : before[j] <= before[i]
                          /\ \A j \in P : before[j] = before[i] => i <= j)
                     <=> (/\ \A j \in P : best[j] <= best[i]
                          /\ \A j \in P : best[j] = best[i] => i <= j)
        BY <3>1
      <4>2. QED
        BY <4>1 DEF Path!ArgMax
    <3>3. /\ Path!ArgMax(P, best) \in P
          /\ \A j \in P : best[j] <= best[Path!ArgMax(P, best)]
      BY <2>3, <2>5, <2>10, ArgMaxIs
    <3>4. best[n] = Path!Duration(c[n]) + best[Path!ArgMax(P, best)]
      BY <2>8, <2>10, <3>1, <3>2, <3>3
    <3>5. best[n] \in Nat
      BY <2>5, <2>6, <3>3, <3>4
    <3>6. QED
      BY <2>2, <2>10, <3>3, <3>4, <3>5 DEF IsBestAt
  <2>11. QED
    BY <2>9, <2>10
<1>3. Nat \subseteq G
  <2> HIDE DEF G
  <2>1. QED
    BY <1>2, AllFromBelow
<1>4. QED
  BY <1>1, <1>3

-----------------------------------------------------------------------------
\* How long the spans of a path take together.
Lengths(p) == [k \in DOMAIN p |-> Path!Duration(p[k])]
LengthOf(p) == Sums(Lengths(p), DOMAIN p)[DOMAIN p]

\* A fold of the durations from the left.
TotalFold(it, p) ==
  it = [s \in SUBSET (DOMAIN p) |->
          IF s = {} THEN 0
          ELSE it[s \ {Path!Max(s)}] + Path!Duration(p[Path!Max(s)])]

(* Total is such a fold.                                                   *)
LEMMA TotalIsFold ==
  ASSUME NEW p
  PROVE  Path!Total(p) = (CHOOSE it : TotalFold(it, p))[DOMAIN p]
  BY DEF Path!Total, Path!FoldLeft, Path!MapThenFoldSet, TotalFold

(* So it is the sum.                                                       *)
LEMMA TotalIsLength ==
  ASSUME NEW p \in Seq(Path!Span)
  PROVE  Path!Total(p) = LengthOf(p)
<1> DEFINE D == DOMAIN p
           d == Lengths(p)
           sums == [s \in SUBSET D |-> Sums(d, D)[s]]
<1>1. D = 1 .. Len(p) /\ Len(p) \in Nat /\ IsFiniteSet(D)
  BY FS_Interval
<1>2. d \in [D -> Nat] /\ \A k \in D : d[k] = Path!Duration(p[k])
  BY SpanIs DEF Lengths
<1>3. \A s \in SUBSET D : s # {} => Path!Max(s) \in s
  BY <1>1, LastChosen DEF Path!Max
<1> HIDE DEF D, d
<1>4. ASSUME NEW s \in SUBSET D
      PROVE  sums[s] = IF s = {} THEN 0
                       ELSE sums[s \ {Path!Max(s)}] + Path!Duration(p[Path!Max(s)])
  <2>1. CASE s = {}
    BY <1>1, <1>2, <2>1, SumsAdd
  <2>2. CASE s # {}
    <3>1. PICK z \in s : z = Path!Max(s)
      BY <1>3, <2>2
    <3>2. IsAdded(D, d, s, z)
      BY <1>1, <1>2, SummandIsAdded DEF Summand
    <3>3. sums[s] = Sums(d, D)[s] /\ sums[s \ {z}] = Sums(d, D)[s \ {z}]
      OBVIOUS
    <3> HIDE DEF sums
    <3>4. d[z] = Path!Duration(p[z])
      BY <1>2
    <3>5. QED
      BY <2>2, <3>1, <3>2, <3>3, <3>4 DEF IsAdded
  <2>3. QED
    BY <2>1, <2>2
<1>5. TotalFold(sums, p)
  BY <1>4 DEF TotalFold, D
<1>6. PICK it : it = (CHOOSE h : TotalFold(h, p)) /\ TotalFold(it, p)
  BY <1>5
<1>7. AddsUp(it, d, D)
  <2>1. it[{}] = 0
    <3>1. {} \in SUBSET (DOMAIN p)
      OBVIOUS
    <3>2. QED
      BY <1>6, <3>1 DEF TotalFold
  <2>2. \A s \in SUBSET D : it[s] \in Nat
    <3> DEFINE G == {s \in SUBSET D : it[s] \in Nat}
    <3>1. {} \in G
      BY <2>1
    <3>2. ASSUME NEW s \in SUBSET D, s # {}, \A x \in s : s \ {x} \in G
          PROVE  s \in G
      <4>1. PICK z \in s : z = Path!Max(s)
        BY <1>3, <3>2
      <4>2. it[s] = it[s \ {z}] + Path!Duration(p[z])
        BY <1>6, <3>2, <4>1 DEF TotalFold, D
      <4>3. it[s \ {z}] \in Nat /\ Path!Duration(p[z]) \in Nat
        BY <1>2, <3>2
      <4>4. QED
        BY <4>2, <4>3
    <3>3. G = SUBSET D
      <4> HIDE DEF G
      <4>1. G \in SUBSET SUBSET D
        BY DEF G
      <4>2. QED
        BY <1>1, <3>1, <3>2, <4>1, AllParts
    <3>4. QED
      BY <3>3
  <2>3. ASSUME NEW s \in SUBSET D, s # {}
        PROVE  \E z \in s : it[s] = d[z] + it[s \ {z}]
    <3>1. PICK z \in s : z = Path!Max(s)
      BY <1>3, <2>3
    <3>2. it[s] = it[s \ {z}] + Path!Duration(p[z])
      BY <1>6, <2>3, <3>1 DEF TotalFold, D
    <3>3. d[z] = Path!Duration(p[z]) /\ d[z] \in Nat
      BY <1>2
    <3>4. PICK m \in Nat : m = it[s \ {z}]
      BY <2>2
    <3>5. it[s] = d[z] + m
      BY <3>2, <3>3, <3>4
    <3>6. QED
      BY <3>4, <3>5
  <2>4. QED
    BY <2>1, <2>3 DEF AddsUp
<1>8. it[D] = Sums(d, D)[D]
  BY <1>1, <1>2, <1>7, SumsUnique
<1>9. QED
  BY <1>6, <1>8, TotalIsFold DEF D, d, LengthOf

(* A path with one more span takes that much longer.                       *)
LEMMA LengthGrows ==
  ASSUME NEW p \in Seq(Path!Span), NEW s \in Path!Span
  PROVE  LengthOf(p) \in Nat /\ LengthOf(Append(p, s)) = LengthOf(p) + Path!Duration(s)
<1>1. PICK q \in Seq(Path!Span) : q = Append(p, s) /\ Len(q) = Len(p) + 1 /\ q[Len(p) + 1] = s
                                 /\ \A k \in 1 .. Len(p) : q[k] = p[k]
  <2>1. /\ Append(p, s) \in Seq(Path!Span) /\ Len(Append(p, s)) = Len(p) + 1
        /\ Append(p, s)[Len(p) + 1] = s
    OBVIOUS
  <2>2. \A k \in 1 .. Len(p) : Append(p, s)[k] = p[k]
    OBVIOUS
  <2>3. QED
    BY <2>1, <2>2
<1>2. PICK D, E, z : D = DOMAIN p /\ E = DOMAIN q /\ z = Len(p) + 1
  OBVIOUS
<1>3. D = 1 .. Len(p) /\ E = 1 .. Len(p) + 1 /\ Len(p) \in Nat
  BY <1>1, <1>2
<1>4. IsFiniteSet(D) /\ IsFiniteSet(E) /\ z \in E /\ E \ {z} = D /\ D \in SUBSET E
  <2>1. IsFiniteSet(1 .. Len(p)) /\ IsFiniteSet(1 .. Len(p) + 1)
    BY <1>3, FS_Interval
  <2>2. QED
    BY <1>2, <1>3, <2>1
<1>5. PICK d, e : d = Lengths(p) /\ e = Lengths(q)
  OBVIOUS
<1>6. d \in [D -> Nat] /\ e \in [E -> Nat] /\ e[z] = Path!Duration(s) /\ \A k \in D : d[k] = e[k]
  BY <1>1, <1>2, <1>3, <1>5, SpanIs DEF Lengths
<1>7. IsAdded(E, e, E, z)
  BY <1>4, <1>6, SummandIsAdded DEF Summand
<1>8. Sums(d, D)[D] = Sums(e, E)[D]
  BY <1>4, <1>6, SumsOfPart
<1>9. Sums(d, D)[D] \in Nat
  BY <1>4, <1>6, SumsAreNat
<1>10. Sums(e, E)[E] = Sums(e, E)[D] + e[z]
  BY <1>4, <1>7 DEF IsAdded
<1>11. LengthOf(p) = Sums(d, D)[D] /\ LengthOf(q) = Sums(e, E)[E]
  BY <1>2, <1>5 DEF LengthOf
<1>12. QED
  BY <1>1, <1>6, <1>8, <1>9, <1>10, <1>11

(* No span takes no time.                                                  *)
LEMMA NothingTakesNothing == LengthOf(<<>>) = 0
<1>1. DOMAIN <<>> = {} /\ Lengths(<<>>) \in [{} -> Nat]
  BY DEF Lengths
<1>2. IsFiniteSet({}) /\ {} \in SUBSET {}
  BY FS_EmptySet
<1>3. \A d \in [{} -> Nat] : Sums(d, {})[{}] = 0
  BY <1>2, SumsAdd
<1>4. QED
  BY <1>1, <1>3 DEF LengthOf

\* The paths of Walk, and what it makes of those before.
WalkOf(from, c, best) ==
  from = [n \in DOMAIN c |->
            (IF Path!Prior(c, n) = {} THEN <<>> ELSE from[Path!ArgMax(Path!Prior(c, n), best)])
              \o <<c[n]>>]

WalkAfter(c, best, w) ==
  LET n == Len(w) + 1
  IN IF n \in DOMAIN c
     THEN (IF Path!Prior(c, n) = {} THEN <<>> ELSE w[Path!ArgMax(Path!Prior(c, n), best)])
            \o <<c[n]>>
     ELSE <<>>

(* There are such paths.                                                   *)
LEMMA WalkExists ==
  ASSUME NEW c \in Seq(Path!Span), NEW best, \A n \in DOMAIN c : IsBestAt(best, c, n)
  PROVE  \E from : WalkOf(from, c, best)
<1> DEFINE S == Seq(Path!Span)
           step == [w \in Seq(S) |-> WalkAfter(c, best, w)]
<1>1. ASSUME NEW w \in Seq(S)
      PROVE  WalkAfter(c, best, w) \in S
  <2>1. PICK n \in Nat : n = Len(w) + 1
    OBVIOUS
  <2>2. CASE n \in DOMAIN c
    <3>1. PICK before : before = IF Path!Prior(c, n) = {} THEN <<>>
                                 ELSE w[Path!ArgMax(Path!Prior(c, n), best)]
      OBVIOUS
    <3>2. before \in S
      <4>1. CASE Path!Prior(c, n) = {}
        BY <3>1, <4>1
      <4>2. CASE Path!Prior(c, n) # {}
        <5>1. Path!ArgMax(Path!Prior(c, n), best) \in 1 .. n - 1
          BY <2>2, <4>2, PriorIs DEF IsBestAt
        <5>2. \A j \in 1 .. n - 1 : j \in 1 .. Len(w) /\ w[j] \in S
          BY <2>1
        <5>3. QED
          BY <3>1, <4>2, <5>1, <5>2
      <4>3. QED
        BY <4>1, <4>2
    <3>3. c[n] \in Path!Span
      BY <2>2
    <3>4. before \o <<c[n]>> \in S
      BY <3>2, <3>3
    <3>5. QED
      BY <2>1, <2>2, <3>1, <3>4 DEF WalkAfter
  <2>3. CASE n \notin DOMAIN c
    BY <2>1, <2>3 DEF WalkAfter
  <2>4. QED
    BY <2>2, <2>3
<1>2. step \in [Seq(S) -> S] /\ \A w \in Seq(S) : step[w] = WalkAfter(c, best, w)
  BY <1>1
<1> HIDE DEF step, S
<1>3. Len(c) \in Nat /\ DOMAIN c = 1 .. Len(c)
  OBVIOUS
<1>4. PICK from \in [1 .. Len(c) -> S] : Continues(from, step, Len(c))
  BY <1>2, <1>3, RecursionExists
<1>5. ASSUME NEW n \in DOMAIN c
      PROVE  from[n] = (IF Path!Prior(c, n) = {} THEN <<>>
                        ELSE from[Path!ArgMax(Path!Prior(c, n), best)]) \o <<c[n]>>
  <2>1. PICK w : w = [j \in 1 .. n - 1 |-> from[j]]
    OBVIOUS
  <2>2. n \in Nat /\ n - 1 \in Nat /\ \A j \in 1 .. n - 1 : j \in 1 .. Len(c) /\ from[j] \in S
    BY <1>3
  <2>3. w \in Seq(S) /\ Len(w) + 1 = n
    <3>1. w \in [1 .. n - 1 -> S] /\ DOMAIN w = 1 .. n - 1
      BY <2>1, <2>2
    <3>2. Len(w) = n - 1
      BY <2>2, <3>1
    <3>3. w \in Seq(S)
      <4>1. PICK m \in Nat : m = n - 1
        BY <2>2
      <4>2. w \in [1 .. m -> S]
        BY <3>1, <4>1
      <4>3. QED
        BY <4>2, SeqDef
    <3>4. QED
      BY <2>2, <3>2, <3>3
  <2>4. from[n] = WalkAfter(c, best, w)
    BY <1>2, <1>3, <1>4, <2>1, <2>3 DEF Continues
  <2>5. Path!Prior(c, n) # {} =>
          w[Path!ArgMax(Path!Prior(c, n), best)] = from[Path!ArgMax(Path!Prior(c, n), best)]
    <3>1. Path!Prior(c, n) # {} => Path!ArgMax(Path!Prior(c, n), best) \in 1 .. n - 1
      BY PriorIs DEF IsBestAt
    <3>2. QED
      BY <2>1, <3>1
  <2>6. QED
    BY <2>3, <2>4, <2>5 DEF WalkAfter
<1>6. WalkOf(from, c, best)
  BY <1>3, <1>4, <1>5 DEF WalkOf
<1>7. QED
  BY <1>6

\* p is a sequence that does not overlap, ends with the n-th candidate and is
\* as long as its best.
IsPathTo(p, c, best, n) ==
  /\ p \in Seq(Path!Span) /\ Len(p) > 0 /\ p[Len(p)] = c[n]
  /\ \A k \in 1 .. Len(p) - 1 : p[k].to <= p[k + 1].from
  /\ \A k \in 1 .. Len(p) : \E j \in DOMAIN c : p[k] = c[j]
  /\ LengthOf(p) = best[n]
  /\ LengthOf(p) <= p[Len(p)].to - p[1].from

(* Such is each path of Walk.                                              *)
LEMMA WalkIs ==
  ASSUME NEW c \in Seq(Path!Span), NEW best, \A n \in DOMAIN c : IsBestAt(best, c, n),
         NEW from, WalkOf(from, c, best)
  PROVE  \A n \in DOMAIN c : IsPathTo(from[n], c, best, n)
<1> DEFINE G == {n \in Nat : n \in DOMAIN c => IsPathTo(from[n], c, best, n)}
<1>1. Len(c) \in Nat /\ DOMAIN c = 1 .. Len(c)
  OBVIOUS
<1>2. ASSUME NEW n \in Nat, \A j \in Nat : j < n => j \in G
      PROVE  n \in G
  <2>1. SUFFICES ASSUME n \in DOMAIN c
                 PROVE  IsPathTo(from[n], c, best, n)
    OBVIOUS
  <2>2. PICK s \in Path!Span : s = c[n] /\ n \in DOMAIN c
    BY <2>1
  <2>3. s.from \in Nat /\ s.to \in Nat /\ Path!Duration(s) = s.to - s.from /\ Path!Duration(s) \in Nat
    BY SpanIs
  <2>4. IsBestAt(best, c, n)
    BY <2>2
  <2>5. CASE Path!Prior(c, n) = {}
    <3>1. from[n] = <<>> \o <<s>>
      BY <2>2, <2>5 DEF WalkOf
    <3>2. PICK p : p = Append(<<>>, s)
      OBVIOUS
    <3>3. p \in Seq(Path!Span) /\ Len(p) = 1 /\ p[1] = s /\ p = from[n]
      BY <3>1, <3>2
    <3>4. LengthOf(p) = Path!Duration(s)
      <4>1. <<>> \in Seq(Path!Span)
        OBVIOUS
      <4>2. LengthOf(Append(<<>>, s)) = LengthOf(<<>>) + Path!Duration(s)
        BY <4>1, LengthGrows
      <4>3. QED
        BY <2>3, <3>2, <4>2, NothingTakesNothing
    <3>5. best[n] = Path!Duration(s)
      BY <2>2, <2>4, <2>5 DEF IsBestAt
    <3>6. IsPathTo(p, c, best, n)
      BY <2>2, <2>3, <3>3, <3>4, <3>5 DEF IsPathTo
    <3>7. QED
      BY <3>3, <3>6
  <2>6. CASE Path!Prior(c, n) # {}
    <3>1. PICK m : m = Path!ArgMax(Path!Prior(c, n), best)
      OBVIOUS
    <3>2. m \in Path!Prior(c, n) /\ best[n] = Path!Duration(s) + best[m]
      BY <2>2, <2>4, <2>6, <3>1 DEF IsBestAt
    <3>3. m \in 1 .. n - 1 /\ c[m].to <= s.from
      BY <2>2, <3>2 DEF Path!Prior
    <3>4. m \in Nat /\ m < n /\ m \in DOMAIN c
      BY <1>1, <2>2, <3>3
    <3>5. PICK q : q = from[m] /\ IsPathTo(q, c, best, m)
      BY <1>2, <3>4
    <3>6. from[n] = q \o <<s>>
      BY <2>2, <2>6, <3>1, <3>5 DEF WalkOf
    <3>7. PICK p : p = Append(q, s)
      OBVIOUS
    <3>8. q \in Seq(Path!Span) /\ Len(q) \in Nat /\ Len(q) > 0 /\ q[Len(q)] = c[m]
      BY <3>5 DEF IsPathTo
    <3>9. /\ p \in Seq(Path!Span) /\ Len(p) = Len(q) + 1 /\ p[Len(q) + 1] = s /\ p = from[n]
          /\ \A k \in 1 .. Len(q) : p[k] = q[k]
      BY <3>6, <3>7, <3>8
    <3>10. \A k \in 1 .. Len(p) - 1 : p[k].to <= p[k + 1].from
      <4>1. SUFFICES ASSUME NEW k \in 1 .. Len(q)
                     PROVE  p[k].to <= p[k + 1].from
        BY <3>8, <3>9
      <4>2. CASE k = Len(q)
        BY <3>3, <3>8, <3>9, <4>2
      <4>3. CASE k # Len(q)
        <5>1. k \in 1 .. Len(q) - 1 /\ k + 1 \in 1 .. Len(q)
          BY <3>8, <4>3
        <5>2. q[k].to <= q[k + 1].from
          BY <3>5, <5>1 DEF IsPathTo
        <5>3. QED
          BY <3>9, <5>1, <5>2
      <4>4. QED
        BY <4>2, <4>3
    <3>11. \A k \in 1 .. Len(p) : \E j \in DOMAIN c : p[k] = c[j]
      <4>1. SUFFICES ASSUME NEW k \in 1 .. Len(p)
                     PROVE  \E j \in DOMAIN c : p[k] = c[j]
        OBVIOUS
      <4>2. CASE k = Len(q) + 1
        BY <2>2, <3>9, <4>2
      <4>3. CASE k # Len(q) + 1
        <5>1. k \in 1 .. Len(q)
          BY <3>8, <3>9, <4>3
        <5>2. \E j \in DOMAIN c : q[k] = c[j]
          BY <3>5, <5>1 DEF IsPathTo
        <5>3. QED
          BY <3>9, <5>1, <5>2
      <4>4. QED
        BY <4>2, <4>3
    <3>12. LengthOf(q) \in Nat /\ LengthOf(p) = LengthOf(q) + Path!Duration(s)
      BY <3>7, <3>8, LengthGrows
    <3>13. LengthOf(q) = best[m] /\ LengthOf(q) <= q[Len(q)].to - q[1].from
      BY <3>5 DEF IsPathTo
    <3>14. LengthOf(p) = best[n]
      BY <2>3, <3>2, <3>12, <3>13
    <3>15. LengthOf(p) <= s.to - p[1].from
      <4>1. q[1] \in Path!Span /\ p[1] = q[1] /\ c[m] \in Path!Span
        BY <3>4, <3>8, <3>9
      <4>2. q[1].from \in Nat /\ c[m].to \in Nat
        BY <4>1, SpanIs
      <4>3. q[Len(q)].to = c[m].to /\ c[m].to <= s.from
        BY <3>3, <3>8
      <4>4. LengthOf(q) <= c[m].to - q[1].from
        BY <3>13, <4>3
      <4>5. QED
        BY <2>3, <3>12, <4>1, <4>2, <4>3, <4>4
    <3>16. IsPathTo(p, c, best, n)
      BY <2>2, <3>8, <3>9, <3>10, <3>11, <3>14, <3>15 DEF IsPathTo
    <3>17. QED
      BY <3>9, <3>16
  <2>7. QED
    BY <2>5, <2>6
<1>3. Nat \subseteq G
  <2> HIDE DEF G
  <2>1. QED
    BY <1>2, AllFromBelow
<1>4. QED
  BY <1>1, <1>3

-----------------------------------------------------------------------------
(* The input is a finite list of spans.                                    *)
LEMMA InputIs ==
  ASSUME Path!SpansInit
  PROVE  \E n \in Nat : /\ input \in [1 .. n -> Path!Span]
                        /\ Path!CandidateOf(input) \in SUBSET (1 .. n)
                        /\ IsFiniteSet(Path!CandidateOf(input))
<1>1. PICK n \in 0 .. PathSpans : input \in [1 .. n -> Path!Span]
  BY DEF Path!SpansInit
<1>2. n \in Nat /\ DOMAIN input = 1 .. n
  BY <1>1
<1>3. Path!CandidateOf(input) \in SUBSET (1 .. n)
  BY <1>2 DEF Path!CandidateOf
<1>4. IsFiniteSet(1 .. n)
  BY <1>2, FS_Interval
<1>5. IsFiniteSet(Path!CandidateOf(input))
  BY <1>3, <1>4, FS_Subset
<1>6. QED
  BY <1>1, <1>2, <1>3, <1>5

\* o lists the N candidates in the order in which Sorted has their spans.
IsSorting(o, N) ==
  /\ N \in Nat /\ o \in [1 .. N -> Path!CandidateOf(input)]
  /\ \A i, j \in 1 .. N : i < j => Path!Before(input, o[i], o[j])
  /\ \A m \in Path!CandidateOf(input) : \E i \in 1 .. N : o[i] = m
  /\ Path!Sorted(input) = [k \in 1 .. N |-> input[o[k]]]

(* The sort is total: of two candidates one is before the other.           *)
LEMMA BeforeOrders ==
  ASSUME Path!SpansInit, NEW R, NEW C, C = Path!CandidateOf(input),
         R = {e \in C \X C : Path!Before(input, e[1], e[2])}
  PROVE  Orders(R, C)
<1>1. PICK n \in Nat : input \in [1 .. n -> Path!Span] /\ C \in SUBSET (1 .. n)
  BY InputIs
<1>2. \A x \in C : x \in Nat /\ input[x].from \in Nat /\ input[x].to \in Nat
  BY <1>1, SpanIs
<1>3. \A x, y \in C : <<x, y>> \in R <=> Path!Before(input, x, y)
  OBVIOUS
<1>4. \A x, y \in C : x # y => Path!Before(input, x, y) \/ Path!Before(input, y, x)
  BY <1>2 DEF Path!Before
<1>5. \A x, y \in C : Path!Before(input, x, y) => ~Path!Before(input, y, x)
  BY <1>2 DEF Path!Before
<1>6. \A x, y, z \in C : Path!Before(input, x, y) /\ Path!Before(input, y, z)
                           => Path!Before(input, x, z)
  BY <1>2 DEF Path!Before
<1>7. QED
  BY <1>3, <1>4, <1>5, <1>6 DEF Orders

(* Sorted lists every candidate once, in that order.                       *)
LEMMA SortedIs ==
  ASSUME Path!SpansInit
  PROVE  \E o, N : IsSorting(o, N)
<1>1. PICK C, N : C = Path!CandidateOf(input) /\ N = Cardinality(C)
  OBVIOUS
<1>2. IsFiniteSet(C) /\ N \in Nat /\ Path!Cardinality(C) = N
  <2>1. IsFiniteSet(C)
    BY <1>1, InputIs
  <2>2. Path!Cardinality(C) = Cardinality(C)
    BY DEF Path!Cardinality, Cardinality, Path!IsFiniteSet, IsFiniteSet
  <2>3. QED
    BY <1>1, <2>1, <2>2, FS_CardinalityType
<1>3. PICK R : R = {e \in C \X C : Path!Before(input, e[1], e[2])}
  OBVIOUS
<1>4. Orders(R, C)
  BY <1>1, <1>3, BeforeOrders
<1>5. PICK u \in [1 .. N -> C] :
        \A i, j \in 1 .. N : i < j => u[i] # u[j] /\ <<u[i], u[j]>> \in R
  BY <1>1, <1>2, <1>4, SortedList
<1>6. u \in Path!SetToSeqs(C) /\ \A i, j \in DOMAIN u : i < j => Path!Before(input, u[i], u[j])
  <2>1. \A i, j \in 1 .. N : i # j => u[i] # u[j]
    <3>1. SUFFICES ASSUME NEW i \in 1 .. N, NEW j \in 1 .. N, i # j
                   PROVE  u[i] # u[j]
      OBVIOUS
    <3>2. CASE i < j
      BY <1>5, <3>2
    <3>3. CASE j < i
      <4>1. u[j] # u[i]
        BY <1>5, <3>3
      <4>2. QED
        BY <4>1
    <3>4. QED
      BY <3>1, <3>2, <3>3
  <2>2. u \in Path!SetToSeqs(C)
    BY <1>2, <2>1 DEF Path!SetToSeqs
  <2>3. QED
    BY <1>3, <1>5, <2>2
<1>7. PICK o : /\ o = (CHOOSE w \in Path!SetToSeqs(C) :
                         \A i, j \in DOMAIN w : i < j => Path!Before(input, w[i], w[j]))
               /\ o \in Path!SetToSeqs(C)
               /\ \A i, j \in DOMAIN o : i < j => Path!Before(input, o[i], o[j])
  BY <1>6
<1>8. o \in [1 .. N -> C] /\ \A i, j \in 1 .. N : i # j => o[i] # o[j]
  BY <1>2, <1>7 DEF Path!SetToSeqs
<1>9. ASSUME NEW m \in C
      PROVE  \E i \in 1 .. N : o[i] = m
  <2>1. SUFFICES ASSUME \A i \in 1 .. N : o[i] # m
                 PROVE  FALSE
    OBVIOUS
  <2>2. IsFiniteSet(C \ {m}) /\ Cardinality(C \ {m}) = N - 1
    BY <1>1, <1>2, FS_RemoveElement
  <2>3. IsFiniteSet(1 .. N) /\ Cardinality(1 .. N) = N
    BY <1>2, FS_Interval
  <2>4. o \in [1 .. N -> C \ {m}]
    BY <1>8, <2>1
  <2>5. Cardinality(C \ {m}) < Cardinality(1 .. N)
    BY <1>2, <2>2, <2>3
  <2>6. \E i, j \in 1 .. N : i # j /\ o[i] = o[j]
    BY <2>2, <2>3, <2>4, <2>5, FS_PigeonHole
  <2>7. QED
    BY <1>8, <2>6
<1>10. Path!Sorted(input) = [k \in 1 .. N |-> input[o[k]]]
  <2>1. DOMAIN o = 1 .. N
    BY <1>8
  <2>2. Path!Sorted(input) = [k \in DOMAIN o |-> input[o[k]]]
    BY <1>1, <1>7 DEF Path!Sorted
  <2>3. QED
    BY <2>1, <2>2
<1>11. IsSorting(o, N)
  BY <1>1, <1>2, <1>7, <1>8, <1>9, <1>10 DEF IsSorting
<1>12. QED
  BY <1>11

-----------------------------------------------------------------------------
\* Candidates of which no two overlap.
IsChain(s) ==
  \A m, n \in s : m = n \/ input[m].to <= input[n].from \/ input[n].to <= input[m].from

\* The durations of the candidates.
Spent(C) == [n \in C |-> Path!Duration(input[n])]

\* s ends with the k-th candidate and is not longer than the best to there.
IsShorter(s, o, N, best, C) ==
  \E k \in 1 .. N : /\ o[k] \in s /\ \A i \in 1 .. N : o[i] \in s => i <= k
                    /\ Sums(Spent(C), C)[s] <= best[k]

(* No chain is longer than the best of the candidate it ends with.         *)
LEMMA ChainsAreShorter ==
  ASSUME Path!SpansInit, NEW o, NEW N, IsSorting(o, N), NEW c, c = Path!Sorted(input),
         NEW best, \A n \in DOMAIN c : IsBestAt(best, c, n),
         NEW C, C = Path!CandidateOf(input)
  PROVE  \A s \in SUBSET C : IsChain(s) /\ s # {} => IsShorter(s, o, N, best, C)
<1> DEFINE G == {s \in SUBSET C : IsChain(s) /\ s # {} => IsShorter(s, o, N, best, C)}
<1>1. PICK n \in Nat : input \in [1 .. n -> Path!Span] /\ C \in SUBSET (1 .. n) /\ IsFiniteSet(C)
  BY InputIs
<1>2. \A x \in C : /\ x \in Nat /\ input[x].from \in Nat /\ input[x].to \in Nat
                   /\ input[x].from <= input[x].to
                   /\ Path!Duration(input[x]) \in Nat
  BY <1>1, SpanIs
<1>3. /\ N \in Nat /\ o \in [1 .. N -> C]
      /\ \A i, j \in 1 .. N : i < j => Path!Before(input, o[i], o[j])
      /\ \A m \in C : \E i \in 1 .. N : o[i] = m
      /\ DOMAIN c = 1 .. N /\ \A k \in 1 .. N : c[k] = input[o[k]]
  BY DEF IsSorting
<1>4. PICK d : d = Spent(C)
  OBVIOUS
<1>5. d \in [C -> Nat] /\ \A x \in C : d[x] = Path!Duration(input[x])
  BY <1>2, <1>4 DEF Spent
<1>6. ASSUME NEW s \in SUBSET C, s # {}, \A x \in s : s \ {x} \in G
      PROVE  s \in G
  <2>1. SUFFICES ASSUME IsChain(s)
                 PROVE  IsShorter(s, o, N, best, C)
    OBVIOUS
  <2>2. PICK k \in 1 .. N : o[k] \in s /\ \A i \in 1 .. N : o[i] \in s => i <= k
    <3>1. PICK K : K = {i \in 1 .. N : o[i] \in s}
      OBVIOUS
    <3>2. K # {}
      BY <1>3, <1>6, <3>1
    <3>3. IsFiniteSet(K)
      <4>1. IsFiniteSet(1 .. N)
        BY <1>3, FS_Interval
      <4>2. K \in SUBSET (1 .. N)
        BY <3>1
      <4>3. QED
        BY <4>1, <4>2, FS_Subset
    <3>4. PICK v : v = [i \in K |-> i]
      OBVIOUS
    <3>5. \A i \in K : v[i] \in Nat
      BY <1>3, <3>1, <3>4
    <3>6. \E i \in K : \A j \in K : v[j] <= v[i]
      BY <3>2, <3>3, <3>5, GreatestExists
    <3>7. QED
      BY <3>1, <3>4, <3>6
  <2>3. PICK z \in s : z = o[k]
    BY <2>2
  <2>4. PICK D \in Nat : D = Path!Duration(input[z]) /\ D = Path!Duration(c[k]) /\ D = d[z]
    BY <1>2, <1>3, <1>5, <2>3
  <2>5. IsAdded(C, d, s, z)
    BY <1>1, <1>5, SummandIsAdded DEF Summand
  <2>6. PICK rest \in Nat : rest = Sums(d, C)[s \ {z}]
    <3>1. s \ {z} \in SUBSET C
      OBVIOUS
    <3>2. QED
      BY <1>1, <1>5, <3>1, SumsAreNat
  <2>7. Sums(d, C)[s] = rest + D
    BY <2>4, <2>5, <2>6 DEF IsAdded
  <2>8. IsBestAt(best, c, k)
    BY <1>3
  <2>9. rest + D <= best[k]
    <3>1. CASE s \ {z} = {}
      <4>1. rest = 0
        BY <2>5, <2>6, <3>1 DEF IsAdded
      <4>2. CASE Path!Prior(c, k) = {}
        BY <2>4, <2>8, <4>1, <4>2 DEF IsBestAt
      <4>3. CASE Path!Prior(c, k) # {}
        <5>1. PICK m : m = Path!ArgMax(Path!Prior(c, k), best)
          OBVIOUS
        <5>2. m \in 1 .. k - 1 /\ best[k] = D + best[m]
          BY <2>2, <2>4, <2>8, <4>3, <5>1, PriorIs DEF IsBestAt
        <5>3. m \in DOMAIN c
          BY <1>3, <5>2
        <5>4. best[m] \in Nat
          BY <5>3 DEF IsBestAt
        <5>5. QED
          BY <4>1, <5>2, <5>4
      <4>4. QED
        BY <4>2, <4>3
    <3>2. CASE s \ {z} # {}
      <4>1. IsChain(s \ {z})
        BY <2>1 DEF IsChain
      <4>2. IsShorter(s \ {z}, o, N, best, C)
        BY <1>6, <3>2, <4>1
      <4>3. PICK j \in 1 .. N : o[j] \in s \ {z} /\ Sums(d, C)[s \ {z}] <= best[j]
        BY <1>4, <4>2 DEF IsShorter
      <4>4. j < k
        <5>1. j <= k /\ j # k
          BY <2>2, <2>3, <4>3
        <5>2. QED
          BY <5>1
      <4>5. PICK x, y : x = o[j] /\ y = o[k]
        OBVIOUS
      <4>6. Path!Before(input, x, y) /\ x \in s /\ y \in s /\ x # y
        BY <1>3, <2>3, <4>3, <4>4, <4>5
      <4>7. input[x].to <= input[y].from
        <5>1. input[x].to <= input[y].from \/ input[y].to <= input[x].from
          BY <2>1, <4>6 DEF IsChain
        <5>2. /\ input[x].from \in Nat /\ input[x].to \in Nat /\ input[x].from <= input[x].to
              /\ input[y].from \in Nat /\ input[y].to \in Nat /\ input[y].from <= input[y].to
          BY <1>2, <4>6
        <5>3. \/ input[x].to < input[y].to
              \/ input[x].to = input[y].to /\ input[x].from <= input[y].from
          BY <4>6, <5>2 DEF Path!Before
        <5>4. QED
          BY <5>1, <5>2, <5>3
      <4>8. j \in Path!Prior(c, k)
        <5>1. j \in 1 .. k - 1
          BY <4>4
        <5>2. c[j].to <= c[k].from
          BY <1>3, <4>5, <4>7
        <5>3. QED
          BY <5>1, <5>2 DEF Path!Prior
      <4>9. PICK m : m = Path!ArgMax(Path!Prior(c, k), best)
        OBVIOUS
      <4>10. m \in Path!Prior(c, k) /\ best[k] = D + best[m] /\ best[j] <= best[m]
        BY <2>4, <2>8, <4>8, <4>9 DEF IsBestAt
      <4>11. m \in DOMAIN c
        <5>1. m \in 1 .. k - 1
          BY <4>10, PriorIs
        <5>2. QED
          BY <1>3, <5>1
      <4>12. best[m] \in Nat /\ best[j] \in Nat
        BY <1>3, <4>11 DEF IsBestAt
      <4>13. QED
        BY <2>6, <4>3, <4>10, <4>12
    <3>3. QED
      BY <3>1, <3>2
  <2>10. QED
    BY <1>4, <2>2, <2>7, <2>9 DEF IsShorter
<1>7. {} \in G
  OBVIOUS
<1>8. G = SUBSET C
  <2>1. G \in SUBSET SUBSET C
    OBVIOUS
  <2> HIDE DEF G
  <2>2. QED
    BY <1>1, <1>6, <1>7, <2>1, AllParts
<1>9. QED
  BY <1>8

\* A fold of the durations, in whatever order.
LengthFold(it, s) ==
  it = [t \in SUBSET s |->
          IF t = {} THEN 0
          ELSE it[t \ {First(t)}] + Path!Duration(input[First(t)])]

(* The length of a set of candidates is such a fold, so the sum of their   *)
(* durations.                                                              *)
LEMMA LengthIsSum ==
  ASSUME NEW C, IsFiniteSet(C), \A x \in C : Path!Duration(input[x]) \in Nat,
         NEW s \in SUBSET C
  PROVE  Path!FoldSet(LAMBDA n, sum : sum + Path!Duration(input[n]), 0, s)
           = Sums(Spent(C), C)[s]
<1>1. PICK d : d = Spent(C)
  OBVIOUS
<1>2. d \in [C -> Nat] /\ \A x \in C : d[x] = Path!Duration(input[x])
  BY <1>1 DEF Spent
<1> DEFINE sums == [t \in SUBSET s |-> Sums(d, C)[t]]
<1>3. ASSUME NEW t \in SUBSET s
      PROVE  sums[t] = IF t = {} THEN 0
                       ELSE sums[t \ {First(t)}] + Path!Duration(input[First(t)])
  <2>1. CASE t = {}
    BY <1>2, <2>1, SumsAdd
  <2>2. CASE t # {}
    <3>1. PICK z \in t : z = First(t)
      BY <2>2 DEF First
    <3>2. IsAdded(C, d, t, z)
      BY <1>2, SummandIsAdded DEF Summand
    <3>3. sums[t] = Sums(d, C)[t] /\ sums[t \ {z}] = Sums(d, C)[t \ {z}]
      OBVIOUS
    <3> HIDE DEF sums
    <3>4. d[z] = Path!Duration(input[z])
      BY <1>2
    <3>5. QED
      BY <2>2, <3>1, <3>2, <3>3, <3>4 DEF IsAdded
  <2>3. QED
    BY <2>1, <2>2
<1>4. LengthFold(sums, s)
  BY <1>3 DEF LengthFold
<1>5. PICK it : it = (CHOOSE h : LengthFold(h, s)) /\ LengthFold(it, s)
  BY <1>4
<1>6. Path!FoldSet(LAMBDA n, sum : sum + Path!Duration(input[n]), 0, s) = it[s]
  <2>1. Path!FoldSet(LAMBDA n, sum : sum + Path!Duration(input[n]), 0, s)
          = (CHOOSE h : LengthFold(h, s))[s]
    BY DEF Path!FoldSet, Path!MapThenFoldSet, LengthFold, First
  <2>2. QED
    BY <1>5, <2>1
<1> DEFINE G == {t \in SUBSET s : it[t] = Sums(d, C)[t]}
<1>7. {} \in G
  <2>1. it[{}] = 0
    <3>1. {} \in SUBSET s
      OBVIOUS
    <3>2. QED
      BY <1>5, <3>1 DEF LengthFold
  <2>2. Sums(d, C)[{}] = 0
    BY <1>2, SumsAdd
  <2>3. QED
    BY <2>1, <2>2
<1>8. ASSUME NEW t \in SUBSET s, t # {}, \A x \in t : t \ {x} \in G
      PROVE  t \in G
  <2>1. PICK z \in t : z = First(t)
    BY <1>8 DEF First
  <2>2. it[t] = it[t \ {z}] + Path!Duration(input[z])
    BY <1>5, <1>8, <2>1 DEF LengthFold
  <2>3. it[t \ {z}] = Sums(d, C)[t \ {z}]
    BY <1>8
  <2>4. IsAdded(C, d, t, z)
    BY <1>2, SummandIsAdded DEF Summand
  <2>5. d[z] = Path!Duration(input[z])
    BY <1>2
  <2>6. QED
    BY <2>2, <2>3, <2>4, <2>5 DEF IsAdded
<1>9. s \in G
  <2>1. G = SUBSET s
    <3>1. G \in SUBSET SUBSET s /\ IsFiniteSet(s)
      BY FS_Subset
    <3> HIDE DEF G
    <3>2. QED
      BY <1>7, <1>8, <3>1, AllParts
  <2>2. QED
    BY <2>1
<1>10. QED
  BY <1>1, <1>6, <1>9

-----------------------------------------------------------------------------
(* A span that is left out has a candidate in it: of the nodes in it one   *)
(* that takes the least time.                                              *)
LEMMA CandidateInside ==
  ASSUME Path!SpansInit, NEW n \in DOMAIN input, n \notin Path!CandidateOf(input)
  PROVE  \E m \in Path!CandidateOf(input) :
           input[n].from <= input[m].from /\ input[m].to <= input[n].to
<1>1. PICK N \in Nat : input \in [1 .. N -> Path!Span]
  BY InputIs
<1>2. \A j \in DOMAIN input :
        /\ input[j].from \in Nat /\ input[j].to \in Nat /\ input[j].from <= input[j].to
        /\ input[j].kind \in {"execution_node", "llm"}
  <2>1. \A j \in DOMAIN input : input[j] \in Path!Span
    BY <1>1
  <2>2. QED
    BY <2>1, SpanIs DEF Path!Span
<1>3. PICK M : M = {j \in DOMAIN input :
                      /\ input[j].kind = "execution_node"
                      /\ input[n].from <= input[j].from /\ input[j].to <= input[n].to}
  OBVIOUS
<1>4. n \in M
  BY <1>2, <1>3 DEF Path!CandidateOf
<1>5. PICK T : T = {input[j].to - input[j].from : j \in M}
  OBVIOUS
<1>6. T \in SUBSET Nat
  BY <1>2, <1>3, <1>5
<1>7. T # {}
  BY <1>4, <1>5
<1>8. PICK j \in M : \A t \in T : input[j].to - input[j].from <= t
  BY <1>5, <1>6, <1>7, LeastNumber
<1>9. j \in Path!CandidateOf(input)
  <2>1. SUFFICES ASSUME Path!ContainsChild(input, j)
                 PROVE  FALSE
    BY <1>3 DEF Path!CandidateOf
  <2>2. PICK i \in DOMAIN input :
          /\ input[i].kind = "execution_node"
          /\ input[j].from <= input[i].from /\ input[i].to <= input[j].to
          /\ input[j].from < input[i].from \/ input[i].to < input[j].to
    BY <2>1 DEF Path!ContainsChild
  <2>3. i \in M
    BY <1>2, <1>3, <2>2
  <2>4. input[j].to - input[j].from <= input[i].to - input[i].from
    BY <1>5, <1>8, <2>3
  <2>5. QED
    BY <1>2, <1>3, <2>2, <2>4
<1>10. QED
  BY <1>3, <1>9

(* Back from the best end: the path of Walk, if there is a candidate.      *)
LEMMA WalkTakes ==
  ASSUME NEW c \in Seq(Path!Span), c # <<>>, NEW best, \A n \in DOMAIN c : IsBestAt(best, c, n)
  PROVE  \E k \in DOMAIN c : /\ IsPathTo(Path!Walk(c, best), c, best, k)
                             /\ \A j \in DOMAIN c : best[j] <= best[k]
<1>1. PICK from : from = (CHOOSE f : WalkOf(f, c, best)) /\ WalkOf(from, c, best)
  BY WalkExists
<1>2. PICK k : k = Path!ArgMax(DOMAIN c, best)
  OBVIOUS
<1>3. k \in DOMAIN c /\ \A j \in DOMAIN c : best[j] <= best[k]
  <2>1. PICK N \in Nat : DOMAIN c = 1 .. N
    OBVIOUS
  <2>2. DOMAIN c # {} /\ \A j \in DOMAIN c : best[j] \in Nat
    BY DEF IsBestAt
  <2>3. QED
    BY <1>2, <2>1, <2>2, ArgMaxIs
<1>4. Path!Walk(c, best) = from[k]
  <2>1. Path!Walk(c, best) = (CHOOSE f : WalkOf(f, c, best))[Path!ArgMax(DOMAIN c, best)]
    BY DEF Path!Walk, WalkOf
  <2>2. QED
    BY <1>1, <1>2, <2>1
<1>5. IsPathTo(from[k], c, best, k)
  BY <1>1, <1>3, WalkIs
<1>6. QED
  BY <1>3, <1>4, <1>5

(* What critical_path.py promises of the path it reports.                  *)
LEMMA PathPromise ==
  ASSUME Path!SpansInit
  PROVE  Path!PathIsLongest
<1>1. PICK C, c, best, path : /\ C = Path!CandidateOf(input) /\ c = Path!Sorted(input)
                              /\ best = Path!Best(c) /\ path = Path!Walk(c, best)
  OBVIOUS
<1>2. IsFiniteSet(C) /\ \A x \in C : input[x] \in Path!Span /\ Path!Duration(input[x]) \in Nat
  <2>1. PICK n \in Nat : /\ input \in [1 .. n -> Path!Span] /\ C \in SUBSET (1 .. n)
                         /\ IsFiniteSet(C)
    BY <1>1, InputIs
  <2>2. QED
    BY <2>1, SpanIs
<1>3. PICK o, N : IsSorting(o, N)
  BY SortedIs
<1>4. /\ N \in Nat /\ o \in [1 .. N -> C] /\ c = [k \in 1 .. N |-> input[o[k]]]
      /\ \A m \in C : \E i \in 1 .. N : o[i] = m
  BY <1>1, <1>3 DEF IsSorting
<1>5. c \in Seq(Path!Span) /\ DOMAIN c = 1 .. N
  <2>1. c \in [1 .. N -> Path!Span]
    BY <1>2, <1>4
  <2>2. QED
    BY <1>4, <2>1, SeqDef
<1>6. BestOf(best, c)
  <2>1. best = (CHOOSE b : BestOf(b, c))
    BY <1>1 DEF Path!Best, BestOf
  <2>2. QED
    BY <1>5, <2>1, BestExists
<1>7. \A n \in DOMAIN c : IsBestAt(best, c, n)
  BY <1>5, <1>6, BestIs
<1>8. PICK length : \A s \in SUBSET C :
                      length[s] = Sums(Spent(C), C)[s]
                      /\ Path!FoldSet(LAMBDA n, sum : sum + Path!Duration(input[n]), 0, s)
                           = length[s]
  <2>1. PICK length : length = Sums(Spent(C), C)
    OBVIOUS
  <2>2. QED
    BY <1>2, <2>1, LengthIsSum
<1>9. length[{}] = 0
  <2>1. Spent(C) \in [C -> Nat]
    BY <1>2 DEF Spent
  <2>2. QED
    BY <1>2, <1>8, <2>1, SumsAdd
<1>10. /\ \A k \in 1 .. Len(path) - 1 : path[k].to <= path[k + 1].from
       /\ \A k \in DOMAIN path : \E n \in C : input[n] = path[k]
       /\ \A s \in SUBSET C : IsChain(s) => length[s] <= Path!Total(path)
       /\ path # <<>> => Path!Total(path) <= path[Len(path)].to - path[1].from
  <2>1. CASE c = <<>>
    <3>1. path = <<>>
      BY <1>1, <2>1 DEF Path!Walk
    <3>2. C = {}
      BY <1>4, <1>5, <2>1
    <3>3. Path!Total(path) = 0
      <4>1. path \in Seq(Path!Span)
        BY <3>1
      <4>2. QED
        BY <3>1, <4>1, TotalIsLength, NothingTakesNothing
    <3>4. Len(path) = 0 /\ DOMAIN path = {}
      BY <3>1
    <3>5. \A s \in SUBSET C : length[s] <= Path!Total(path)
      BY <1>9, <3>2, <3>3
    <3>6. 1 .. Len(path) - 1 = {}
      BY <3>4
    <3>7. QED
      BY <3>1, <3>4, <3>5, <3>6
  <2>2. CASE c # <<>>
    <3>1. PICK k \in DOMAIN c : /\ IsPathTo(path, c, best, k)
                                /\ \A j \in DOMAIN c : best[j] <= best[k]
      BY <1>1, <1>5, <1>7, <2>2, WalkTakes
    <3>2. path \in Seq(Path!Span)
      BY <3>1 DEF IsPathTo
    <3>3. Path!Total(path) = LengthOf(path)
      BY <3>2, TotalIsLength
    <3>4. LengthOf(path) = best[k] /\ best[k] \in Nat
      BY <1>7, <3>1 DEF IsPathTo, IsBestAt
    <3>5. ASSUME NEW s \in SUBSET C, IsChain(s)
          PROVE  length[s] <= best[k]
      <4>1. CASE s = {}
        BY <1>9, <3>4, <4>1
      <4>2. CASE s # {}
        <5>1. IsShorter(s, o, N, best, C)
          BY <1>1, <1>3, <1>7, <3>5, <4>2, ChainsAreShorter
        <5>2. PICK j \in 1 .. N : length[s] <= best[j]
          BY <1>8, <5>1 DEF IsShorter
        <5>3. best[j] <= best[k] /\ best[j] \in Nat
          BY <1>5, <1>7, <3>1 DEF IsBestAt
        <5>4. length[s] \in Nat
          <6>1. Spent(C) \in [C -> Nat]
            BY <1>2 DEF Spent
          <6>2. QED
            BY <1>2, <1>8, <6>1, SumsAreNat
        <5>5. QED
          BY <3>4, <5>2, <5>3, <5>4
      <4>3. QED
        BY <4>1, <4>2
    <3>6. ASSUME NEW i \in DOMAIN path
          PROVE  \E n \in C : input[n] = path[i]
      <4>1. i \in 1 .. Len(path)
        BY <3>2
      <4>2. PICK j \in DOMAIN c : path[i] = c[j]
        BY <3>1, <4>1 DEF IsPathTo
      <4>3. j \in 1 .. N
        BY <1>5
      <4>4. o[j] \in C /\ input[o[j]] = path[i]
        BY <1>4, <4>2, <4>3
      <4>5. QED
        BY <4>4
    <3>7. /\ \A i \in 1 .. Len(path) - 1 : path[i].to <= path[i + 1].from
          /\ LengthOf(path) <= path[Len(path)].to - path[1].from
      BY <3>1 DEF IsPathTo
    <3>8. QED
      BY <3>3, <3>4, <3>5, <3>6, <3>7
  <2>3. QED
    BY <2>1, <2>2
<1>11. \A n \in (DOMAIN input) \ C :
         \E m \in C : input[n].from <= input[m].from /\ input[m].to <= input[n].to
  BY <1>1, CandidateInside
<1>12. path = Path!CriticalPathOf(input)
  BY <1>1 DEF Path!CriticalPathOf
<1>13. \A s \in SUBSET C :
         IsChain(s) => Path!FoldSet(LAMBDA n, sum : sum + Path!Duration(input[n]), 0, s)
                         <= Path!Total(path)
  BY <1>8, <1>10
<1>14. QED
  BY <1>1, <1>10, <1>11, <1>12, <1>13 DEF Path!PathIsLongest, IsChain

-----------------------------------------------------------------------------
(* What the planners, the CPU lists and critical_path.py compute is taken  *)
(* where it is used, for every input: load_admission_schedule accepts each *)
(* schedule of build_azure_launch_schedule.py and none of the plans of     *)
(* swebench_verified_microvm_plan.py, the batches of which are those asked *)
(* for, with no interval between them as with any; each list of CPUs is    *)
(* read back by every script that reads one, and no chain of steps is      *)
(* longer than the one that is reported.                                   *)
THEOREM ResultsHold == PlansSpec => []ResultsAreUsable
<1> DEFINE Inv == /\ planner = "azure" => Launch!ScheduleInit
                  /\ planner = "batches" => Launch!BatchInit
                  /\ planner = "cpus" => Cpu!CpuInit
                  /\ planner = "path" => Path!SpansInit
<1>1. PlansInit => Inv
  BY DEF PlansInit
<1>2. Inv /\ [PlansNext]_plansVars => Inv'
  <2>1. SUFFICES ASSUME Inv, [PlansNext]_plansVars
                 PROVE  Inv'
    OBVIOUS
  <2>2. planner' = planner /\ input' = input
    BY <2>1 DEF PlansNext, plansVars
  <2>3. (planner = "azure" => Launch!ScheduleInit)'
    BY <2>1, <2>2 DEF Launch!ScheduleInit
  <2>4. (planner = "batches" => Launch!BatchInit)'
    BY <2>1, <2>2 DEF Launch!BatchInit
  <2>5. (planner = "cpus" => Cpu!CpuInit)'
    BY <2>1, <2>2 DEF Cpu!CpuInit
  <2>6. (planner = "path" => Path!SpansInit)'
    BY <2>1, <2>2 DEF Path!SpansInit, Path!Span
  <2>7. QED
    BY <2>3, <2>4, <2>5, <2>6
<1>3. Inv => ResultsAreUsable
  BY PlansAssumption, SchedulePromise, BatchesPromise, CpuPromise, PathPromise
     DEF ResultsAreUsable
<1>4. QED
  BY <1>1, <1>2, <1>3, PTL DEF PlansSpec

(* What is taken from a recorded trace is what was recorded, for every     *)
(* trace: the gaps that build_azure_launch_schedule.py draws from span the *)
(* observed sessions however the records are spread over archives, the     *)
(* steps of replay_openhands_trace.py are in order and those that node0    *)
(* waits for, and the server and the earlier experiment take the same      *)
(* commands from a trajectory.  (The plans of prompts are left to TLC.)    *)
THEOREM TracesHold == PlansSpec => [](planner # "prompts" => TracesReadAlike)
<1> DEFINE Inv == /\ planner = "azure" => Launch!ScheduleInit
                  /\ planner = "steps" => Steps!TraceInit
                  /\ planner = "files" => Files!TrajectoryInit
<1>1. PlansInit => Inv
  BY DEF PlansInit
<1>2. Inv /\ [PlansNext]_plansVars => Inv'
  <2>1. SUFFICES ASSUME Inv, [PlansNext]_plansVars
                 PROVE  Inv'
    OBVIOUS
  <2>2. planner' = planner /\ input' = input
    BY <2>1 DEF PlansNext, plansVars
  <2>3. (planner = "azure" => Launch!ScheduleInit)'
    BY <2>1, <2>2 DEF Launch!ScheduleInit
  <2>4. (planner = "steps" => Steps!TraceInit)'
    BY <2>1, <2>2 DEF Steps!TraceInit
  <2>5. (planner = "files" => Files!TrajectoryInit)'
    BY <2>1, <2>2 DEF Files!TrajectoryInit
  <2>6. QED
    BY <2>3, <2>4, <2>5
<1>3. Inv => (planner # "prompts" => TracesReadAlike)
  BY PlansAssumption, GapsPromise, StepsPromise, ReadersPromise DEF TracesReadAlike
<1>4. QED
  BY <1>1, <1>2, <1>3, PTL DEF PlansSpec
=============================================================================
