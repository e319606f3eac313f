------------------------- MODULE StageNetworkProofs -------------------------
(***************************************************************************)
(* Proofs about StageNetwork, for any number of VMs and stages and any     *)
(* number of failing calls.                                                *)
(*                                                                         *)
(* Both properties follow from what the place in the list of calls says:   *)
(* everything before it has been made (during setup) or is gone (during    *)
(* close), provided that no call of close has failed before.               *)
(***************************************************************************)
EXTENDS StageNetwork, SequenceTheorems, TLAPS

Taps == {Tap(s) : s \in 1 .. Sessions}

(* The position of the sysctl in setup's calls; the rules come after it.   *)
ForwardAt == 3 * Sessions + 4

(* The rules are added one by one.                                         *)
RulesSoFar ==
  {<<>>, <<Rules[1]>>, <<Rules[1], Rules[2]>>, <<Rules[1], Rules[2], Rules[3]>>}

NetworkTypeOK ==
  /\ pc \in {"init", "setup", "up", "close", "over"}
  /\ at \in Nat \ {0}
  /\ forwarding \in BOOLEAN /\ original \in BOOLEAN /\ before \in BOOLEAN
  /\ raising \in BOOLEAN /\ ready \in BOOLEAN /\ kept \in BOOLEAN
  /\ stage \in Nat \ {0}
  /\ pc # "init" => rules \in RulesSoFar

(* During setup: what the calls so far were to make is there.              *)
MadeSoFar ==
  pc = "setup" =>
    /\ at <= Len(SetupCalls)
    /\ (ready <=> ReadyAfter(at - 1))
    /\ Len(rules) = IF at <= ForwardAt THEN 0 ELSE at - ForwardAt - 1
    /\ \A n \in 1 .. at - 1 : SetupCalls[n] \in Made => SetupCalls[n] \in host
    /\ at > ForwardAt => forwarding

(* As long as no call of close has failed, the host is as it was found     *)
(* between two stages, and in a stage has nothing but what close looks for.*)
CleanSoFar ==
  ~kept =>
    /\ pc = "init" => host = {} /\ forwarding = original
    /\ pc \in {"setup", "up", "close"} => before = original
    /\ pc = "setup" =>
         /\ host \subseteq {Bridge} \cup Taps \cup ToSet(rules)
         /\ at <= 3 => host \subseteq {Bridge}
         /\ at <= ForwardAt => forwarding = original
    /\ pc = "up" => host \subseteq {Bridge} \cup Taps \cup ToSet(rules)
    /\ pc = "close" => host \subseteq {CloseCalls[n] : n \in at .. Len(CloseCalls)}

(* The place in the list when the stage runs and when it is closed.        *)
PlaceOK ==
  /\ pc = "up" => at = 1
  /\ pc = "close" => at <= Len(CloseCalls)

NetworkInv ==
  /\ NetworkTypeOK
  /\ PlaceOK
  /\ MadeSoFar
  /\ CleanSoFar
  /\ NetworkWhole
  /\ HostRestored

-----------------------------------------------------------------------------
(* The calls of setup and close.                                           *)

(* st is s and t, one after the other.                                     *)
Joins(s, t, st) ==
  /\ Len(st) = Len(s) + Len(t)
  /\ \A i \in 1 .. Len(s) : st[i] = s[i]
  /\ \A i \in 1 .. Len(t) : st[Len(s) + i] = t[i]

(* A concatenation is its parts one after the other.                       *)
LEMMA Concatenated ==
  ASSUME NEW T, NEW s \in Seq(T), NEW t \in Seq(T)
  PROVE  s \o t \in Seq(T) /\ Joins(s, t, s \o t)
BY DEF Joins

(* What a call is for, by its place in setup's list.                       *)
LEMMA SetupFacts ==
  /\ Len(SetupCalls) = 3 * Sessions + 7
  /\ SetupCalls[1] = Bridge
  /\ SetupCalls[2] = <<"address", 0>> /\ SetupCalls[3] = <<"up", 0>>
  /\ \A n \in 1 .. 3 * Sessions :
       SetupCalls[n + 3] = <<TapCalls[1 + ((n - 1) % 3)], 1 + ((n - 1) \div 3)>>
  /\ SetupCalls[ForwardAt] = <<"forwarding", 0>>
  /\ \A i \in 1 .. 3 : SetupCalls[ForwardAt + i] = Rules[i]
<1> DEFINE Start == <<Bridge, <<"address", 0>>, <<"up", 0>>>>
           Middle == [n \in 1 .. 3 * Sessions |->
                        <<TapCalls[1 + ((n - 1) % 3)], 1 + ((n - 1) \div 3)>>]
           Switch == <<<<"forwarding", 0>>>>
           S == {Start[1], Start[2], Start[3], Switch[1], Rules[1], Rules[2], Rules[3]}
                \cup {Middle[n] : n \in 1 .. 3 * Sessions}
<1>0. 3 * Sessions \in Nat
  BY NetworkAssumption
<1>a. ASSUME NEW x, NEW y, NEW z, NEW T, x \in T, y \in T, z \in T
      PROVE  /\ <<x, y, z>> \in Seq(T) /\ Len(<<x, y, z>>) = 3
             /\ <<x, y, z>>[1] = x /\ <<x, y, z>>[2] = y /\ <<x, y, z>>[3] = z
  BY <1>a
<1>1. Start \in Seq(S) /\ Len(Start) = 3 /\ Start[1] = Bridge
      /\ Start[2] = <<"address", 0>> /\ Start[3] = <<"up", 0>>
  <2>1. Start[1] \in S /\ Start[2] \in S /\ Start[3] \in S
    OBVIOUS
  <2>2. /\ Start[1] = Bridge /\ Start[2] = <<"address", 0>> /\ Start[3] = <<"up", 0>>
    OBVIOUS
  <2> HIDE DEF S
  <2> QED BY <2>1, <2>2, <1>a
<1>2. Middle \in Seq(S) /\ Len(Middle) = 3 * Sessions
  <2>1. \A n \in 1 .. 3 * Sessions : Middle[n] \in S
    OBVIOUS
  <2>2. Middle = [n \in 1 .. 3 * Sessions |-> Middle[n]]
    OBVIOUS
  <2> HIDE DEF Middle, S
  <2>3. Middle \in [1 .. 3 * Sessions -> S]
    BY <2>1, <2>2
  <2> QED BY <2>3, <1>0
<1>3. Switch \in Seq(S) /\ Len(Switch) = 1 /\ Switch[1] = <<"forwarding", 0>>
  <2>1. Switch[1] \in S
    OBVIOUS
  <2>2. Switch[1] = <<"forwarding", 0>>
    OBVIOUS
  <2> HIDE DEF S
  <2> QED BY <2>1, <2>2
<1>4. Rules \in Seq(S) /\ Len(Rules) = 3
  <2>1. Rules[1] \in S /\ Rules[2] \in S /\ Rules[3] \in S
    OBVIOUS
  <2> HIDE DEF S
  <2> QED BY <2>1, <1>a DEF Rules
<1>5. SetupCalls = ((Start \o Middle) \o Switch) \o Rules
  BY DEF SetupCalls
<1>6. \A n \in 1 .. 3 * Sessions :
        Middle[n] = <<TapCalls[1 + ((n - 1) % 3)], 1 + ((n - 1) \div 3)>>
  OBVIOUS
<1> HIDE DEF Start, Middle, Switch, S
<1>7. PICK body \in Seq(S) : body = Start \o Middle /\ Joins(Start, Middle, body)
  BY <1>1, <1>2, Concatenated
<1>8. PICK front \in Seq(S) : front = body \o Switch /\ Joins(body, Switch, front)
  BY <1>3, Concatenated
<1>9. Joins(front, Rules, SetupCalls)
  BY <1>4, <1>5, <1>7, <1>8, Concatenated
<1> DEFINE M == 3 * Sessions
<1> HIDE DEF M
<1>m. M \in Nat /\ M = 3 * Sessions
  BY <1>0 DEF M
<1>e. /\ Len(SetupCalls) = M + 7
      /\ \A i \in 1 .. 3 : SetupCalls[i] = Start[i]
      /\ \A n \in 1 .. M : SetupCalls[n + 3] = Middle[n]
      /\ SetupCalls[M + 4] = Switch[1]
      /\ \A i \in 1 .. 3 : SetupCalls[M + 4 + i] = Rules[i]
  <2>1. Len(Start) = 3 /\ Len(Middle) = M /\ Len(Switch) = 1 /\ Len(Rules) = 3
    BY <1>1, <1>2, <1>3, <1>4, <1>m
  <2>2. Joins(Start, Middle, body) /\ Joins(body, Switch, front)
        /\ Joins(front, Rules, SetupCalls)
    BY <1>7, <1>8, <1>9
  <2>3. /\ Len(body) = 3 + M
        /\ \A i \in 1 .. 3 : body[i] = Start[i]
        /\ \A n \in 1 .. M : body[3 + n] = Middle[n]
    BY <2>1, <2>2, <1>m DEF Joins
  <2>4. /\ Len(front) = M + 4
        /\ \A n \in 1 .. M + 3 : front[n] = body[n]
        /\ front[M + 4] = Switch[1]
    BY <2>1, <2>2, <2>3, <1>m DEF Joins
  <2>5. /\ Len(SetupCalls) = M + 7
        /\ \A n \in 1 .. M + 4 : SetupCalls[n] = front[n]
        /\ \A i \in 1 .. 3 : SetupCalls[M + 4 + i] = Rules[i]
    <3>1. Len(front) = M + 4 /\ Len(Rules) = 3
      BY <2>1, <2>4
    <3>2. /\ Len(SetupCalls) = Len(front) + Len(Rules)
          /\ \A n \in 1 .. Len(front) : SetupCalls[n] = front[n]
          /\ \A i \in 1 .. Len(Rules) : SetupCalls[Len(front) + i] = Rules[i]
      BY <2>2 DEF Joins
    <3>3. QED
      BY <3>1, <3>2, <1>m
  <2>6. ASSUME NEW i \in 1 .. 3  PROVE SetupCalls[i] = Start[i]
    <3>1. i \in 1 .. M + 3 /\ i \in 1 .. M + 4
      BY <1>m
    <3> QED BY <3>1, <2>3, <2>4, <2>5
  <2>7. ASSUME NEW n \in 1 .. M  PROVE SetupCalls[n + 3] = Middle[n]
    <3>1. n + 3 \in 1 .. M + 3 /\ n + 3 \in 1 .. M + 4 /\ n + 3 = 3 + n
      BY <1>m
    <3> QED BY <3>1, <2>3, <2>4, <2>5
  <2>8. SetupCalls[M + 4] = Switch[1]
    BY <2>4, <2>5, <1>m
  <2> QED BY <2>5, <2>6, <2>7, <2>8
<1>10. /\ SetupCalls[1] = Bridge
       /\ SetupCalls[2] = <<"address", 0>> /\ SetupCalls[3] = <<"up", 0>>
  BY <1>1, <1>e
<1>11. \A n \in 1 .. 3 * Sessions :
         SetupCalls[n + 3] = <<TapCalls[1 + ((n - 1) % 3)], 1 + ((n - 1) \div 3)>>
  BY <1>6, <1>e, <1>m
<1>12. SetupCalls[ForwardAt] = <<"forwarding", 0>>
  BY <1>3, <1>e, <1>m DEF ForwardAt
<1>13. \A i \in 1 .. 3 : SetupCalls[ForwardAt + i] = Rules[i]
  BY <1>e, <1>m DEF ForwardAt
<1> QED BY <1>e, <1>m, <1>10, <1>11, <1>12, <1>13

(* The rules of a stage.                                                   *)
LEMMA RuleSet == ToSet(Rules) = {Rules[1], Rules[2], Rules[3]}
BY DEF ToSet, Rules

(* Only setup's rules come after the sysctl, only the bridge and the taps  *)
(* before it, and every link and rule of the stage is among the calls.     *)
LEMMA SetupKinds ==
  /\ \A n \in 1 .. ForwardAt : SetupCalls[n] \notin ToSet(Rules)
  /\ \A n \in 1 .. ForwardAt :
       SetupCalls[n] \in Made => SetupCalls[n] \in {Bridge} \cup Taps
  /\ \A n \in 1 .. ForwardAt - 1 : SetupCalls[n] # <<"forwarding", 0>>
  /\ SetupCalls[2] \notin Made /\ SetupCalls[3] \notin Made
  /\ \A i \in 1 .. 3 : /\ SetupCalls[ForwardAt + i] \in ToSet(Rules)
                       /\ SetupCalls[ForwardAt + i] # <<"forwarding", 0>>
  /\ \A call \in Made : \E n \in 1 .. Len(SetupCalls) : SetupCalls[n] = call
<1> DEFINE Names == {"bridge", "address", "up", "tap", "master", "tap_up"}
<1>0. Sessions \in Nat \ {0}
  BY NetworkAssumption
<1>1. ASSUME NEW n \in 1 .. ForwardAt - 1
      PROVE  SetupCalls[n][1] \in Names
  <2>1. CASE n <= 3
    <3>1. n \in {1, 2, 3}  BY <2>1
    <3> QED BY <3>1, SetupFacts DEF Bridge
  <2>2. CASE n > 3
    <3> DEFINE k == n - 3
    <3>1. k \in 1 .. 3 * Sessions /\ n = k + 3 /\ (k - 1) % 3 \in 0 .. 2
      BY <1>0, <2>2 DEF ForwardAt
    <3> HIDE DEF k
    <3>2. SetupCalls[n] = <<TapCalls[1 + ((k - 1) % 3)], 1 + ((k - 1) \div 3)>>
      BY <3>1, SetupFacts
    <3>3. SetupCalls[n][1] = TapCalls[1 + ((k - 1) % 3)]
      BY <3>2
    <3>4. 1 + ((k - 1) % 3) \in {1, 2, 3}
      BY <3>1
    <3> QED BY <3>3, <3>4 DEF TapCalls
  <2> QED BY <2>1, <2>2, <1>0 DEF ForwardAt
<1>2. \A i \in 1 .. 3 : Rules[i][1] \in {"nat", "forward_out", "forward_in"}
  BY DEF Rules
<1>3. ASSUME NEW n \in 1 .. ForwardAt - 1
      PROVE  SetupCalls[n] \notin ToSet(Rules) /\ SetupCalls[n] # <<"forwarding", 0>>
  <2>1. \A i \in 1 .. 3 : Rules[i][1] \notin Names
    BY <1>2
  <2>2. <<"forwarding", 0>>[1] \notin Names
    OBVIOUS
  <2> QED BY <1>1, <2>1, <2>2, RuleSet
<1>4. \A i \in 1 .. 3 : /\ SetupCalls[ForwardAt + i] \in ToSet(Rules)
                       /\ SetupCalls[ForwardAt + i] # <<"forwarding", 0>>
  <2>1. \A i \in 1 .. 3 : SetupCalls[ForwardAt + i] = Rules[i]
    BY SetupFacts
  <2>2. \A i \in 1 .. 3 : Rules[i] \in ToSet(Rules)
    BY RuleSet
  <2>3. \A i \in 1 .. 3 : Rules[i] # <<"forwarding", 0>>
    BY DEF Rules
  <2> QED BY <2>1, <2>2, <2>3
<1>5. SetupCalls[ForwardAt] \notin Made
  <2>1. SetupCalls[ForwardAt] = <<"forwarding", 0>>
    BY SetupFacts
  <2> QED BY <2>1, RuleSet DEF Made, Rules, Bridge, Tap
<1>6. SetupCalls[2] \notin Made /\ SetupCalls[3] \notin Made
  <2>1. SetupCalls[2] = <<"address", 0>> /\ SetupCalls[3] = <<"up", 0>>
    BY SetupFacts
  <2> QED BY <2>1, RuleSet DEF Made, Rules, Bridge, Tap
<1>7. \A n \in 1 .. ForwardAt : n \in 1 .. ForwardAt - 1 \/ n = ForwardAt
  BY <1>0 DEF ForwardAt
<1>8. SetupCalls[ForwardAt] \notin ToSet(Rules)
  BY <1>5 DEF Made
<1>9. ASSUME NEW call \in Made
      PROVE  \E n \in 1 .. Len(SetupCalls) : SetupCalls[n] = call
  <2>1. CASE call = Bridge
    <3>1. 1 \in 1 .. Len(SetupCalls)  BY <1>0, SetupFacts
    <3> QED BY <2>1, <3>1, SetupFacts
  <2>2. ASSUME NEW s \in 1 .. Sessions, call = Tap(s)
        PROVE  \E n \in 1 .. Len(SetupCalls) : SetupCalls[n] = call
    <3> DEFINE k == 3 * s - 2
    <3>1. /\ k \in 1 .. 3 * Sessions /\ (k - 1) % 3 = 0 /\ (k - 1) \div 3 = s - 1
          /\ k + 3 \in 1 .. 3 * Sessions + 7
      BY <1>0, <2>2
    <3> HIDE DEF k
    <3>2. SetupCalls[k + 3] = <<TapCalls[1 + ((k - 1) % 3)], 1 + ((k - 1) \div 3)>>
      BY <3>1, SetupFacts
    <3>3. SetupCalls[k + 3] = <<TapCalls[1], 1 + (s - 1)>>
      BY <3>1, <3>2
    <3>4. TapCalls[1] = "tap" /\ 1 + (s - 1) = s
      BY DEF TapCalls
    <3> QED BY <3>1, <3>3, <3>4, <2>2, SetupFacts DEF Tap
  <2>3. ASSUME NEW i \in 1 .. 3, call = Rules[i]
        PROVE  \E n \in 1 .. Len(SetupCalls) : SetupCalls[n] = call
    <3>1. ForwardAt + i \in 1 .. Len(SetupCalls)
      BY <1>0, SetupFacts DEF ForwardAt
    <3> QED BY <2>3, <3>1, SetupFacts
  <2> QED BY <2>1, <2>2, <2>3, RuleSet DEF Made
<1>10. \A n \in 1 .. ForwardAt :
         SetupCalls[n] \in Made => SetupCalls[n] \in {Bridge} \cup Taps
  BY <1>3, <1>5, <1>7 DEF Made, Taps
<1> QED BY <1>3, <1>4, <1>6, <1>7, <1>8, <1>9, <1>10

(* What close looks for, by the rules that were added: everything of the   *)
(* stage, and the sysctl at the end.                                       *)
LEMMA CloseFacts ==
  ASSUME rules \in RulesSoFar
  PROVE  /\ Len(CloseCalls) \in Nat \ {0}
         /\ CloseCalls[Len(CloseCalls)] = <<"forwarding", 0>>
         /\ \A call \in {Bridge} \cup Taps \cup ToSet(rules) :
              \E n \in 1 .. Len(CloseCalls) : CloseCalls[n] = call
         /\ <<"forwarding", 0>> \notin {Bridge} \cup Taps \cup ToSet(rules)
<1> DEFINE End == <<Bridge, <<"forwarding", 0>>>>
           Links == [s \in 1 .. Sessions |-> Tap(s)]
           S == Taps \cup ToSet(rules) \cup {End[1], End[2]}
<1>0. Sessions \in Nat \ {0}
  BY NetworkAssumption
<1>1. /\ Reverse(rules) \in Seq(ToSet(rules))
      /\ Len(Reverse(rules)) \in Nat
      /\ \A call \in ToSet(rules) :
           \E n \in 1 .. Len(Reverse(rules)) : Reverse(rules)[n] = call
  <2>1. rules = <<>> \/ rules = <<Rules[1]>> \/ rules = <<Rules[1], Rules[2]>>
        \/ rules = <<Rules[1], Rules[2], Rules[3]>>
    BY DEF RulesSoFar
  <2>2. Len(rules) \in Nat /\ DOMAIN rules = 1 .. Len(rules)
    <3> DEFINE T == {Rules[1], Rules[2], Rules[3]}
    <3>1. ASSUME NEW a \in T, NEW b \in T, NEW c \in T
          PROVE  {<<>>, <<a>>, <<a, b>>, <<a, b, c>>} \subseteq Seq(T)
      <4> HIDE DEF T
      <4> QED OBVIOUS
    <3>2. Rules[1] \in T /\ Rules[2] \in T /\ Rules[3] \in T
      OBVIOUS
    <3> HIDE DEF T
    <3>3. rules \in Seq(T)
      BY <2>1, <3>1, <3>2
    <3> QED BY <3>3, LenProperties
  <2>3. \A n \in 1 .. Len(rules) : rules[n] \in ToSet(rules)
    BY <2>2 DEF ToSet
  <2>4. /\ Reverse(rules) \in [1 .. Len(rules) -> ToSet(rules)]
        /\ \A n \in 1 .. Len(rules) : Reverse(rules)[n] = rules[(Len(rules) - n) + 1]
    BY <2>2, <2>3 DEF Reverse
  <2>5. Reverse(rules) \in Seq(ToSet(rules)) /\ Len(Reverse(rules)) = Len(rules)
    BY <2>2, <2>4
  <2>6. ASSUME NEW m \in 1 .. Len(rules)
        PROVE  \E n \in 1 .. Len(rules) : Reverse(rules)[n] = rules[m]
    <3>1. /\ (Len(rules) - m) + 1 \in 1 .. Len(rules)
          /\ (Len(rules) - ((Len(rules) - m) + 1)) + 1 = m
      BY <2>2
    <3> QED BY <3>1, <2>4
  <2> QED BY <2>2, <2>5, <2>6 DEF ToSet
<1>2. /\ Links \in Seq(Taps) /\ Len(Links) = Sessions
      /\ \A call \in Taps : \E n \in 1 .. Sessions : Links[n] = call
  <2>1. Links \in [1 .. Sessions -> Taps]
    BY DEF Taps
  <2>2. \A call \in Taps : \E n \in 1 .. Sessions : Links[n] = call
    BY DEF Taps
  <2> HIDE DEF Links
  <2> QED BY <2>1, <2>2, <1>0
<1>3. End \in Seq({End[1], End[2]}) /\ Len(End) = 2
      /\ End[1] = Bridge /\ End[2] = <<"forwarding", 0>>
  OBVIOUS
<1>4. /\ Reverse(rules) \in Seq(S) /\ Links \in Seq(S) /\ End \in Seq(S)
  <2> HIDE DEF Links, End
  <2> QED BY <1>1, <1>2, <1>3, SeqMonotonic
<1>5. CloseCalls = (Reverse(rules) \o Links) \o End
  BY DEF CloseCalls
<1> HIDE DEF Links, End, S
<1>6. PICK body \in Seq(S) : /\ body = Reverse(rules) \o Links
                             /\ Joins(Reverse(rules), Links, body)
  BY <1>4, Concatenated
<1>7. Joins(body, End, CloseCalls)
  BY <1>4, <1>5, <1>6, Concatenated
<1>8. /\ Len(CloseCalls) = Len(Reverse(rules)) + Sessions + 2
      /\ \A n \in 1 .. Len(Reverse(rules)) : CloseCalls[n] = Reverse(rules)[n]
      /\ \A n \in 1 .. Sessions : CloseCalls[Len(Reverse(rules)) + n] = Links[n]
      /\ \A n \in 1 .. 2 : CloseCalls[Len(Reverse(rules)) + Sessions + n] = End[n]
  <2>1. Len(Links) = Sessions /\ Len(End) = 2 /\ Len(Reverse(rules)) \in Nat
    BY <1>1, <1>2, <1>3
  <2> DEFINE r == Len(Reverse(rules))
             backwards == Reverse(rules)
  <2>2. Joins(backwards, Links, body) /\ Joins(body, End, CloseCalls) /\ r \in Nat
        /\ r = Len(backwards)
    BY <1>6, <1>7, <2>1
  <2> HIDE DEF r, backwards
  <2>3. /\ Len(CloseCalls) = r + Sessions + 2
        /\ \A n \in 1 .. r : CloseCalls[n] = backwards[n]
        /\ \A n \in 1 .. Sessions : CloseCalls[r + n] = Links[n]
        /\ \A n \in 1 .. 2 : CloseCalls[r + Sessions + n] = End[n]
    <3>1. /\ Len(body) = r + Sessions
          /\ \A n \in 1 .. r : body[n] = backwards[n]
          /\ \A n \in 1 .. Sessions : body[r + n] = Links[n]
      BY <2>1, <2>2 DEF Joins
    <3>2. /\ Len(CloseCalls) = r + Sessions + 2
          /\ \A n \in 1 .. r + Sessions : CloseCalls[n] = body[n]
          /\ \A n \in 1 .. 2 : CloseCalls[r + Sessions + n] = End[n]
      BY <2>1, <2>2, <3>1, <1>0 DEF Joins
    <3>3. ASSUME NEW n \in 1 .. r  PROVE CloseCalls[n] = backwards[n]
      <4>1. n \in 1 .. r + Sessions
        BY <2>2, <1>0
      <4> QED BY <3>1, <3>2, <4>1
    <3>4. ASSUME NEW n \in 1 .. Sessions  PROVE CloseCalls[r + n] = Links[n]
      <4>1. r + n \in 1 .. r + Sessions
        BY <2>2, <1>0
      <4> QED BY <3>1, <3>2, <4>1
    <3> QED BY <3>2, <3>3, <3>4
  <2> QED BY <2>3 DEF r, backwards
<1>9. Len(CloseCalls) \in Nat \ {0}
      /\ CloseCalls[Len(CloseCalls)] = <<"forwarding", 0>>
  BY <1>0, <1>1, <1>3, <1>8
<1>10. ASSUME NEW call \in {Bridge} \cup Taps \cup ToSet(rules)
       PROVE  \E n \in 1 .. Len(CloseCalls) : CloseCalls[n] = call
  <2>0. /\ 1 .. Len(Reverse(rules)) \subseteq 1 .. Len(CloseCalls)
        /\ \A n \in 1 .. Sessions : Len(Reverse(rules)) + n \in 1 .. Len(CloseCalls)
        /\ Len(Reverse(rules)) + Sessions + 1 \in 1 .. Len(CloseCalls)
    BY <1>0, <1>1, <1>8
  <2>1. CASE call = Bridge
    BY <2>0, <2>1, <1>3, <1>8
  <2>2. CASE call \in Taps
    BY <2>0, <2>2, <1>2, <1>8
  <2>3. CASE call \in ToSet(rules)
    BY <2>0, <2>3, <1>1, <1>8
  <2> QED BY <2>1, <2>2, <2>3
<1>11. <<"forwarding", 0>> \notin {Bridge} \cup Taps \cup ToSet(rules)
  <2>1. \A i \in 1 .. 3 : Rules[i] # <<"forwarding", 0>>
    BY DEF Rules
  <2>2. ToSet(rules) \subseteq {Rules[1], Rules[2], Rules[3]}
    <3>1. ASSUME NEW a, NEW b, NEW c
          PROVE  {ToSet(<<>>), ToSet(<<a>>), ToSet(<<a, b>>), ToSet(<<a, b, c>>)}
                   \subseteq SUBSET {a, b, c}
      <4>1. ToSet(<<>>) \in SUBSET {a, b, c} /\ ToSet(<<a>>) \in SUBSET {a, b, c}
        BY DEF ToSet
      <4>2. ToSet(<<a, b>>) \in SUBSET {a, b, c}
        BY DEF ToSet
      <4>3. ToSet(<<a, b, c>>) \in SUBSET {a, b, c}
        BY DEF ToSet
      <4> QED BY <4>1, <4>2, <4>3
    <3> QED BY <3>1 DEF RulesSoFar
  <2> QED BY <2>1, <2>2 DEF Taps, Tap, Bridge
<1> QED BY <1>9, <1>10, <1>11

(* Adding the next rule.                                                   *)
LEMMA RulesGrow ==
  ASSUME NEW i \in 1 .. 3, rules \in RulesSoFar, Len(rules) = i - 1
  PROVE  LET more == Append(rules, Rules[i])
         IN more \in RulesSoFar /\ Len(more) = i /\ ToSet(more) = ToSet(rules) \cup {Rules[i]}
<1> DEFINE a == Rules[1]
           b == Rules[2]
           c == Rules[3]
           T == {a, b, c}
<1>1. rules \in {<<>>, <<a>>, <<a, b>>, <<a, b, c>>}
  BY DEF RulesSoFar
<1>2. SUFFICES
        LET more == Append(rules, IF i = 1 THEN a ELSE IF i = 2 THEN b ELSE c)
        IN /\ more \in {<<>>, <<a>>, <<a, b>>, <<a, b, c>>} /\ Len(more) = i
           /\ ToSet(more) = ToSet(rules) \cup {IF i = 1 THEN a ELSE IF i = 2 THEN b ELSE c}
  <2>1. Rules[i] = IF i = 1 THEN a ELSE IF i = 2 THEN b ELSE c
    OBVIOUS
  <2> QED BY <2>1 DEF RulesSoFar
<1>3. a \in T /\ b \in T /\ c \in T
  OBVIOUS
<1> HIDE DEF a, b, c, T
<1>4. /\ <<>> \in Seq(T) /\ <<a>> \in Seq(T) /\ <<a, b>> \in Seq(T)
      /\ <<a, b, c>> \in Seq(T)
  BY <1>3
<1>5. Len(<<>>) = 0 /\ Len(<<a>>) = 1 /\ Len(<<a, b>>) = 2 /\ Len(<<a, b, c>>) = 3
  OBVIOUS
<1>6. Append(<<>>, a) = <<a>>
  BY <1>3, <1>4, <1>5, AppendProperties, SeqEqual
<1>7. Append(<<a>>, b) = <<a, b>>
  <2> DEFINE s == Append(<<a>>, b)
             t == <<a, b>>
  <2>1. /\ s \in Seq(T) /\ Len(s) = 2
        /\ \A k \in 1 .. 1 : s[k] = <<a>>[k]
        /\ s[2] = b
    BY <1>3, <1>4, <1>5, AppendProperties
  <2>2. t \in Seq(T) /\ Len(t) = 2 /\ t[1] = a /\ t[2] = b /\ <<a>>[1] = a
    BY <1>4
  <2>3. \A k \in 1 .. 2 : s[k] = t[k]
    BY <2>1, <2>2
  <2> HIDE DEF s, t
  <2>4. s = t
    BY <2>1, <2>2, <2>3, SeqEqual
  <2> QED BY <2>4 DEF s, t
<1>8. Append(<<a, b>>, c) = <<a, b, c>>
  <2> DEFINE s == Append(<<a, b>>, c)
             t == <<a, b, c>>
  <2>1. /\ s \in Seq(T) /\ Len(s) = 3
        /\ \A k \in 1 .. 2 : s[k] = <<a, b>>[k]
        /\ s[3] = c
    BY <1>3, <1>4, <1>5, AppendProperties
  <2>2. /\ t \in Seq(T) /\ Len(t) = 3 /\ t[1] = a /\ t[2] = b /\ t[3] = c
        /\ <<a, b>>[1] = a /\ <<a, b>>[2] = b
    BY <1>4
  <2>3. \A k \in 1 .. 3 : s[k] = t[k]
    BY <2>1, <2>2
  <2> HIDE DEF s, t
  <2>4. s = t
    BY <2>1, <2>2, <2>3, SeqEqual
  <2> QED BY <2>4 DEF s, t
<1>9. ToSet(<<>>) = {} /\ ToSet(<<a>>) = {a}
  BY DEF ToSet
<1>10. ToSet(<<a, b>>) = {a, b}
  BY DEF ToSet
<1>11. ToSet(<<a, b, c>>) = {a, b, c}
  BY DEF ToSet
<1>12. CASE i = 1
  <2>1. rules = <<>>  BY <1>1, <1>5, <1>12
  <2> QED BY <1>5, <1>6, <1>9, <1>12, <2>1
<1>13. CASE i = 2
  <2>1. rules = <<a>>  BY <1>1, <1>5, <1>13
  <2>2. Append(rules, IF i = 1 THEN a ELSE IF i = 2 THEN b ELSE c) = <<a, b>>
    BY <1>7, <1>13, <2>1
  <2>3. ToSet(rules) \cup {IF i = 1 THEN a ELSE IF i = 2 THEN b ELSE c} = {a, b}
    BY <1>9, <1>13, <2>1
  <2> QED BY <1>5, <1>10, <1>13, <2>2, <2>3
<1>14. CASE i = 3
  <2>1. rules = <<a, b>>  BY <1>1, <1>5, <1>14
  <2>2. Append(rules, IF i = 1 THEN a ELSE IF i = 2 THEN b ELSE c) = <<a, b, c>>
    BY <1>8, <1>14, <2>1
  <2>3. ToSet(rules) \cup {IF i = 1 THEN a ELSE IF i = 2 THEN b ELSE c} = {a, b, c}
    BY <1>10, <1>14, <2>1
  <2> QED BY <1>5, <1>11, <1>14, <2>2, <2>3
<1> QED BY <1>12, <1>13, <1>14

-----------------------------------------------------------------------------
(* The invariant.                                                          *)

(* It holds before the first stage.                                        *)
LEMMA NetworkInit == Init => NetworkInv
<1> SUFFICES ASSUME Init PROVE NetworkInv
  OBVIOUS
<1>1. NetworkTypeOK
  <2>1. forwarding \in BOOLEAN /\ original = forwarding /\ before = forwarding
    BY DEF Init
  <2>2. original \in BOOLEAN /\ before \in BOOLEAN
    BY <2>1, Zenon
  <2>3. raising = FALSE /\ ready = FALSE /\ kept = FALSE /\ pc = "init"
        /\ at = 1 /\ stage = 1
    BY DEF Init
  <2>4. raising \in BOOLEAN /\ ready \in BOOLEAN /\ kept \in BOOLEAN
    BY <2>3, Zenon
  <2>5. pc \in {"init", "setup", "up", "close", "over"} /\ at \in Nat \ {0}
        /\ stage \in Nat \ {0} /\ (pc # "init" => rules \in RulesSoFar)
    BY <2>3
  <2> QED BY <2>1, <2>2, <2>4, <2>5, Zenon DEF NetworkTypeOK
<1>2. MadeSoFar /\ PlaceOK /\ NetworkWhole /\ HostRestored
  BY DEF Init, PlaceOK, MadeSoFar, NetworkWhole, HostRestored
<1>3. CleanSoFar
  BY DEF Init, CleanSoFar
<1> QED BY <1>1, <1>2, <1>3 DEF NetworkInv

(* A successful call of setup.                                             *)
LEMMA SetupCallStep ==
  ASSUME NetworkInv, SetupCall
  PROVE  NetworkInv'
<1> DEFINE call == SetupCalls[at]
<1>0. /\ Sessions \in Nat \ {0} /\ at \in 1 .. Len(SetupCalls) /\ pc = "setup"
      /\ rules \in RulesSoFar /\ Len(SetupCalls) = ForwardAt + 3 /\ ForwardAt \in Nat
      /\ ForwardAt >= 7
  BY NetworkAssumption, SetupFacts
     DEF NetworkInv, NetworkTypeOK, MadeSoFar, SetupCall, ForwardAt
<1>1. /\ Rules' = Rules /\ SetupCalls' = SetupCalls /\ Made' = Made
      /\ ForwardAt' = ForwardAt /\ Taps' = Taps /\ Len(SetupCalls)' = Len(SetupCalls)
  <2>1. Rules' = Rules
    BY DEF SetupCall, Rules
  <2> QED BY <2>1 DEF SetupCalls, Made, TapCalls, ForwardAt, Taps, Bridge, Tap
<1>2. /\ rules' \in RulesSoFar
      /\ at <= ForwardAt => rules' = rules
      /\ at > ForwardAt => /\ Len(rules') = at - ForwardAt
                           /\ ToSet(rules') = ToSet(rules) \cup {call}
                           /\ forwarding
  <2>1. CASE at <= ForwardAt
    <3>1. at \in 1 .. ForwardAt
      BY <1>0, <2>1
    <3>2. call \notin ToSet(Rules)
      BY <3>1, SetupKinds
    <3>3. rules' = rules
      BY <3>2 DEF SetupCall
    <3> QED BY <3>3, <2>1, <1>0
  <2>2. CASE at > ForwardAt
    <3> DEFINE i == at - ForwardAt
    <3>1. i \in 1 .. 3 /\ at = ForwardAt + i
      BY <1>0, <2>2
    <3>2. Len(rules) = i - 1 /\ forwarding
      BY <1>0, <2>2, <3>1 DEF NetworkInv, MadeSoFar
    <3> HIDE DEF i
    <3>3. call = Rules[i] /\ call \in ToSet(Rules)
      BY <3>1, SetupFacts, SetupKinds
    <3>4. rules' = Append(rules, Rules[i])
      BY <3>3 DEF SetupCall
    <3>5. /\ rules' \in RulesSoFar /\ Len(rules') = i
          /\ ToSet(rules') = ToSet(rules) \cup {Rules[i]}
      BY <3>1, <3>2, <3>4, <1>0, RulesGrow
    <3>6. i = at - ForwardAt
      BY <3>1, <1>0
    <3> QED BY <3>2, <3>3, <3>5, <3>6, <2>2, <1>0
  <2> QED BY <2>1, <2>2, <1>0
<1>3. NetworkTypeOK'
  <2>1. /\ pc' \in {"setup", "up"} /\ at' \in Nat \ {0}
        /\ stage' = stage /\ raising' = raising /\ kept' = kept
        /\ original' = original /\ before' = before
    BY <1>0 DEF SetupCall
  <2>2. ready' \in BOOLEAN
    BY DEF SetupCall, ReadyAfter
  <2>3. forwarding' \in BOOLEAN
    BY DEF SetupCall
  <2>4. rules' \in RulesSoFar'
    BY <1>1, <1>2 DEF RulesSoFar
  <2> QED BY <2>1, <2>2, <2>3, <2>4 DEF NetworkInv, NetworkTypeOK
<1>4. /\ \A n \in 1 .. at : SetupCalls[n] \in Made => SetupCalls[n] \in host'
      /\ at >= ForwardAt => forwarding'
  <2>1. \A n \in 1 .. at - 1 : SetupCalls[n] \in Made => SetupCalls[n] \in host
    BY <1>0 DEF NetworkInv, MadeSoFar
  <2>2. host' = IF call \in Made THEN host \cup {call} ELSE host
    BY DEF SetupCall
  <2>3. \A n \in 1 .. at : n \in 1 .. at - 1 \/ n = at
    BY <1>0
  <2>4. forwarding' = (forwarding \/ call = <<"forwarding", 0>>)
    BY DEF SetupCall
  <2>5. at >= ForwardAt => forwarding'
    <3>1. CASE at = ForwardAt
      BY <3>1, <2>4, SetupFacts
    <3>2. CASE at > ForwardAt
      BY <3>2, <2>4, <1>2
    <3> QED BY <3>1, <3>2, <1>0
  <2> QED BY <2>1, <2>2, <2>3, <2>5
<1>5. MadeSoFar'
  <2>1. SUFFICES ASSUME pc' = "setup"
                 PROVE  /\ at' <= Len(SetupCalls)
                        /\ (ready' <=> ReadyAfter(at' - 1))
                        /\ Len(rules') = IF at' <= ForwardAt THEN 0 ELSE at' - ForwardAt - 1
                        /\ \A n \in 1 .. at' - 1 : SetupCalls[n] \in Made => SetupCalls[n] \in host'
                        /\ at' > ForwardAt => forwarding'
    BY <1>1 DEF MadeSoFar, ReadyAfter
  <2>2. at' = at + 1 /\ at' <= Len(SetupCalls) /\ ready' = ReadyAfter(at)
    BY <1>0, <2>1 DEF SetupCall
  <2>3. at <= ForwardAt => Len(rules) = 0
    BY <1>0 DEF NetworkInv, MadeSoFar
  <2>4. Len(rules') = IF at' <= ForwardAt THEN 0 ELSE at' - ForwardAt - 1
    BY <1>0, <1>2, <2>2, <2>3
  <2>5. at' - 1 = at
    BY <1>0, <2>2
  <2>6. at' > ForwardAt => forwarding'
    BY <1>0, <1>4, <2>2
  <2> QED BY <2>2, <2>4, <2>5, <2>6, <1>4
<1>6. NetworkWhole'
  <2>1. SUFFICES ASSUME pc' = "up"
                 PROVE  Made \subseteq host' /\ forwarding'
    BY <1>1 DEF NetworkWhole
  <2>2. at = Len(SetupCalls)
    BY <1>0, <2>1 DEF SetupCall
  <2>3. Made \subseteq host'
    BY <2>2, <1>4, SetupKinds
  <2> QED BY <2>2, <2>3, <1>0, <1>4
<1>7. CleanSoFar'
  <2>1. SUFFICES ASSUME ~kept
                 PROVE  /\ before = original
                        /\ host' \subseteq {Bridge} \cup Taps \cup ToSet(rules')
                        /\ at' <= 3 /\ pc' = "setup" => host' \subseteq {Bridge}
                        /\ at' <= ForwardAt /\ pc' = "setup" => forwarding' = original
    BY <1>0, <1>1 DEF CleanSoFar, SetupCall, Bridge
  <2>2. /\ before = original
        /\ host \subseteq {Bridge} \cup Taps \cup ToSet(rules)
        /\ at <= 3 => host \subseteq {Bridge}
        /\ at <= ForwardAt => forwarding = original
    BY <1>0, <2>1 DEF NetworkInv, CleanSoFar
  <2>3. host' = IF call \in Made THEN host \cup {call} ELSE host
    BY DEF SetupCall
  <2>4. host' \subseteq {Bridge} \cup Taps \cup ToSet(rules')
    <3>1. CASE at <= ForwardAt
      <4>1. at \in 1 .. ForwardAt  BY <1>0, <3>1
      <4>2. call \in Made => call \in {Bridge} \cup Taps  BY <4>1, SetupKinds
      <4> QED BY <4>2, <3>1, <2>2, <2>3, <1>2
    <3>2. CASE at > ForwardAt
      BY <3>2, <2>2, <2>3, <1>2
    <3> QED BY <3>1, <3>2, <1>0
  <2>5. ASSUME at' <= 3, pc' = "setup"  PROVE host' \subseteq {Bridge}
    <3>1. at' = at + 1 /\ at \in {1, 2}
      BY <2>5, <1>0 DEF SetupCall
    <3>2. call = Bridge \/ call \notin Made
      BY <3>1, SetupFacts, SetupKinds
    <3> QED BY <3>1, <3>2, <2>2, <2>3
  <2>6. ASSUME at' <= ForwardAt, pc' = "setup"  PROVE forwarding' = original
    <3>1. at' = at + 1 /\ at \in 1 .. ForwardAt - 1 /\ at <= ForwardAt
      BY <2>6, <1>0 DEF SetupCall
    <3>2. call # <<"forwarding", 0>>
      BY <3>1, SetupKinds
    <3>3. forwarding' = forwarding
      BY <3>2 DEF SetupCall, NetworkInv, NetworkTypeOK
    <3> QED BY <3>1, <3>3, <2>2
  <2> QED BY <2>2, <2>4, <2>5, <2>6
<1>8. HostRestored' /\ PlaceOK'
  BY <1>0 DEF HostRestored, PlaceOK, SetupCall
<1> QED BY <1>3, <1>5, <1>6, <1>7, <1>8 DEF NetworkInv

(* What depends on the stage and the rules only is unchanged with them.    *)
LEMMA SameStage ==
  ASSUME UNCHANGED <<stage, rules>>
  PROVE  /\ Rules' = Rules /\ SetupCalls' = SetupCalls /\ Made' = Made
         /\ CloseCalls' = CloseCalls /\ RulesSoFar' = RulesSoFar
         /\ Len(SetupCalls)' = Len(SetupCalls) /\ Len(CloseCalls)' = Len(CloseCalls)
<1>1. Rules' = Rules
  BY DEF Rules
<1>2. CloseCalls' = CloseCalls
  BY DEF CloseCalls, Bridge, Tap
<1> QED BY <1>1, <1>2 DEF SetupCalls, Made, RulesSoFar, TapCalls, Bridge, Tap

(* __init__ takes note of the forwarding that it finds.                    *)
LEMMA ConstructStep ==
  ASSUME NetworkInv, Construct
  PROVE  NetworkInv'
<1>1. NetworkTypeOK'
  <2>1. /\ before' = forwarding /\ forwarding' = forwarding /\ original' = original
        /\ raising' = raising /\ kept' = kept /\ stage' = stage
        /\ ready' = FALSE /\ pc' = "setup" /\ at' = 1 /\ rules' = <<>>
    BY DEF Construct
  <2>2. before' \in BOOLEAN /\ ready' \in BOOLEAN
    BY <2>1, Zenon DEF NetworkInv, NetworkTypeOK
  <2>3. rules' \in RulesSoFar'
    BY <2>1 DEF RulesSoFar
  <2> QED BY <2>1, <2>2, <2>3 DEF NetworkInv, NetworkTypeOK
<1>2. MadeSoFar'
  <2>1. Len(SetupCalls)' >= 1 /\ ForwardAt \in Nat /\ ForwardAt >= 1 /\ ForwardAt' = ForwardAt
    <3>1. Rules' = Rules
      BY DEF Construct, Rules
    <3>2. SetupCalls' = SetupCalls
      BY <3>1 DEF SetupCalls, TapCalls, Bridge
    <3> QED BY <3>2, SetupFacts, NetworkAssumption DEF ForwardAt
  <2>2. pc' = "setup" /\ at' = 1 /\ ready' = FALSE /\ rules' = <<>>
    BY DEF Construct
  <2>3. ready' <=> ReadyAfter(at' - 1)
    <3>1. ~ReadyAfter(at' - 1)
      BY <2>2 DEF ReadyAfter
    <3> QED BY <2>2, <3>1, Zenon
  <2>4. Len(rules') = IF at' <= ForwardAt' THEN 0 ELSE at' - ForwardAt' - 1
    BY <2>1, <2>2
  <2>5. 1 .. at' - 1 = {} /\ ~(at' > ForwardAt') /\ at' <= Len(SetupCalls)'
    BY <2>1, <2>2, SetupFacts, NetworkAssumption
  <2> QED BY <2>3, <2>4, <2>5 DEF MadeSoFar, ReadyAfter
<1>3. CleanSoFar'
  BY DEF NetworkInv, CleanSoFar, Construct
<1>4. NetworkWhole' /\ HostRestored' /\ PlaceOK'
  BY DEF Construct, PlaceOK, NetworkWhole, HostRestored
<1> QED BY <1>1, <1>2, <1>3, <1>4 DEF NetworkInv

(* A call of setup fails: before the bridge is up nothing but the bridge   *)
(* is there, later close looks for all there is.                           *)
LEMMA SetupFailsStep ==
  ASSUME NetworkInv, SetupFails
  PROVE  NetworkInv'
<1>0. /\ pc = "setup" /\ pc' \in {"close", "over"} /\ at' = 1 /\ raising' = TRUE
      /\ (pc' = "close" <=> ready)
      /\ UNCHANGED <<host, forwarding, original, before, rules, ready, stage, kept>>
      /\ rules \in RulesSoFar
  BY DEF SetupFails, NetworkInv, NetworkTypeOK
<1>1. /\ CloseCalls' = CloseCalls /\ RulesSoFar' = RulesSoFar
      /\ Len(CloseCalls)' = Len(CloseCalls)
  BY <1>0, SameStage
<1>2. NetworkTypeOK'
  <2>1. raising' \in BOOLEAN
    BY <1>0, Zenon
  <2> QED BY <2>1, <1>0, <1>1 DEF NetworkInv, NetworkTypeOK
<1>3. MadeSoFar' /\ NetworkWhole'
  BY <1>0 DEF MadeSoFar, NetworkWhole
<1>4. PlaceOK'
  BY <1>0, <1>1, CloseFacts DEF PlaceOK
<1>5. ASSUME ~kept
      PROVE  /\ before = original
             /\ host \subseteq {Bridge} \cup Taps \cup ToSet(rules)
             /\ ~ready => /\ host \subseteq {Bridge} /\ forwarding = original
  <2>1. ~ready => at <= 3
    <3>1. ~ready => ~ReadyAfter(at - 1)
      BY <1>0 DEF NetworkInv, MadeSoFar
    <3> QED BY <3>1 DEF NetworkInv, NetworkTypeOK, ReadyAfter
  <2>2. at <= 3 => at <= ForwardAt
    BY NetworkAssumption DEF ForwardAt, NetworkInv, NetworkTypeOK
  <2> QED BY <2>1, <2>2, <1>0, <1>5 DEF NetworkInv, CleanSoFar
<1>6. {Bridge} \cup Taps \cup ToSet(rules) \subseteq {CloseCalls[n] : n \in 1 .. Len(CloseCalls)}
  BY <1>0, CloseFacts
<1>7. CleanSoFar'
  BY <1>0, <1>1, <1>5, <1>6 DEF CleanSoFar
<1>8. HostRestored'
  BY <1>0, <1>5 DEF HostRestored, Bridge
<1> QED BY <1>2, <1>3, <1>4, <1>7, <1>8 DEF NetworkInv

(* The stage is over.                                                      *)
LEMMA CloseStep ==
  ASSUME NetworkInv, Close
  PROVE  NetworkInv'
<1>0. /\ pc = "up" /\ pc' = "close" /\ at = 1 /\ rules \in RulesSoFar
      /\ UNCHANGED <<host, forwarding, original, before, rules, ready, at, raising, stage, kept>>
  BY DEF Close, NetworkInv, PlaceOK, NetworkTypeOK
<1>1. /\ CloseCalls' = CloseCalls /\ RulesSoFar' = RulesSoFar
      /\ Len(CloseCalls)' = Len(CloseCalls)
  BY <1>0, SameStage
<1>2. NetworkTypeOK'
  BY <1>0, <1>1 DEF NetworkInv, NetworkTypeOK
<1>3. {Bridge} \cup Taps \cup ToSet(rules) \subseteq {CloseCalls[n] : n \in 1 .. Len(CloseCalls)}
  BY <1>0, CloseFacts
<1>4. CleanSoFar'
  BY <1>0, <1>1, <1>3 DEF NetworkInv, CleanSoFar
<1>5. MadeSoFar' /\ NetworkWhole' /\ HostRestored' /\ PlaceOK'
  BY <1>0, <1>1, CloseFacts DEF PlaceOK, MadeSoFar, NetworkWhole, HostRestored
<1> QED BY <1>2, <1>4, <1>5 DEF NetworkInv

(* What any call of close does to the place and the stage.                 *)
LEMMA EndCloseFacts ==
  ASSUME NetworkInv, pc = "close", EndClose,
         UNCHANGED <<original, before, rules, raising>>,
         forwarding' \in BOOLEAN, kept' \in BOOLEAN
  PROVE  /\ NetworkTypeOK' /\ PlaceOK' /\ MadeSoFar' /\ NetworkWhole'
         /\ at < Len(CloseCalls) => /\ pc' = "close" /\ at' = at + 1
                                   /\ UNCHANGED stage
         /\ at >= Len(CloseCalls) => /\ at = Len(CloseCalls)
                                    /\ pc' \in {"init", "over"}
<1>0. /\ rules \in RulesSoFar /\ at \in Nat \ {0} /\ at <= Len(CloseCalls)
      /\ stage \in Nat \ {0} /\ ready \in BOOLEAN
  BY DEF NetworkInv, NetworkTypeOK, PlaceOK
<1>1. Len(CloseCalls) \in Nat \ {0}
  BY <1>0, CloseFacts
<1>2. CASE at < Len(CloseCalls)
  <2>1. /\ pc' = "close" /\ at' = at + 1 /\ stage' = stage /\ ready' = ready
    BY <1>2 DEF EndClose
  <2>2. RulesSoFar' = RulesSoFar /\ Len(CloseCalls)' = Len(CloseCalls)
    BY <2>1, SameStage
  <2>3. NetworkTypeOK'
    BY <1>0, <2>1, <2>2 DEF NetworkInv, NetworkTypeOK
  <2>4. PlaceOK' /\ MadeSoFar' /\ NetworkWhole'
    BY <1>0, <1>1, <1>2, <2>1, <2>2 DEF PlaceOK, MadeSoFar, NetworkWhole
  <2> QED BY <1>0, <1>1, <1>2, <2>1, <2>3, <2>4
<1>3. CASE ~(at < Len(CloseCalls))
  <2>1. /\ at' = 1 /\ ready' = FALSE
        /\ \/ pc' = "over" /\ stage' = stage
           \/ pc' = "init" /\ stage' = stage + 1
    BY <1>3 DEF EndClose
  <2>2. stage' = stage => RulesSoFar' = RulesSoFar
    BY SameStage
  <2>3. ready' \in BOOLEAN
    BY <2>1, Zenon
  <2>4. NetworkTypeOK'
    BY <1>0, <2>1, <2>2, <2>3 DEF NetworkInv, NetworkTypeOK
  <2>5. PlaceOK' /\ MadeSoFar' /\ NetworkWhole'
    BY <2>1 DEF PlaceOK, MadeSoFar, NetworkWhole
  <2> QED BY <1>0, <1>1, <1>3, <2>1, <2>4, <2>5
<1> QED BY <1>2, <1>3

(* A call of close deletes what it names; after the last one, which puts   *)
(* forwarding back, nothing is left to delete.                             *)
LEMMA CloseCallStep ==
  ASSUME NetworkInv, CloseCall
  PROVE  NetworkInv'
<1> DEFINE call == CloseCalls[at]
<1>0. /\ pc = "close" /\ EndClose /\ host' = host \ {call}
      /\ forwarding' = IF call = <<"forwarding", 0>> THEN before ELSE forwarding
      /\ UNCHANGED <<original, before, rules, raising, kept>>
      /\ rules \in RulesSoFar /\ at \in Nat \ {0} /\ at <= Len(CloseCalls)
  BY DEF CloseCall, NetworkInv, NetworkTypeOK, PlaceOK
<1>1. forwarding' \in BOOLEAN /\ kept' \in BOOLEAN
  <2>1. CASE call = <<"forwarding", 0>>
    BY <1>0, <2>1 DEF NetworkInv, NetworkTypeOK
  <2>2. CASE call # <<"forwarding", 0>>
    BY <1>0, <2>2 DEF NetworkInv, NetworkTypeOK
  <2> QED BY <2>1, <2>2
<1>2. /\ NetworkTypeOK' /\ PlaceOK' /\ MadeSoFar' /\ NetworkWhole'
      /\ at < Len(CloseCalls) => /\ pc' = "close" /\ at' = at + 1
                                /\ UNCHANGED stage
      /\ at >= Len(CloseCalls) => /\ at = Len(CloseCalls)
                                 /\ pc' \in {"init", "over"}
  BY <1>0, <1>1, EndCloseFacts
<1>3. Len(CloseCalls) \in Nat \ {0} /\ CloseCalls[Len(CloseCalls)] = <<"forwarding", 0>>
  BY <1>0, CloseFacts
<1>4. ASSUME ~kept
      PROVE  /\ host \subseteq {CloseCalls[n] : n \in at .. Len(CloseCalls)}
             /\ before = original
  BY <1>0, <1>4 DEF NetworkInv, CleanSoFar
<1>5. CASE at < Len(CloseCalls)
  <2>1. /\ pc' = "close" /\ at' = at + 1
        /\ CloseCalls' = CloseCalls /\ Len(CloseCalls)' = Len(CloseCalls)
    BY <1>0, <1>2, <1>5, SameStage
  <2>2. \A n \in at .. Len(CloseCalls) : n = at \/ n \in at + 1 .. Len(CloseCalls)
    BY <1>0, <1>3
  <2>3. ~kept => host' \subseteq {CloseCalls[n] : n \in at + 1 .. Len(CloseCalls)}
    BY <1>0, <1>4, <2>2
  <2>4. CleanSoFar'
    BY <1>0, <1>4, <2>1, <2>3 DEF CleanSoFar
  <2>5. HostRestored'
    BY <2>1 DEF HostRestored
  <2> QED BY <1>2, <2>4, <2>5 DEF NetworkInv
<1>6. CASE ~(at < Len(CloseCalls))
  <2>1. at = Len(CloseCalls) /\ pc' \in {"init", "over"}
    BY <1>0, <1>2, <1>3, <1>6
  <2>2. call = <<"forwarding", 0>> /\ forwarding' = before
    BY <1>0, <1>3, <2>1
  <2>3. at .. Len(CloseCalls) = {at}
    BY <2>1, <1>0
  <2>4. ~kept => host' = {}
    BY <1>0, <1>4, <2>3
  <2>5. ~kept => forwarding' = original'
    BY <1>0, <1>4, <2>2
  <2>6. CleanSoFar' /\ HostRestored'
    BY <1>0, <2>1, <2>4, <2>5 DEF CleanSoFar, HostRestored
  <2> QED BY <1>2, <2>6 DEF NetworkInv
<1> QED BY <1>5, <1>6

(* A call of close fails, which is remembered.                             *)
LEMMA CloseCallFailsStep ==
  ASSUME NetworkInv, CloseCallFails
  PROVE  NetworkInv'
<1>0. /\ pc = "close" /\ EndClose /\ kept' = TRUE
      /\ UNCHANGED <<host, forwarding, original, before, rules, raising>>
  BY DEF CloseCallFails
<1>1. kept' \in BOOLEAN
  BY <1>0, Zenon
<1>2. forwarding' \in BOOLEAN
  BY <1>0 DEF NetworkInv, NetworkTypeOK
<1>3. NetworkTypeOK' /\ PlaceOK' /\ MadeSoFar' /\ NetworkWhole'
  BY <1>0, <1>1, <1>2, EndCloseFacts
<1>4. CleanSoFar' /\ HostRestored'
  BY <1>0 DEF CleanSoFar, HostRestored
<1> QED BY <1>3, <1>4 DEF NetworkInv

(* Every step keeps the invariant.                                         *)
LEMMA NetworkStep == NetworkInv /\ [Next]_vars => NetworkInv'
<1> SUFFICES ASSUME NetworkInv, [Next]_vars PROVE NetworkInv'
  OBVIOUS
<1>1. CASE Next
  BY <1>1, ConstructStep, SetupCallStep, SetupFailsStep, CloseStep, CloseCallStep,
     CloseCallFailsStep DEF Next
<1>2. CASE UNCHANGED vars
  <2>1. UNCHANGED <<host, forwarding, original, before, rules, ready, pc, at, raising,
                    stage, kept>>
    BY <1>2 DEF vars
  <2>2. /\ Rules' = Rules /\ SetupCalls' = SetupCalls /\ Made' = Made
        /\ CloseCalls' = CloseCalls /\ RulesSoFar' = RulesSoFar
        /\ Len(SetupCalls)' = Len(SetupCalls) /\ Len(CloseCalls)' = Len(CloseCalls)
    BY <2>1, SameStage
  <2>3. NetworkTypeOK' /\ PlaceOK'
    BY <2>1, <2>2 DEF NetworkInv, NetworkTypeOK, PlaceOK
  <2>4. MadeSoFar'
    BY <2>1, <2>2 DEF NetworkInv, MadeSoFar, ForwardAt, ReadyAfter
  <2>5. CleanSoFar'
    BY <2>1, <2>2 DEF NetworkInv, CleanSoFar, ForwardAt, Taps, Tap, Bridge
  <2>6. NetworkWhole' /\ HostRestored'
    BY <2>1, <2>2 DEF NetworkInv, NetworkWhole, HostRestored, Bridge
  <2> QED BY <2>3, <2>4, <2>5, <2>6 DEF NetworkInv
<1> QED BY <1>1, <1>2

(* The place in the list of calls tells what has been made or deleted.     *)
THEOREM NetworkInvariant == Spec => []NetworkInv
BY NetworkInit, NetworkStep, PTL DEF Spec

(* For any number of VMs, a stage whose setup came to its end has its      *)
(* bridge, all of its taps and rules, and forwarding, while its guests run.*)
THEOREM GuestsHaveNetwork == Spec => []NetworkWhole
<1>1. NetworkInv => NetworkWhole
  BY DEF NetworkInv
<1> QED BY <1>1, NetworkInvariant, PTL

(* For any number of VMs and stages, and wherever setup failed: as long as *)
(* no call of close failed, the process leaves the host as it found it, up *)
(* to a bridge that could not be brought up.                               *)
THEOREM HostIsRestored == Spec => []HostRestored
<1>1. NetworkInv => HostRestored
  BY DEF NetworkInv
<1> QED BY <1>1, NetworkInvariant, PTL
=============================================================================
