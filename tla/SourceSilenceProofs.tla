------------------------- MODULE SourceSilenceProofs -------------------------
(***************************************************************************)
(* The silence rule for any IGCL sources, any jitter of the ticks and any  *)
(* threshold, proved with TLAPS.                                           *)
(***************************************************************************)
EXTENDS SourceSilence, TLAPS

(***************************************************************************)
(* The positions and the keys of KeySeq correspond one to one.             *)
(***************************************************************************)
LEMMA Positions ==
  /\ Len(KeySeq) \in Nat /\ DOMAIN KeySeq = 1..Len(KeySeq)
  /\ \A i \in DOMAIN KeySeq : KeySeq[i] \in Keys
  /\ \A k \in Keys : \E i \in DOMAIN KeySeq : KeySeq[i] = k
BY KeysAssumption DEF Keys

(***************************************************************************)
(* The longest and the shortest gap bound every gap.                       *)
(***************************************************************************)
LEMMA GapBounds ==
  /\ Max(Gaps) \in Nat /\ Min(Gaps) \in Nat
  /\ \A g \in Gaps : Min(Gaps) <= g /\ g <= Max(Gaps)
<1> PICK shortest \in Gaps, longest \in Gaps :
      \A g \in Gaps : shortest <= g /\ g <= longest
  BY TimeAssumption
<1>1. Gaps \subseteq Nat
  BY TimeAssumption
<1>2. Max(Gaps) \in Gaps /\ \A g \in Gaps : Max(Gaps) >= g
  BY <1>1 DEF Max
<1>3. Min(Gaps) \in Gaps /\ \A g \in Gaps : Min(Gaps) =< g
  BY <1>1 DEF Min
<1> QED
  BY <1>1, <1>2, <1>3

(***************************************************************************)
(* What one part of a tick does to each key.                               *)
(***************************************************************************)
LEMMA CapType == ASSUME NEW n \in Nat, NEW b \in Nat PROVE Cap(n, b) \in 0..b
BY DEF Cap

(***************************************************************************)
(* Every variable keeps its type, and only tracked keys are silent.        *)
(***************************************************************************)
THEOREM TypeCorrect == Spec => []TypeOK
<1> USE DEF TypeOK
<1>1. Init => TypeOK
  BY Positions, TimeAssumption, BoundAssumption DEF Init
<1>2. TypeOK /\ [Next]_vars => TypeOK'
  <2> SUFFICES ASSUME TypeOK, [Next]_vars
               PROVE  TypeOK'
    OBVIOUS
  <2> USE BoundAssumption, TimeAssumption
  <2>1. ASSUME NEW gap \in Gaps, BeginTick(gap)
        PROVE  TypeOK'
    <3>1. age' \in [Keys -> 0..Threshold]
      <4>1. \A k \in Keys : age[k] + gap \in Nat /\ Threshold \in Nat
        BY TimeAssumption
      <4>2. \A k \in Keys : Cap(age[k] + gap, Threshold) \in 0..Threshold
        BY <4>1, CapType
      <4> QED
        BY <2>1, <4>2 DEF BeginTick
    <3>2. phase' \in {"before", "igcl"} /\ next' \in 1..(Len(KeySeq) + 1)
      BY <2>1, Positions DEF BeginTick
    <3> QED
      BY <2>1, <3>1, <3>2 DEF BeginTick
  <2>2. ASSUME NEW from, NEW to \in {"igcl", "idle"}, OtherSample(from, to)
        PROVE  TypeOK'
    BY <2>2 DEF OtherSample, Overdue, ReportSilent
  <2>3. CASE IgclSample
    <3>1. next \in DOMAIN KeySeq /\ KeySeq[next] \in Keys
      BY <2>3, Positions DEF IgclSample
    <3>2. next' \in 1..(Len(KeySeq) + 1)
      BY <2>3, <3>1, Positions DEF IgclSample
    <3>3. silent' \subseteq tracked' /\ tracked' \subseteq Keys
      BY <2>3, <3>1 DEF IgclSample, Overdue
    <3>4. age' \in [Keys -> 0..Threshold] /\ missed' \in [Keys -> 0..MissedCap]
      BY <2>3, <3>1 DEF IgclSample
    <3>5. balance' \in [Keys -> Int]
      BY <2>3 DEF IgclSample
    <3>6. noticed' \in [Keys -> 0..MissedCap]
      BY <2>3 DEF IgclSample, ReportSilent
    <3> QED
      BY <2>3, <3>2, <3>3, <3>4, <3>5, <3>6 DEF IgclSample
  <2>4. CASE IgclMiss
    <3>1. next \in DOMAIN KeySeq /\ KeySeq[next] \in Keys
      BY <2>4, Positions DEF IgclMiss
    <3>2. Cap(missed[KeySeq[next]] + 1, MissedCap) \in 0..MissedCap
      <4>1. missed[KeySeq[next]] + 1 \in Nat /\ MissedCap \in Nat
        BY <3>1
      <4> QED
        BY <4>1, CapType
    <3>3. missed' \in [Keys -> 0..MissedCap]
      <4>1. 0 \in 0..MissedCap
        OBVIOUS
      <4> QED
        BY <2>4, <3>1, <3>2, <4>1 DEF IgclMiss
    <3>4. next' \in 1..(Len(KeySeq) + 1)
      BY <2>4, <3>1, Positions DEF IgclMiss
    <3> QED
      BY <2>4, <3>3, <3>4 DEF IgclMiss
  <2>5. CASE IgclDone
    BY <2>5 DEF IgclDone
  <2>6. CASE UNCHANGED vars
    BY <2>6 DEF vars
  <2> QED
    BY <2>1, <2>2, <2>3, <2>4, <2>5, <2>6 DEF Next, Tick
<1> QED
  BY <1>1, <1>2, PTL DEF Spec

(***************************************************************************)
(* Reports and resumptions alternate: an episode is counted when a key     *)
(* becomes silent and the count is taken back when it stops being silent.  *)
(* A sample never finds its own key overdue.                               *)
(***************************************************************************)
LEMMA SampledIsNotOverdue ==
  ASSUME TypeOK, NEW k \in Keys, NEW among
  PROVE  k \notin Overdue(among, [age EXCEPT ![k] = 0])
BY DEF Overdue, TypeOK

THEOREM ReportsAlternate == Spec => []OneReportPerEpisode
<1>1. Init => OneReportPerEpisode
  BY DEF Init, OneReportPerEpisode
<1>2. TypeOK /\ OneReportPerEpisode /\ [Next]_vars => OneReportPerEpisode'
  <2> SUFFICES ASSUME TypeOK, OneReportPerEpisode, [Next]_vars, NEW j \in Keys
               PROVE  balance'[j] = IF j \in silent' THEN 1 ELSE 0
    BY DEF OneReportPerEpisode
  <2>0. balance[j] = IF j \in silent THEN 1 ELSE 0
    BY DEF OneReportPerEpisode
  <2>1. ASSUME NEW gap \in Gaps, BeginTick(gap)
        PROVE  balance' = balance /\ silent' = silent
    BY <2>1 DEF BeginTick
  <2>2. ASSUME NEW from, NEW to, OtherSample(from, to)
        PROVE  balance'[j] = IF j \in silent' THEN 1 ELSE 0
    BY <2>0, <2>2 DEF OtherSample, Overdue
  <2>3. CASE IgclSample
    <3> DEFINE k == KeySeq[next]
               late == Overdue(tracked \cup {k}, [age EXCEPT ![k] = 0])
    <3>1. k \in Keys
      BY <2>3, Positions DEF IgclSample
    <3>2. k \notin late
      BY <3>1, SampledIsNotOverdue
    <3>3. late \cap silent = {}
      BY DEF Overdue
    <3>4. silent' = (silent \ {k}) \cup late
      BY <2>3 DEF IgclSample
    <3>5. balance'[j] = IF j \in late THEN balance[j] + 1
                        ELSE IF j = k /\ k \in silent THEN balance[j] - 1
                        ELSE balance[j]
      BY <2>3 DEF IgclSample
    <3> HIDE DEF late, k
    <3> QED
      BY <2>0, <3>2, <3>3, <3>4, <3>5
  <2>4. CASE IgclMiss
    BY <2>0, <2>4 DEF IgclMiss
  <2>5. CASE IgclDone
    BY <2>0, <2>5 DEF IgclDone
  <2>6. CASE UNCHANGED vars
    BY <2>0, <2>6 DEF vars
  <2> QED
    BY <2>0, <2>1, <2>2, <2>3, <2>4, <2>5, <2>6 DEF Next, Tick
<1> QED
  BY <1>1, <1>2, TypeCorrect, PTL DEF Spec

(***************************************************************************)
(* How old a source can be.  Pending says whether the tick in progress     *)
(* still has to poll the i-th source: its gap is in the age and the poll   *)
(* not yet in the misses.                                                  *)
(***************************************************************************)
Pending(i) == IF phase = "before" \/ (phase = "igcl" /\ i >= next) THEN 1 ELSE 0

AgeAtMost ==
  \A i \in DOMAIN KeySeq :
    \/ missed[KeySeq[i]] = MissedCap
    \/ age[KeySeq[i]] <= (missed[KeySeq[i]] + Pending(i)) * Max(Gaps)

AgeAtLeast ==
  \A i \in DOMAIN KeySeq : KeySeq[i] \in tracked =>
    \/ age[KeySeq[i]] = Threshold
    \/ age[KeySeq[i]] >= (missed[KeySeq[i]] + Pending(i)) * Min(Gaps)

UntrackedIsNew == \A k \in Keys \ tracked : age[k] = 0 /\ missed[k] = 0

AgeInv ==
  /\ phase = "before" => next = 1
  /\ UntrackedIsNew /\ AgeAtMost /\ AgeAtLeast

LEMMA OneMore == ASSUME NEW n \in Nat, NEW g \in Nat PROVE (n + 1) * g = n * g + g
BY SMT

LEMMA Product == ASSUME NEW n \in Nat, NEW g \in Nat PROVE n * g \in Nat
BY SMT

LEMMA NoneYet == ASSUME NEW g \in Nat PROVE (0 + 0) * g = 0
BY SMT

(***************************************************************************)
(* A new tick adds a gap to every age and a pending poll to every source.  *)
(***************************************************************************)
LEMMA BeginTickAges ==
  ASSUME TypeOK, AgeInv, NEW gap \in Gaps, BeginTick(gap)
  PROVE  AgeInv'
<1> DEFINE hi == Max(Gaps)
           lo == Min(Gaps)
<1>1. hi \in Nat /\ lo \in Nat /\ gap \in Nat /\ lo <= gap /\ gap <= hi /\ Threshold \in Nat
  BY GapBounds, TimeAssumption
<1>2. UntrackedIsNew'
  BY DEF BeginTick, UntrackedIsNew, AgeInv
<1>3. ASSUME NEW i \in DOMAIN KeySeq
      PROVE  /\ KeySeq[i] \in Keys
             /\ Pending(i) = 0 /\ Pending(i)' = 1
             /\ missed[KeySeq[i]] \in Nat /\ missed'[KeySeq[i]] = missed[KeySeq[i]]
             /\ age[KeySeq[i]] \in 0..Threshold
             /\ age'[KeySeq[i]] = IF KeySeq[i] \in tracked
                                    THEN Cap(age[KeySeq[i]] + gap, Threshold) ELSE 0
  BY Positions DEF BeginTick, Pending, TypeOK
<1> HIDE DEF hi, lo
<1>4. ASSUME NEW i \in DOMAIN KeySeq, missed[KeySeq[i]] # MissedCap
      PROVE  age'[KeySeq[i]] <= (missed[KeySeq[i]] + 1) * hi
  <2> DEFINE n == missed[KeySeq[i]]
  <2>1. n \in Nat /\ age[KeySeq[i]] <= (n + 0) * hi
    BY <1>3, <1>4 DEF AgeInv, AgeAtMost, hi
  <2>2. n * hi \in Nat /\ (n + 1) * hi = n * hi + hi /\ n + 0 = n
    BY <1>1, <2>1, OneMore
  <2> HIDE DEF n
  <2>3. age'[KeySeq[i]] <= n * hi + hi
    BY <1>1, <1>3, <2>1, <2>2 DEF Cap
  <2> QED
    BY <2>2, <2>3 DEF n
<1>5. ASSUME NEW i \in DOMAIN KeySeq, KeySeq[i] \in tracked
      PROVE  \/ age'[KeySeq[i]] = Threshold
             \/ age'[KeySeq[i]] >= (missed[KeySeq[i]] + 1) * lo
  <2> DEFINE n == missed[KeySeq[i]]
  <2>1. n \in Nat /\ (age[KeySeq[i]] = Threshold \/ age[KeySeq[i]] >= (n + 0) * lo)
    BY <1>3, <1>5 DEF AgeInv, AgeAtLeast, lo
  <2>2. n * lo \in Nat /\ (n + 1) * lo = n * lo + lo /\ n + 0 = n
    BY <1>1, <2>1, OneMore
  <2> HIDE DEF n
  <2>3. age'[KeySeq[i]] = Threshold \/ age'[KeySeq[i]] >= n * lo + lo
    BY <1>1, <1>3, <1>5, <2>1, <2>2 DEF Cap
  <2> QED
    BY <2>2, <2>3 DEF n
<1>6. AgeAtMost'
  BY <1>3, <1>4 DEF AgeAtMost, hi
<1>7. AgeAtLeast'
  <2>1. tracked' = tracked
    BY DEF BeginTick
  <2> QED
    BY <1>3, <1>5, <2>1 DEF AgeAtLeast, lo
<1>8. phase' = "before" => next' = 1
  BY DEF BeginTick
<1> QED
  BY <1>2, <1>6, <1>7, <1>8 DEF AgeInv

(***************************************************************************)
(* A poll of the next source settles its pending poll: a sample starts the *)
(* age anew, a miss takes the gap over into the misses.  Other sources     *)
(* keep what they have.                                                    *)
(***************************************************************************)
LEMMA OthersPending ==
  ASSUME TypeOK, phase = "igcl", phase' = phase, next' = next + 1,
         NEW i \in DOMAIN KeySeq
  PROVE  Pending(i)' = IF i = next THEN 0 ELSE Pending(i)
BY Positions DEF TypeOK, Pending

LEMMA SampleAges ==
  ASSUME TypeOK, AgeInv, IgclSample
  PROVE  AgeInv'
<1> DEFINE k == KeySeq[next]
<1>1. /\ k \in Keys /\ next \in DOMAIN KeySeq
      /\ age' = [age EXCEPT ![k] = 0] /\ missed' = [missed EXCEPT ![k] = 0]
      /\ tracked' = tracked \cup {k}
      /\ phase = "igcl" /\ phase' = phase /\ next' = next + 1
  BY Positions DEF IgclSample
<1> HIDE DEF k
<1>2. \A j \in Keys : /\ age'[j] = IF j = k THEN 0 ELSE age[j]
                      /\ missed'[j] = IF j = k THEN 0 ELSE missed[j]
  BY <1>1 DEF TypeOK
<1>3. UntrackedIsNew'
  BY <1>1, <1>2 DEF UntrackedIsNew, AgeInv
<1>4. ASSUME NEW i \in DOMAIN KeySeq
      PROVE  /\ KeySeq[i] \in Keys /\ (KeySeq[i] = k <=> i = next)
             /\ Pending(i)' = IF i = next THEN 0 ELSE Pending(i)
  BY <1>1, OthersPending, Positions, KeysAssumption DEF k
<1>5. (0 + 0) * Max(Gaps) = 0 /\ (0 + 0) * Min(Gaps) = 0
  BY NoneYet, GapBounds
<1>6. AgeAtMost'
  <2> SUFFICES ASSUME NEW i \in DOMAIN KeySeq
               PROVE  \/ missed'[KeySeq[i]] = MissedCap
                      \/ age'[KeySeq[i]] <= (missed'[KeySeq[i]] + Pending(i)') * Max(Gaps)
    BY DEF AgeAtMost
  <2>1. CASE i = next
    <3>1. age'[KeySeq[i]] = 0 /\ missed'[KeySeq[i]] = 0 /\ Pending(i)' = 0
      BY <1>2, <1>4, <2>1
    <3> QED
      BY <1>5, <3>1
  <2>2. CASE i # next
    BY <1>2, <1>4, <2>2 DEF AgeInv, AgeAtMost
  <2> QED
    BY <2>1, <2>2
<1>7. AgeAtLeast'
  <2> SUFFICES ASSUME NEW i \in DOMAIN KeySeq, KeySeq[i] \in tracked'
               PROVE  \/ age'[KeySeq[i]] = Threshold
                      \/ age'[KeySeq[i]] >= (missed'[KeySeq[i]] + Pending(i)') * Min(Gaps)
    BY DEF AgeAtLeast
  <2>1. CASE i = next
    <3>1. age'[KeySeq[i]] = 0 /\ missed'[KeySeq[i]] = 0 /\ Pending(i)' = 0
      BY <1>2, <1>4, <2>1
    <3> QED
      BY <1>5, <3>1
  <2>2. CASE i # next
    BY <1>1, <1>2, <1>4, <2>2 DEF AgeInv, AgeAtLeast
  <2> QED
    BY <2>1, <2>2
<1> QED
  BY <1>1, <1>3, <1>6, <1>7 DEF AgeInv

LEMMA MissAges ==
  ASSUME TypeOK, AgeInv, IgclMiss
  PROVE  AgeInv'
<1> DEFINE k == KeySeq[next]
<1>1. /\ k \in Keys /\ next \in DOMAIN KeySeq
      /\ missed' = [missed EXCEPT ![k] = IF k \in tracked THEN Cap(missed[k] + 1, MissedCap) ELSE 0]
      /\ age' = age /\ tracked' = tracked
      /\ phase = "igcl" /\ phase' = phase /\ next' = next + 1
  BY Positions DEF IgclMiss
<1>2. Pending(next) = 1
  BY <1>1, Positions DEF Pending
<1> HIDE DEF k
<1>3. \A j \in Keys : missed'[j] = IF j # k THEN missed[j]
                                  ELSE IF k \in tracked THEN Cap(missed[k] + 1, MissedCap) ELSE 0
  BY <1>1 DEF TypeOK
<1>4. UntrackedIsNew'
  BY <1>1, <1>3 DEF UntrackedIsNew, AgeInv
<1>5. ASSUME NEW i \in DOMAIN KeySeq
      PROVE  /\ KeySeq[i] \in Keys /\ (KeySeq[i] = k <=> i = next)
             /\ Pending(i)' = IF i = next THEN 0 ELSE Pending(i)
  BY <1>1, OthersPending, Positions, KeysAssumption DEF k
<1>6. missed[k] \in Nat /\ missed[k] <= MissedCap /\ MissedCap \in Nat
  BY <1>1, BoundAssumption DEF TypeOK
<1>7. missed'[k] = MissedCap \/ missed'[k] + 0 = missed[k] + 1 \/ k \notin tracked
  BY <1>1, <1>3, <1>6 DEF Cap
<1>8. k \notin tracked => age[k] = 0 /\ missed'[k] = 0
  BY <1>1, <1>3 DEF AgeInv, UntrackedIsNew
<1>9. (0 + 0) * Max(Gaps) = 0 /\ (0 + 0) * Min(Gaps) = 0
  BY NoneYet, GapBounds
<1>10. AgeAtMost'
  <2> SUFFICES ASSUME NEW i \in DOMAIN KeySeq
               PROVE  \/ missed'[KeySeq[i]] = MissedCap
                      \/ age'[KeySeq[i]] <= (missed'[KeySeq[i]] + Pending(i)') * Max(Gaps)
    BY DEF AgeAtMost
  <2>1. CASE i = next
    <3>1. KeySeq[i] = k /\ Pending(i)' = 0 /\ Pending(i) = 1
      BY <1>2, <1>5, <2>1
    <3>2. missed[k] = MissedCap \/ age[k] <= (missed[k] + 1) * Max(Gaps)
      BY <3>1 DEF AgeInv, AgeAtMost
    <3>3. missed[k] = MissedCap /\ k \in tracked => missed'[k] = MissedCap
      BY <1>1, <1>3, <1>6 DEF Cap
    <3> QED
      BY <1>1, <1>7, <1>8, <1>9, <3>1, <3>2, <3>3
  <2>2. CASE i # next
    BY <1>1, <1>3, <1>5, <2>2 DEF AgeInv, AgeAtMost
  <2> QED
    BY <2>1, <2>2
<1>11. AgeAtLeast'
  <2> SUFFICES ASSUME NEW i \in DOMAIN KeySeq, KeySeq[i] \in tracked
               PROVE  \/ age'[KeySeq[i]] = Threshold
                      \/ age'[KeySeq[i]] >= (missed'[KeySeq[i]] + Pending(i)') * Min(Gaps)
    BY <1>1 DEF AgeAtLeast
  <2>1. CASE i = next
    <3>1. KeySeq[i] = k /\ Pending(i)' = 0 /\ Pending(i) = 1
      BY <1>2, <1>5, <2>1
    <3>2. age[k] = Threshold \/ age[k] >= (missed[k] + 1) * Min(Gaps)
      BY <3>1 DEF AgeInv, AgeAtLeast
    <3>3. /\ missed'[k] + 0 \in Nat /\ missed'[k] + 0 <= missed[k] + 1
          /\ missed[k] + 1 = missed'[k] + 0 \/ missed[k] = missed'[k] + 0
      BY <1>1, <1>3, <1>6, <3>1 DEF Cap
    <3>4. (missed'[k] + 0) * Min(Gaps) <= (missed[k] + 1) * Min(Gaps)
      BY <1>6, <3>3, OneMore, GapBounds
    <3>5. (missed'[k] + 0) * Min(Gaps) \in Nat /\ (missed[k] + 1) * Min(Gaps) \in Nat
      <4>1. missed'[k] + 0 \in Nat /\ missed[k] + 1 \in Nat /\ Min(Gaps) \in Nat
        BY <1>6, <3>3, GapBounds
      <4> QED
        BY <4>1, Product
    <3>6. age[k] \in 0..Threshold /\ Threshold \in Nat
      BY <1>1, TimeAssumption DEF TypeOK
    <3> QED
      BY <1>1, <3>1, <3>2, <3>4, <3>5, <3>6
  <2>2. CASE i # next
    BY <1>1, <1>3, <1>5, <2>2 DEF AgeInv, AgeAtLeast
  <2> QED
    BY <2>1, <2>2
<1> QED
  BY <1>1, <1>4, <1>10, <1>11 DEF AgeInv

(***************************************************************************)
(* The other parts of a tick touch neither ages nor misses.                *)
(***************************************************************************)
LEMMA SameAges ==
  ASSUME AgeInv, age' = age, missed' = missed, tracked' = tracked,
         phase' = "before" => next' = 1,
         \A i \in DOMAIN KeySeq : Pending(i)' = Pending(i)
  PROVE  AgeInv'
BY DEF AgeInv, UntrackedIsNew, AgeAtMost, AgeAtLeast

LEMMA Ages == Spec => []AgeInv
<1>1. Init => AgeInv
  <2> SUFFICES ASSUME Init PROVE AgeInv
    OBVIOUS
  <2>1. (0 + 0) * Max(Gaps) = 0
    BY NoneYet, GapBounds
  <2>2. \A i \in DOMAIN KeySeq : /\ age[KeySeq[i]] = 0 /\ missed[KeySeq[i]] = 0
                                /\ Pending(i) = 0
    BY Positions DEF Init, Pending
  <2>3. AgeAtMost
    BY <2>1, <2>2 DEF AgeAtMost
  <2> QED
    BY <2>3 DEF Init, AgeInv, AgeAtLeast, UntrackedIsNew
<1>2. TypeOK /\ AgeInv /\ [Next]_vars => AgeInv'
  <2> SUFFICES ASSUME TypeOK, AgeInv, [Next]_vars
               PROVE  AgeInv'
    OBVIOUS
  <2>0. phase = "before" => next = 1
    BY DEF AgeInv
  <2>1. ASSUME NEW gap \in Gaps, BeginTick(gap)
        PROVE  AgeInv'
    BY <2>1, BeginTickAges
  <2>2. CASE OtherSample("before", "igcl")
    <3>1. \A i \in DOMAIN KeySeq : Pending(i)' = Pending(i)
      BY <2>0, <2>2, Positions DEF OtherSample, Pending
    <3>2. age' = age /\ missed' = missed /\ tracked' = tracked /\ phase' # "before"
      BY <2>2 DEF OtherSample
    <3> QED
      BY <3>1, <3>2, SameAges
  <2>3. CASE IgclSample
    BY <2>3, SampleAges
  <2>4. CASE IgclMiss
    BY <2>4, MissAges
  <2>5. CASE IgclDone
    <3>1. \A i \in DOMAIN KeySeq : i < next
      BY <2>5, Positions DEF IgclDone, TypeOK
    <3>2. \A i \in DOMAIN KeySeq : Pending(i)' = Pending(i)
      BY <2>5, <3>1, Positions DEF IgclDone, Pending, TypeOK
    <3>3. age' = age /\ missed' = missed /\ tracked' = tracked /\ phase' # "before"
      BY <2>5 DEF IgclDone
    <3> QED
      BY <3>2, <3>3, SameAges
  <2>6. CASE OtherSample("after", "idle")
    <3>1. \A i \in DOMAIN KeySeq : Pending(i)' = Pending(i)
      BY <2>6 DEF OtherSample, Pending
    <3>2. age' = age /\ missed' = missed /\ tracked' = tracked /\ phase' # "before"
      BY <2>6 DEF OtherSample
    <3> QED
      BY <3>1, <3>2, SameAges
  <2>7. CASE UNCHANGED vars
    BY <2>7 DEF vars, AgeInv, UntrackedIsNew, AgeAtMost, AgeAtLeast, Pending
  <2> QED
    BY <2>1, <2>2, <2>3, <2>4, <2>5, <2>6, <2>7 DEF Next, Tick
<1> QED
  BY <1>1, <1>2, TypeCorrect, PTL DEF Spec

(***************************************************************************)
(* An overdue source missed enough polls to be overdue: its misses and the *)
(* tick in progress can account for the threshold.                         *)
(***************************************************************************)
LEMMA OverdueMissed ==
  ASSUME TypeOK, AgeInv, NEW k \in Keys, age[k] >= Threshold
  PROVE  (missed[k] + 1) * Max(Gaps) >= Threshold
<1> PICK i \in DOMAIN KeySeq : KeySeq[i] = k
  BY Positions
<1>1. /\ missed[k] \in Nat /\ Max(Gaps) \in Nat /\ age[k] \in Nat
      /\ Threshold \in Nat /\ MissedCap \in Nat
  BY GapBounds, TimeAssumption, BoundAssumption DEF TypeOK
<1>2. CASE missed[k] = MissedCap
  BY <1>2, CapAssumption
<1>3. CASE age[k] <= (missed[k] + Pending(i)) * Max(Gaps)
  <2>1. Pending(i) = 0 \/ Pending(i) = 1
    BY DEF Pending
  <2>2. missed[k] + 0 = missed[k]
    BY <1>1
  <2>3. (missed[k] + 1) * Max(Gaps) = missed[k] * Max(Gaps) + Max(Gaps)
    BY <1>1, OneMore
  <2>4. missed[k] * Max(Gaps) \in Nat
    BY <1>1, Product
  <2>5. age[k] <= missed[k] * Max(Gaps) + Max(Gaps)
    BY <1>1, <1>3, <2>1, <2>2, <2>3, <2>4
  <2> QED
    BY <1>1, <2>3, <2>4, <2>5
<1> QED
  BY <1>2, <1>3 DEF AgeInv, AgeAtMost

(***************************************************************************)
(* No source is reported before the polls it missed and the tick in        *)
(* progress can account for the threshold, for any jitter: by AgeInv, and  *)
(* because a flag is set only in a sweep that finds its entry overdue.     *)
(***************************************************************************)
THEOREM SilenceNotTooEarly == Spec => []NotTooEarly
<1>1. Init => NotTooEarly
  BY DEF Init, NotTooEarly
<1>2. TypeOK /\ AgeInv /\ NotTooEarly /\ [Next]_vars => NotTooEarly'
  <2> SUFFICES ASSUME TypeOK, AgeInv, NotTooEarly, [Next]_vars, NEW j \in silent'
               PROVE  (noticed'[j] + 1) * Max(Gaps) >= Threshold
    BY DEF NotTooEarly
  <2>0. j \in silent => (noticed[j] + 1) * Max(Gaps) >= Threshold
    BY DEF NotTooEarly
  <2>1. ASSUME NEW gap \in Gaps, BeginTick(gap)
        PROVE  noticed' = noticed /\ silent' = silent
    BY <2>1 DEF BeginTick
  <2>2. ASSUME NEW from, NEW to, OtherSample(from, to)
        PROVE  (noticed'[j] + 1) * Max(Gaps) >= Threshold
    <3>1. CASE j \in Overdue(tracked, age)
      <4>1. j \in Keys /\ age[j] >= Threshold
        BY <3>1 DEF Overdue, TypeOK
      <4>2. noticed'[j] = missed[j]
        BY <2>2, <3>1, <4>1 DEF OtherSample, ReportSilent
      <4> QED
        BY <4>1, <4>2, OverdueMissed
    <3>2. CASE j \notin Overdue(tracked, age)
      <4>1. j \in silent /\ j \in Keys
        BY <2>2, <3>2 DEF OtherSample, TypeOK
      <4>2. noticed'[j] = noticed[j]
        BY <2>2, <3>2, <4>1 DEF OtherSample, ReportSilent
      <4> QED
        BY <2>0, <4>1, <4>2
    <3> QED
      BY <3>1, <3>2
  <2>3. CASE IgclSample
    <3> DEFINE k == KeySeq[next]
               ages == [age EXCEPT ![k] = 0]
               late == Overdue(tracked \cup {k}, ages)
    <3>1. k \in Keys /\ silent' = (silent \ {k}) \cup late /\ ReportSilent(late)
      BY <2>3, Positions DEF IgclSample
    <3>2. CASE j \in late
      <4>1. j \in Keys
        BY <3>1, <3>2 DEF Overdue, TypeOK
      <4>2. j # k
        BY <3>1, <3>2, SampledIsNotOverdue
      <4>3. age[j] >= Threshold
        BY <3>1, <3>2, <4>1, <4>2 DEF Overdue, TypeOK
      <4>4. noticed'[j] = missed[j]
        BY <3>1, <3>2, <4>1 DEF ReportSilent
      <4> QED
        BY <4>1, <4>3, <4>4, OverdueMissed
    <3>3. CASE j \notin late
      <4>1. j \in silent /\ j \in Keys
        BY <3>1, <3>3 DEF TypeOK
      <4>2. noticed'[j] = noticed[j]
        BY <3>1, <3>3, <4>1 DEF ReportSilent
      <4> QED
        BY <2>0, <4>1, <4>2
    <3> QED
      BY <3>2, <3>3
  <2>4. CASE IgclMiss
    BY <2>0, <2>4 DEF IgclMiss
  <2>5. CASE IgclDone
    BY <2>0, <2>5 DEF IgclDone
  <2>6. CASE UNCHANGED vars
    BY <2>0, <2>6 DEF vars
  <2> QED
    BY <2>0, <2>1, <2>2, <2>3, <2>4, <2>5, <2>6 DEF Next, Tick
<1> QED
  BY <1>1, <1>2, TypeCorrect, Ages, PTL DEF Spec

(***************************************************************************)
(* A collector next to IGCL sweeps every entry in every tick, so at the    *)
(* end of a tick no overdue entry is without its flag.                     *)
(***************************************************************************)
Swept ==
  phase = "idle" \/ (BeforeIgcl /\ phase # "before") =>
    \A k \in tracked : age[k] >= Threshold => k \in silent

LEMMA SweptAlways ==
  ASSUME BeforeIgcl \/ AfterIgcl
  PROVE  Spec => []Swept
<1>1. Init => Swept
  BY DEF Init, Swept
<1>2. TypeOK /\ Swept /\ [Next]_vars => Swept'
  <2> SUFFICES ASSUME TypeOK, Swept, [Next]_vars
               PROVE  Swept'
    OBVIOUS
  <2>1. ASSUME NEW gap \in Gaps, BeginTick(gap)
        PROVE  Swept'
    BY <2>1 DEF BeginTick, Swept
  <2>2. ASSUME NEW from, NEW to, OtherSample(from, to)
        PROVE  Swept'
    <3>1. \A k \in tracked : age[k] \in 0..Threshold /\ Threshold \in Nat \ {0}
      BY TimeAssumption DEF TypeOK
    <3>2. /\ tracked' = tracked /\ age' = age
          /\ silent' = silent \cup Overdue(tracked, age)
      BY <2>2 DEF OtherSample
    <3>3. ASSUME NEW k \in tracked, age[k] >= Threshold
          PROVE  k \in silent \cup Overdue(tracked, age)
      BY <3>1, <3>3 DEF Overdue
    <3> QED
      BY <3>2, <3>3 DEF Swept
  <2>3. CASE IgclSample
    <3> DEFINE k == KeySeq[next]
    <3>1. /\ k \in Keys /\ phase = "igcl" /\ phase' = phase
          /\ tracked' = tracked \cup {k} /\ age' = [age EXCEPT ![k] = 0]
          /\ silent \ {k} \subseteq silent'
      BY <2>3, Positions DEF IgclSample
    <3> HIDE DEF k
    <3>2. age'[k] = 0 /\ ~(0 >= Threshold)
      BY <3>1, TimeAssumption DEF TypeOK
    <3>3. \A j \in tracked : j # k => age'[j] = age[j]
      BY <3>1 DEF TypeOK
    <3> QED
      BY <3>1, <3>2, <3>3 DEF Swept
  <2>4. CASE IgclMiss
    BY <2>4 DEF IgclMiss, Swept
  <2>5. CASE IgclDone
    BY <2>5 DEF IgclDone, Swept
  <2>6. CASE UNCHANGED vars
    BY <2>6 DEF vars, Swept
  <2> QED
    BY <2>1, <2>2, <2>3, <2>4, <2>5, <2>6 DEF Next, Tick
<1> QED
  BY <1>1, <1>2, TypeCorrect, PTL DEF Spec

(***************************************************************************)
(* When a tick ends, every source whose missed polls add up to the         *)
(* threshold has been reported, for any jitter, as long as some other      *)
(* collector publishes in every tick: nothing else runs the rule.          *)
(***************************************************************************)
THEOREM SilenceNotTooLate ==
  ASSUME BeforeIgcl \/ AfterIgcl
  PROVE  Spec => []NotTooLate
<1>1. TypeOK /\ AgeInv /\ Swept => NotTooLate
  <2> SUFFICES ASSUME TypeOK, AgeInv, Swept, phase = "idle",
                      NEW k \in tracked, missed[k] * Min(Gaps) >= Threshold
               PROVE  k \in silent
    BY DEF NotTooLate
  <2>1. k \in Keys
    BY DEF TypeOK
  <2> PICK i \in DOMAIN KeySeq : KeySeq[i] = k
    BY <2>1, Positions
  <2>2. Pending(i) = 0
    BY DEF Pending
  <2>3. missed[k] \in Nat /\ age[k] \in Nat /\ Threshold \in Nat /\ Min(Gaps) \in Nat
    BY <2>1, GapBounds, TimeAssumption, BoundAssumption DEF TypeOK
  <2>4. missed[k] * Min(Gaps) \in Nat /\ missed[k] + 0 = missed[k]
    BY <2>3, Product
  <2>5. age[k] = Threshold \/ age[k] >= missed[k] * Min(Gaps)
    BY <2>2, <2>4 DEF AgeInv, AgeAtLeast
  <2>6. age[k] >= Threshold
    BY <2>3, <2>4, <2>5
  <2> QED
    BY <2>6 DEF Swept
<1> QED
  BY <1>1, TypeCorrect, Ages, SweptAlways, PTL

=============================================================================
