--------------------------- MODULE PollLoopProofs ---------------------------
(***************************************************************************)
(* What PollLoop guarantees for every number of collectors, every period,  *)
(* timeout and set of poll durations, proved with TLAPS.                   *)
(***************************************************************************)
EXTENDS PollLoop, SequenceTheorems, TLAPS

(***************************************************************************)
(* Every variable keeps its type, and a poll is only ever in progress for  *)
(* a slot that exists.                                                     *)
(***************************************************************************)
THEOREM TypeCorrect == Spec => []TypeOK
<1>1. Init => TypeOK
  <2> SUFFICES ASSUME Init
               PROVE  TypeOK
    OBVIOUS
  <2>1. history \in [Slots -> Seq({"slow", "fast"})]
    BY DEF Init
  <2>2. slot \in 1..(NumSlots + 1) /\ unflushed \subseteq {0} \cup Slots
    BY NumSlotsAssumption DEF Init
  <2>3. opts \in [maxTicks : Nat, liveFlush : BOOLEAN, sleep : BOOLEAN]
    BY TicksAssumption DEF Init, OptionsFor
  <2> QED
    BY <2>1, <2>2, <2>3 DEF Init, TypeOK
<1>2. TypeOK /\ [Next]_vars => TypeOK'
  <2> SUFFICES ASSUME TypeOK, [Next]_vars
               PROVE  TypeOK'
    OBVIOUS
  <2> USE DEF TypeOK, wdVars
  <2>1. CASE BeginTick
    <3>1. slot' \in 1..(NumSlots + 1)
      BY <2>1, NumSlotsAssumption DEF BeginTick
    <3> QED
      BY <2>1, <3>1 DEF BeginTick
  <2>2. CASE LeaveAtTop
    BY <2>2 DEF LeaveAtTop
  <2>3. CASE SkipSlot
    <3>1. slot' \in 1..(NumSlots + 1)
      BY <2>3, NumSlotsAssumption DEF SkipSlot, Slots
    <3> QED
      BY <2>3, <3>1 DEF SkipSlot
  <2>4. CASE PollStart
    <3>1. lateStarts' \in [Slots -> Nat]
      BY <2>4 DEF PollStart
    <3> QED
      BY <2>4, <3>1 DEF PollStart
  <2>5. CASE EndTick
    <3>1. ticksRun' \in Nat
      BY <2>5 DEF EndTick
    <3>4. unflushed' \subseteq {0} \cup Slots
      BY <2>5 DEF EndTick, UnflushedAfterTick
    <3>2. pc' \in {"done", "sleep", "top"}
      BY <2>5 DEF EndTick
    <3>3. UNCHANGED <<opts, slot, stop, wdVars, pollCalls, audits, history, lateStarts>>
      BY <2>5 DEF EndTick
    <3> QED
      BY <3>1, <3>2, <3>3, <3>4
  <2>6. CASE Wake
    BY <2>6 DEF Wake
  <2>7. CASE CloseRun
    BY <2>7 DEF CloseRun
  <2>8. CASE PollEnds
    <3> PICK elapsed \in Elapsed : PollReturn(elapsed)
      BY <2>8 DEF PollEnds
    <3>1. slot \in Slots
      BY DEF PollReturn
    <3>2. StrikesAfter(slot, elapsed) \in Nat
      BY <3>1 DEF StrikesAfter
    <3>3. history' \in [Slots -> Seq({"slow", "fast"})]
      BY <3>1 DEF PollReturn
    <3>4. disabled' \subseteq Slots
      BY <3>1 DEF PollReturn, DisabledAfter
    <3>5. slot' \in 1..(NumSlots + 1)
      BY <3>1, NumSlotsAssumption DEF PollReturn, Slots
    <3>7. unflushed' \subseteq {0} \cup Slots
      BY <3>1 DEF PollReturn
    <3>6. consecutive' \in [Slots -> Nat]
      BY <3>1, <3>2 DEF PollReturn
    <3>8. pollCalls' \in [Slots -> Nat]
      BY <3>1 DEF PollReturn
    <3>9. audits' \in [Slots -> Nat]
      BY <3>1 DEF PollReturn
    <3> QED
      BY <3>3, <3>4, <3>5, <3>6, <3>7, <3>8, <3>9 DEF PollReturn
  <2>9. CASE Interrupt
    BY <2>9 DEF Interrupt
  <2>10. CASE Kill
    BY <2>10 DEF Kill
  <2>11. CASE Exited
    BY <2>11 DEF Exited, vars
  <2>12. CASE UNCHANGED vars
    BY <2>12 DEF vars
  <2> QED
    BY <2>1, <2>2, <2>3, <2>4, <2>5, <2>6, <2>7, <2>8, <2>9, <2>10, <2>11, <2>12
    DEF Next, LoopStep
<1> QED
  BY <1>1, <1>2, PTL DEF Spec

(***************************************************************************)
(* Appending the outcome of one more poll to a history keeps "the counter  *)
(* is the length of the trailing slow run" true for the counter that       *)
(* note_end computes.                                                      *)
(***************************************************************************)
TrailingRun(h, k) ==
  /\ k <= Len(h)
  /\ \A i \in 1..Len(h) : i > Len(h) - k => h[i] = "slow"
  /\ k < Len(h) => h[Len(h) - k] = "fast"

LEMMA AppendSlow ==
  ASSUME NEW h \in Seq({"slow", "fast"}), NEW k \in Nat, TrailingRun(h, k)
  PROVE  TrailingRun(Append(h, "slow"), k + 1)
<1> DEFINE g == Append(h, "slow")
<1>1. /\ Len(g) = Len(h) + 1
      /\ Len(h) \in Nat
      /\ \A i \in 1..Len(h) : g[i] = h[i]
      /\ g[Len(h) + 1] = "slow"
  BY AppendProperties
<1> HIDE DEF g
<1> QED
  BY <1>1 DEF TrailingRun, g

LEMMA AppendFast ==
  ASSUME NEW h \in Seq({"slow", "fast"})
  PROVE  TrailingRun(Append(h, "fast"), 0)
<1> DEFINE g == Append(h, "fast")
<1>1. Len(g) = Len(h) + 1 /\ Len(h) \in Nat /\ g[Len(h) + 1] = "fast"
  BY AppendProperties
<1> HIDE DEF g
<1> QED
  BY <1>1 DEF TrailingRun, g

(***************************************************************************)
(* A history whose trailing slow run has k polls ends with three slow      *)
(* polls exactly when k is at least three.                                 *)
(***************************************************************************)
LEMMA ThreeStrikes ==
  ASSUME NEW h \in Seq({"slow", "fast"}), NEW k \in Nat, TrailingRun(h, k)
  PROVE  Retirement!EndsWithThreeSlow(h) <=> k >= 3
<1>1. Len(h) \in Nat
  OBVIOUS
<1>2. CASE k >= 3
  BY <1>1, <1>2 DEF TrailingRun, Retirement!EndsWithThreeSlow
<1>3. CASE k < 3
  <2>1. ASSUME Len(h) >= 3
        PROVE  h[Len(h) - k] # "slow"
    BY <1>1, <1>3, <2>1 DEF TrailingRun
  <2>2. ASSUME Len(h) >= 3
        PROVE  Len(h) - k \in (Len(h) - 2)..Len(h)
    BY <1>1, <1>3, <2>2
  <2> QED
    BY <1>1, <1>3, <2>1, <2>2 DEF Retirement!EndsWithThreeSlow
<1> QED
  BY <1>2, <1>3

(***************************************************************************)
(* The watchdog's invariant: its counters agree with the polls' history    *)
(* and each disabled collector has one record.  It is inductive together   *)
(* with the type invariant because a disabled slot is never polled again,  *)
(* so its counter stays at three.                                          *)
(***************************************************************************)
WatchdogInv == StrikesMatchHistory /\ OneRecordPerDisabled

LEMMA WatchdogInit == Init => WatchdogInv
BY DEF Init, WatchdogInv, StrikesMatchHistory, CountsTrailingRun, OneRecordPerDisabled,
       Slots, Strikes

\* A poll in progress belongs to a slot that was not disabled when it began.
PollingEnabled == pc = "polling" => slot \notin disabled

\* What one returning poll does to the entry of its own slot.
LEMMA PollReturnEntry ==
  ASSUME TypeOK, StrikesMatchHistory, PollingEnabled,
         NEW elapsed \in Elapsed, PollReturn(elapsed)
  PROVE  /\ TrailingRun(history'[slot], consecutive'[slot])
         /\ consecutive'[slot] \in 0..Strikes
         /\ disabled' = IF consecutive'[slot] = Strikes THEN disabled \cup {slot} ELSE disabled
<1>1. /\ slot \in Slots
      /\ slot \notin disabled
      /\ history[slot] \in Seq({"slow", "fast"})
      /\ consecutive[slot] \in Nat
  BY DEF TypeOK, PollReturn, PollingEnabled
<1>2. TrailingRun(history[slot], consecutive[slot]) /\ consecutive[slot] < Strikes
  BY <1>1 DEF StrikesMatchHistory, CountsTrailingRun, TrailingRun
<1>3. CASE IsSlow(elapsed)
  <2>1. history'[slot] = Append(history[slot], "slow") /\ consecutive'[slot] = consecutive[slot] + 1
    BY <1>1, <1>3 DEF PollReturn, StrikesAfter, TypeOK
  <2>2. disabled' = IF consecutive'[slot] >= Strikes THEN disabled \cup {slot} ELSE disabled
    BY <1>3, <1>1, <2>1 DEF PollReturn, DisabledAfter, StrikesAfter
  <2> QED
    BY <1>1, <1>2, <2>1, <2>2, AppendSlow DEF Strikes
<1>4. CASE ~IsSlow(elapsed)
  <2>1. history'[slot] = Append(history[slot], "fast") /\ consecutive'[slot] = 0
    BY <1>1, <1>4 DEF PollReturn, StrikesAfter, TypeOK
  <2>2. disabled' = disabled
    BY <1>4 DEF PollReturn, DisabledAfter
  <2> QED
    BY <1>1, <2>1, <2>2, AppendFast DEF Strikes
<1> QED
  BY <1>3, <1>4

\* Only a returning poll writes what the watchdog's invariant is about.
LEMMA OnlyReturnsCount ==
  ASSUME [Next]_vars, ~PollEnds
  PROVE  UNCHANGED <<consecutive, disabled, audits, history>>
BY DEF Next, LoopStep, vars, wdVars, BeginTick, LeaveAtTop, SkipSlot, PollStart, EndTick,
       Wake, CloseRun, Interrupt, Kill, Exited

LEMMA PollingEnabledStep ==
  ASSUME TypeOK, PollingEnabled, [Next]_vars
  PROVE  PollingEnabled'
<1>1. CASE PollStart
  BY <1>1 DEF PollStart, PollingEnabled, wdVars
<1>2. CASE PollEnds
  BY <1>2 DEF PollEnds, PollReturn, PollingEnabled
<1>3. CASE UNCHANGED vars \/ Exited
  BY <1>3 DEF vars, Exited, PollingEnabled
<1>4. CASE Interrupt
  BY <1>4 DEF Interrupt, PollingEnabled, wdVars
<1>5. CASE BeginTick \/ LeaveAtTop \/ SkipSlot \/ EndTick \/ Wake \/ CloseRun \/ Kill
  <2>1. pc' # "polling"
    BY <1>5 DEF BeginTick, LeaveAtTop, SkipSlot, EndTick, Wake, CloseRun, Kill
  <2> QED
    BY <2>1 DEF PollingEnabled
<1> QED
  BY <1>1, <1>2, <1>3, <1>4, <1>5 DEF Next, LoopStep

LEMMA WatchdogStep ==
  ASSUME TypeOK, TypeOK', WatchdogInv, PollingEnabled, [Next]_vars
  PROVE  WatchdogInv'
<1>1. CASE PollEnds
  <2> PICK elapsed \in Elapsed : PollReturn(elapsed)
    BY <1>1 DEF PollEnds
  <2>1. /\ slot \in Slots
        /\ slot \notin disabled
    BY DEF PollReturn, PollingEnabled, TypeOK
  <2>2. /\ TrailingRun(history'[slot], consecutive'[slot])
        /\ consecutive'[slot] \in 0..Strikes
        /\ disabled' = IF consecutive'[slot] = Strikes THEN disabled \cup {slot} ELSE disabled
    BY PollReturnEntry DEF WatchdogInv
  <2>3. \A s \in Slots : s # slot => /\ history'[s] = history[s]
                                     /\ consecutive'[s] = consecutive[s]
                                     /\ s \in disabled' <=> s \in disabled
    BY <2>1, <2>2 DEF PollReturn, TypeOK
  <2>4. \A s \in Slots : s # slot => audits'[s] = audits[s]
    BY <2>1 DEF PollReturn, TypeOK
  <2>5. StrikesMatchHistory'
    <3> SUFFICES ASSUME NEW s \in Slots
                 PROVE  /\ CountsTrailingRun(s)'
                        /\ IF s \in disabled' THEN consecutive'[s] = Strikes
                                              ELSE consecutive'[s] < Strikes
      BY DEF StrikesMatchHistory
    <3>1. CASE s = slot
      <4>1. CountsTrailingRun(s)'
        BY <2>2, <3>1 DEF CountsTrailingRun, TrailingRun
      <4> QED
        BY <2>1, <2>2, <3>1, <4>1 DEF Strikes
    <3>2. CASE s # slot
      <4>1. CountsTrailingRun(s)
        BY DEF WatchdogInv, StrikesMatchHistory
      <4>2. CountsTrailingRun(s)'
        BY <2>3, <3>2, <4>1 DEF CountsTrailingRun
      <4> QED
        BY <2>3, <3>2, <4>2 DEF WatchdogInv, StrikesMatchHistory
    <3> QED
      BY <3>1, <3>2
  <2>6. OneRecordPerDisabled'
    <3> SUFFICES ASSUME NEW s \in Slots
                 PROVE  audits'[s] = IF s \in disabled' THEN 1 ELSE 0
      BY DEF OneRecordPerDisabled
    <3>1. CASE s = slot
      <4>1. audits[slot] = 0
        BY <2>1 DEF WatchdogInv, OneRecordPerDisabled
      <4> QED
        BY <2>1, <3>1, <4>1 DEF PollReturn, TypeOK
    <3>2. CASE s # slot
      BY <2>3, <2>4, <3>2 DEF WatchdogInv, OneRecordPerDisabled
    <3> QED
      BY <3>1, <3>2
  <2> QED
    BY <2>5, <2>6 DEF WatchdogInv
<1>2. CASE ~PollEnds
  BY <1>2, OnlyReturnsCount
  DEF WatchdogInv, StrikesMatchHistory, OneRecordPerDisabled, CountsTrailingRun
<1> QED
  BY <1>1, <1>2

(***************************************************************************)
(* A collector is disabled exactly by three slow polls in a row of its     *)
(* own, and the log then holds exactly one record that says so.            *)
(***************************************************************************)
THEOREM WatchdogCorrect == Spec => [](StrikesMatchHistory /\ OneRecordPerDisabled)
<1>1. Init => WatchdogInv /\ PollingEnabled
  BY WatchdogInit DEF Init, PollingEnabled
<1>2. TypeOK /\ TypeOK' /\ WatchdogInv /\ PollingEnabled /\ [Next]_vars
        => (WatchdogInv /\ PollingEnabled)'
  BY WatchdogStep, PollingEnabledStep
<1>3. WatchdogInv => StrikesMatchHistory /\ OneRecordPerDisabled
  BY DEF WatchdogInv
<1> QED
  BY <1>1, <1>2, <1>3, TypeCorrect, PTL DEF Spec

(***************************************************************************)
(* The log names each disabled collector once, and no other.               *)
(***************************************************************************)
THEOREM DisabledIsRecordedOnce == Spec => []OneRecordPerDisabled
BY WatchdogCorrect, PTL

(***************************************************************************)
(* Counting the due ticks.  Of the ticks 0..t-1 those that period p        *)
(* divides are the (t + p - 1) \div p first multiples of p.                *)
(***************************************************************************)
DueTicks(p, t) == (t + p - 1) \div p

LEMMA Division ==
  ASSUME NEW x \in Nat, NEW p \in Nat \ {0}
  PROVE  x \div p \in Nat /\ x % p \in 0..(p - 1) /\ x = p * (x \div p) + (x % p)
BY SMTT(30)

LEMMA NextMultiple == ASSUME NEW p \in Nat, NEW c \in Nat PROVE p * (c + 1) = p * c + p
BY SMTT(30)

LEMMA MultiplesGrow ==
  ASSUME NEW p \in Nat \ {0}, NEW c \in Nat, NEW d \in Nat, c + 1 <= d
  PROVE  p * c + p <= p * d
<1>1. p * (c + 1) <= p * d
  BY SMTT(30)
<1> QED
  BY <1>1, NextMultiple

LEMMA DivisionIsUnique ==
  ASSUME NEW p \in Nat \ {0}, NEW a \in Nat, NEW b \in 0..(p - 1)
  PROVE  (p * a + b) \div p = a
<1>1. p * a \in Nat
  BY SMT
<1> DEFINE x == p * a + b
           c == x \div p
<1>2. x \in Nat
  BY <1>1
<1> HIDE DEF x
<1>3. c \in Nat /\ x % p \in 0..(p - 1) /\ x = p * c + (x % p)
  BY <1>2, Division
<1> HIDE DEF c
<1>4. p * c \in Nat
  BY <1>3, SMT
<1>5. ~(a + 1 <= c)
  <2> SUFFICES ASSUME a + 1 <= c PROVE FALSE
    OBVIOUS
  <2>1. p * a + p <= p * c
    BY <1>3, MultiplesGrow
  <2> QED
    BY <1>1, <1>3, <1>4, <2>1 DEF x
<1>6. ~(c + 1 <= a)
  <2> SUFFICES ASSUME c + 1 <= a PROVE FALSE
    OBVIOUS
  <2>1. p * c + p <= p * a
    BY <1>3, MultiplesGrow
  <2> QED
    BY <1>1, <1>3, <1>4, <2>1 DEF x
<1>7. c = a
  BY <1>3, <1>5, <1>6
<1> QED
  BY <1>7 DEF c, x

LEMMA OneMoreTick ==
  ASSUME NEW p \in Nat \ {0}, NEW t \in Nat
  PROVE  /\ DueTicks(p, t) \in Nat
         /\ DueTicks(p, t + 1) = IF t % p = 0 THEN DueTicks(p, t) + 1 ELSE DueTicks(p, t)
<1> DEFINE q == t \div p
           r == t % p
<1>1. q \in Nat /\ r \in 0..(p - 1) /\ t = p * q + r
  BY Division
<1> HIDE DEF q, r
<1>2. p * q \in Nat /\ p * (q + 1) = p * q + p
  BY <1>1, NextMultiple, SMT
<1>3. DueTicks(p, t + 1) = q + 1
  <2>1. t + 1 + p - 1 = p * (q + 1) + r
    BY <1>1, <1>2
  <2>2. (p * (q + 1) + r) \div p = q + 1
    BY <1>1, DivisionIsUnique
  <2> QED
    BY <2>1, <2>2 DEF DueTicks
<1>4. CASE r = 0
  <2>1. t + p - 1 = p * q + (p - 1) /\ p - 1 \in 0..(p - 1)
    BY <1>1, <1>2, <1>4
  <2>2. (p * q + (p - 1)) \div p = q
    BY <1>1, <2>1, DivisionIsUnique
  <2>3. DueTicks(p, t) = q
    BY <2>1, <2>2 DEF DueTicks
  <2> QED
    BY <1>1, <1>3, <1>4, <2>3 DEF r
<1>5. CASE r # 0
  <2>1. t + p - 1 = p * (q + 1) + (r - 1) /\ r - 1 \in 0..(p - 1)
    BY <1>1, <1>2, <1>5
  <2>2. (p * (q + 1) + (r - 1)) \div p = q + 1
    BY <1>1, <2>1, DivisionIsUnique
  <2>3. DueTicks(p, t) = q + 1
    BY <2>1, <2>2 DEF DueTicks
  <2> QED
    BY <1>1, <1>3, <1>5, <2>3 DEF r
<1> QED
  BY <1>4, <1>5

LEMMA NoTickYet == ASSUME NEW p \in Nat \ {0} PROVE DueTicks(p, 0) = 0
<1>1. (p * 0 + (p - 1)) \div p = 0
  BY DivisionIsUnique
<1>2. p * 0 + (p - 1) = 0 + p - 1
  BY SMT
<1> QED
  BY <1>1, <1>2 DEF DueTicks

(***************************************************************************)
(* Within a tick the slots behind the loop's position have had the tick's  *)
(* poll, the others not yet; a poll in progress is due.                    *)
(***************************************************************************)
PollsInv ==
  /\ pc = "polling" => Due(slot)
  /\ pc \in {"top", "sleep", "done"} =>
       \A s \in Slots \ disabled : pollCalls[s] = DueTicks(Period[s], ticksRun)
  /\ pc \in {"slot", "polling"} =>
       \A s \in Slots \ disabled :
         pollCalls[s] = DueTicks(Period[s], IF s < slot THEN ticksRun + 1 ELSE ticksRun)

LEMMA PollsStep ==
  ASSUME TypeOK, PollsInv, [Next]_vars
  PROVE  PollsInv'
<1>1. /\ slot \in Int /\ ticksRun \in Nat
      /\ \A s \in Slots : s \in 1..NumSlots /\ Period[s] \in Nat \ {0}
  BY NumSlotsAssumption, PeriodAssumption DEF TypeOK, Slots
<1>2. CASE BeginTick
  <2>1. pc = "top" /\ pc' = "slot" /\ slot' = 1
        /\ UNCHANGED <<ticksRun, pollCalls, disabled>>
    BY <1>2 DEF BeginTick, wdVars
  <2>2. \A s \in Slots : ~(s < slot')
    BY <1>1, <2>1
  <2> QED
    BY <2>1, <2>2 DEF PollsInv
<1>3. CASE SkipSlot
  <2>1. /\ pc = "slot" /\ pc' = pc /\ slot' = slot + 1 /\ slot \in Slots
        /\ ~Due(slot) \/ slot \in disabled
        /\ UNCHANGED <<ticksRun, pollCalls, disabled>>
    BY <1>3 DEF SkipSlot, wdVars
  <2>2. ASSUME NEW s \in Slots \ disabled
        PROVE  pollCalls[s] = DueTicks(Period[s], IF s < slot + 1 THEN ticksRun + 1 ELSE ticksRun)
    <3>1. pollCalls[s] = DueTicks(Period[s], IF s < slot THEN ticksRun + 1 ELSE ticksRun)
      BY <2>1 DEF PollsInv
    <3>2. CASE s = slot
      <4>1. ticksRun % Period[s] # 0
        BY <2>1, <2>2, <3>2 DEF Due
      <4>2. DueTicks(Period[s], ticksRun + 1) = DueTicks(Period[s], ticksRun)
        BY <1>1, <4>1, OneMoreTick
      <4> QED
        BY <1>1, <3>1, <3>2, <4>2
    <3>3. CASE s # slot
      <4>1. s < slot + 1 <=> s < slot
        BY <1>1, <3>3
      <4> QED
        BY <3>1, <4>1
    <3> QED
      BY <3>2, <3>3
  <2> QED
    BY <2>1, <2>2 DEF PollsInv
<1>4. CASE PollStart
  BY <1>4 DEF PollStart, PollsInv, Due, wdVars
<1>5. CASE PollEnds
  <2> PICK elapsed \in Elapsed : PollReturn(elapsed)
    BY <1>5 DEF PollEnds
  <2>1. /\ pc = "polling" /\ pc' = "slot" /\ slot' = slot + 1 /\ slot \in Slots
        /\ pollCalls' = [pollCalls EXCEPT ![slot] = @ + 1]
        /\ disabled \subseteq disabled' /\ ticksRun' = ticksRun
    BY DEF PollReturn, DisabledAfter, TypeOK
  <2>2. ticksRun % Period[slot] = 0
    BY <2>1 DEF PollsInv, Due
  <2>3. ASSUME NEW s \in Slots \ disabled'
        PROVE  pollCalls'[s] = DueTicks(Period[s], IF s < slot + 1 THEN ticksRun + 1 ELSE ticksRun)
    <3>1. pollCalls[s] = DueTicks(Period[s], IF s < slot THEN ticksRun + 1 ELSE ticksRun)
      BY <2>1 DEF PollsInv
    <3>2. CASE s = slot
      <4>1. DueTicks(Period[s], ticksRun + 1) = DueTicks(Period[s], ticksRun) + 1
        BY <1>1, <2>2, <3>2, OneMoreTick
      <4>2. pollCalls'[s] = pollCalls[s] + 1
        BY <2>1, <3>2 DEF TypeOK
      <4> QED
        BY <1>1, <3>1, <3>2, <4>1, <4>2
    <3>3. CASE s # slot
      <4>1. s < slot + 1 <=> s < slot
        BY <1>1, <3>3
      <4>2. pollCalls'[s] = pollCalls[s]
        BY <2>1, <3>3 DEF TypeOK
      <4> QED
        BY <3>1, <4>1, <4>2
    <3> QED
      BY <3>2, <3>3
  <2> QED
    BY <2>1, <2>3 DEF PollsInv
<1>6. CASE EndTick
  <2>1. /\ pc = "slot" /\ pc' \in {"done", "sleep", "top"} /\ slot = NumSlots + 1
        /\ ticksRun' = ticksRun + 1 /\ UNCHANGED <<pollCalls, disabled>>
    BY <1>6 DEF EndTick, wdVars
  <2>2. \A s \in Slots : s < slot
    BY <1>1, <2>1, NumSlotsAssumption
  <2> QED
    BY <2>1, <2>2 DEF PollsInv
<1>7. CASE LeaveAtTop \/ Wake
  BY <1>7 DEF LeaveAtTop, Wake, PollsInv, wdVars
<1>8. CASE CloseRun \/ Kill
  BY <1>8 DEF CloseRun, Kill, PollsInv
<1>9. CASE Interrupt
  BY <1>9 DEF Interrupt, PollsInv, Due, wdVars
<1>10. CASE Exited \/ UNCHANGED vars
  BY <1>10 DEF Exited, vars, wdVars, PollsInv, Due
<1> QED
  BY <1>2, <1>3, <1>4, <1>5, <1>6, <1>7, <1>8, <1>9, <1>10 DEF Next, LoopStep

(***************************************************************************)
(* For every set of periods, a collector that is not disabled gets exactly *)
(* the polls of its due ticks.                                             *)
(***************************************************************************)
THEOREM EveryDuePollHappens == Spec => []NoPollMissed
<1>1. Init => PollsInv
  BY NoTickYet, PeriodAssumption DEF Init, PollsInv
<1>2. TypeOK /\ PollsInv /\ [Next]_vars => PollsInv'
  BY PollsStep
<1>3. PollsInv => NoPollMissed
  BY DEF PollsInv, NoPollMissed, DueTicks
<1> QED
  BY <1>1, <1>2, <1>3, TypeCorrect, PTL DEF Spec

(***************************************************************************)
(* A slot with a late poll lies behind the loop's position, and no later   *)
(* tick rewinds that position because BeginTick needs the flag to be down. *)
(***************************************************************************)
LateInv ==
  \A s \in Slots :
    /\ lateStarts[s] <= 1
    /\ lateStarts[s] = 1 => /\ stop
                            /\ pc = "slot" => s < slot
                            /\ pc = "polling" => s <= slot

LEMMA LateStep ==
  ASSUME TypeOK, TypeOK', LateInv, [Next]_vars
  PROVE  LateInv'
<1> USE DEF LateInv
<1>0. /\ slot \in Int
      /\ \A s \in Slots : s \in Int
      /\ lateStarts \in [Slots -> Nat]
  BY NumSlotsAssumption DEF TypeOK, Slots
<1>1. CASE PollStart
  <2>1. CASE stop
    <3>1. slot \in Slots /\ lateStarts[slot] = 0
      BY <1>0, <1>1, <2>1 DEF PollStart
    <3>2. lateStarts' = [lateStarts EXCEPT ![slot] = lateStarts[slot] + 1]
      BY <1>1, <2>1 DEF PollStart
    <3>3. pc = "slot" /\ pc' = "polling" /\ slot' = slot /\ stop' = stop
      BY <1>1 DEF PollStart
    <3> QED
      BY <1>0, <2>1, <3>1, <3>2, <3>3
  <2>2. CASE ~stop
    BY <1>0, <1>1, <2>2 DEF PollStart
  <2> QED
    BY <2>1, <2>2
<1>2. CASE PollEnds
  BY <1>0, <1>2 DEF PollEnds, PollReturn
<1>3. CASE SkipSlot
  BY <1>0, <1>3 DEF SkipSlot
<1>4. CASE BeginTick
  BY <1>0, <1>4 DEF BeginTick
<1>5. CASE LeaveAtTop \/ EndTick \/ Wake \/ CloseRun \/ Kill
  <2>1. pc' \notin {"slot", "polling"} /\ UNCHANGED <<stop, lateStarts>>
    BY <1>5 DEF LeaveAtTop, EndTick, Wake, CloseRun, Kill
  <2> QED
    BY <1>0, <2>1
<1>6. CASE Interrupt
  BY <1>0, <1>6 DEF Interrupt
<1>7. CASE Exited \/ UNCHANGED vars
  BY <1>7 DEF Exited, vars
<1> QED
  BY <1>1, <1>2, <1>3, <1>4, <1>5, <1>6, <1>7 DEF Next, LoopStep

(***************************************************************************)
(* After Ctrl-C no collector is polled more than once, wherever in a tick  *)
(* the request arrives.                                                    *)
(***************************************************************************)
THEOREM LatePollsBounded == Spec => []OneLatePollAtMost
<1>1. Init => LateInv
  BY DEF Init, LateInv
<1>2. TypeOK /\ TypeOK' /\ LateInv /\ [Next]_vars => LateInv'
  BY LateStep
<1>3. LateInv => OneLatePollAtMost
  BY DEF LateInv, OneLatePollAtMost
<1> QED
  BY <1>1, <1>2, <1>3, TypeCorrect, PTL DEF Spec

(***************************************************************************)
(* In a run with live flush, whatever was published is on its way to the   *)
(* disk whenever the loop is between two ticks, and after close.           *)
(***************************************************************************)
THEOREM QuietFlushed == Spec => []QuietMeansFlushed
<1>1. Init => QuietMeansFlushed
  BY DEF Init, QuietMeansFlushed
<1>2. TypeOK /\ QuietMeansFlushed /\ [Next]_vars => QuietMeansFlushed'
  <2> SUFFICES ASSUME TypeOK, QuietMeansFlushed, [Next]_vars
               PROVE  QuietMeansFlushed'
    OBVIOUS
  <2> USE DEF QuietMeansFlushed
  <2>1. CASE BeginTick \/ SkipSlot \/ PollStart \/ PollEnds \/ Kill
    <3>1. pc' \in {"slot", "polling", "killed"}
      BY <2>1 DEF BeginTick, SkipSlot, PollStart, PollEnds, PollReturn, Kill
    <3> QED
      BY <3>1
  <2>2. CASE EndTick
    <3>1. pc' # "closed" /\ opts' = opts
      BY <2>2 DEF EndTick
    <3>2. ASSUME opts.liveFlush
          PROVE  unflushed' = {}
      BY <2>2, <3>2 DEF EndTick, UnflushedAfterTick
    <3> QED
      BY <3>1, <3>2
  <2>3. CASE LeaveAtTop
    BY <2>3 DEF LeaveAtTop
  <2>4. CASE Wake
    BY <2>4 DEF Wake
  <2>5. CASE CloseRun
    BY <2>5 DEF CloseRun
  <2>6. CASE Interrupt
    BY <2>6 DEF Interrupt
  <2>7. CASE Exited \/ UNCHANGED vars
    BY <2>7 DEF Exited, vars
  <2> QED
    BY <2>1, <2>2, <2>3, <2>4, <2>5, <2>6, <2>7 DEF Next, LoopStep
<1> QED
  BY <1>1, <1>2, TypeCorrect, PTL DEF Spec

\* A returning poll is one observation of the abstract specification.
LEMMA ReturnIsObservation ==
  ASSUME TypeOK, WatchdogInv, PollingEnabled, NEW elapsed \in Elapsed, PollReturn(elapsed)
  PROVE  Retirement!Observe(slot, IF IsSlow(elapsed) THEN "slow" ELSE "fast")
<1>1. /\ slot \in Slots
      /\ slot \notin disabled
  BY DEF PollReturn, PollingEnabled, TypeOK
<1>2. /\ TrailingRun(history'[slot], consecutive'[slot])
      /\ consecutive'[slot] \in 0..Strikes
      /\ disabled' = IF consecutive'[slot] = Strikes THEN disabled \cup {slot} ELSE disabled
  BY PollReturnEntry DEF WatchdogInv
<1>3. history'[slot] \in Seq({"slow", "fast"})
  BY <1>1 DEF PollReturn, TypeOK
<1>4. Retirement!EndsWithThreeSlow(history'[slot]) <=> consecutive'[slot] = Strikes
  BY <1>2, <1>3, ThreeStrikes DEF Strikes
<1>5. audits[slot] = 0
  BY <1>1 DEF WatchdogInv, OneRecordPerDisabled
<1>6. audits' = IF slot \in disabled' THEN [audits EXCEPT ![slot] = 1] ELSE audits
  BY <1>1, <1>5 DEF PollReturn, TypeOK
<1>7. slot \in disabled' <=> consecutive'[slot] = Strikes
  BY <1>1, <1>2
<1> QED
  BY <1>1, <1>2, <1>4, <1>6, <1>7 DEF Retirement!Observe, PollReturn

(***************************************************************************)
(* The loop with the watchdog implements "three slow polls in a row retire *)
(* a collector, once, for good, and touch no other".                       *)
(***************************************************************************)
THEOREM ImplementsRetirement == Spec => RetirementSpec
<1>1. Init => Retirement!Init
  BY DEF Init, Retirement!Init
<1>2. TypeOK /\ WatchdogInv /\ PollingEnabled /\ [Next]_vars
        => [Retirement!Next]_Retirement!rVars
  <2> SUFFICES ASSUME TypeOK, WatchdogInv, PollingEnabled, [Next]_vars
               PROVE  [Retirement!Next]_Retirement!rVars
    OBVIOUS
  <2>1. CASE PollEnds
    <3> PICK elapsed \in Elapsed : PollReturn(elapsed)
      BY <2>1 DEF PollEnds
    <3>1. slot \in Slots
      BY DEF PollReturn, TypeOK
    <3>2. Retirement!Observe(slot, IF IsSlow(elapsed) THEN "slow" ELSE "fast")
      BY ReturnIsObservation
    <3> QED
      BY <3>1, <3>2 DEF Retirement!Next
  <2>2. CASE ~PollEnds
    BY <2>2, OnlyReturnsCount DEF Retirement!rVars
  <2> QED
    BY <2>1, <2>2
<1>3. Init => WatchdogInv /\ PollingEnabled
  BY WatchdogInit DEF Init, PollingEnabled
<1>4. TypeOK /\ TypeOK' /\ WatchdogInv /\ PollingEnabled /\ [Next]_vars
        => (WatchdogInv /\ PollingEnabled)'
  BY WatchdogStep, PollingEnabledStep
<1> QED
  BY <1>1, <1>2, <1>3, <1>4, TypeCorrect, PTL DEF Spec, RetirementSpec, Retirement!Spec
=============================================================================
