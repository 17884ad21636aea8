---------------------------- MODULE VerdictProofs ----------------------------
(***************************************************************************)
(* What a verdict read from a suppressed, still growing log may say.       *)
(*                                                                         *)
(* The invariant relates each stream's lines to the values it had: a line  *)
(* shows the value of its tick, a change has a line, and the last line up  *)
(* to a tick shows what was in force at it.  The window never reaches past *)
(* what pass 1 has seen, so that the last line of a stream inside it shows *)
(* what was in force then, whatever was flushed since.                     *)
(***************************************************************************)
EXTENDS Verdict, NumberSets, FiniteSetTheorems, TLAPS

-----------------------------------------------------------------------------
(***************************************************************************)
(* Two elements.                                                           *)
(***************************************************************************)
LEMMA AtLeastTwo ==
  ASSUME NEW S, IsFiniteSet(S), NEW a \in S, NEW b \in S, a # b
  PROVE  Cardinality(S) >= 2
<1>1. IsFiniteSet({a}) /\ Cardinality({a}) = 1
  BY FS_Singleton
<1>2. Cardinality({a} \cup {b}) = 2
  <2>1. Cardinality({a} \cup {b}) =
          IF b \in {a} THEN Cardinality({a}) ELSE Cardinality({a}) + 1
    BY <1>1, FS_AddElement, Zenon
  <2> QED
    BY <1>1, <2>1
<1>3. {a} \cup {b} \in SUBSET S
  OBVIOUS
<1>4. Cardinality({a} \cup {b}) <= Cardinality(S)
  BY <1>3, FS_Subset
<1>5. Cardinality(S) \in Nat
  BY FS_CardinalityType
<1> QED
  BY <1>2, <1>4, <1>5

LEMMA TwoElements ==
  ASSUME NEW S, IsFiniteSet(S), Cardinality(S) >= 2
  PROVE  \E a, b \in S : a # b
<1>1. S # {}
  BY FS_EmptySet
<1> PICK a \in S : TRUE
  BY <1>1
<1>2. S # {a}
  BY FS_Singleton
<1> QED
  BY <1>2

LEMMA MoreElements ==
  ASSUME NEW S, IsFiniteSet(S), NEW T \in SUBSET S, Cardinality(T) >= 2
  PROVE  Cardinality(S) >= 2
<1>1. IsFiniteSet(T) /\ Cardinality(T) <= Cardinality(S)
  BY FS_Subset
<1>2. Cardinality(S) \in Nat /\ Cardinality(T) \in Nat
  BY <1>1, FS_CardinalityType
<1> QED
  BY <1>1, <1>2

-----------------------------------------------------------------------------
(***************************************************************************)
(* The lines of one stream and the values it had.                          *)
(***************************************************************************)
Values == Nat \cup {None}
Line == [value : Nat, ts : Nat]

ValueIn(tr, st, tick) == IF tick = 0 THEN None ELSE tr[tick][st]

\* A line shows the value at its tick.
LinesShow(lines, tr, st) ==
  \A i \in 1..Len(lines) :
    /\ lines[i].ts - Start \in 1..Len(tr)
    /\ lines[i].value = tr[lines[i].ts - Start][st]

LinesOrdered(lines) ==
  \A i, j \in 1..Len(lines) : i < j => lines[i].ts < lines[j].ts

\* A change has a line.
ChangesShown(lines, tr, st) ==
  \A t \in 1..Len(tr) :
    tr[t][st] # ValueIn(tr, st, t - 1) => \E i \in 1..Len(lines) : lines[i].ts = Start + t

\* The last line up to a tick shows what was in force at it.
LastShows(lines, tr, st) ==
  \A t \in 1..Len(tr), i \in 1..Len(lines) :
    /\ lines[i].ts <= Start + t
    /\ \A j \in 1..Len(lines) : i < j => lines[j].ts > Start + t
    => tr[t][st] = lines[i].value

Shown(lines, tr, st) ==
  /\ LinesShow(lines, tr, st)
  /\ LinesOrdered(lines)
  /\ ChangesShown(lines, tr, st)
  /\ LastShows(lines, tr, st)

\* A tick without a change.
LEMMA QuietTickShown ==
  ASSUME NEW tr \in Seq([Streams -> Values]), NEW lines \in Seq(Line), NEW st \in Streams,
         NEW reading \in [Streams -> Values], Shown(lines, tr, st),
         reading[st] = ValueIn(tr, st, Len(tr))
  PROVE  Shown(lines, Append(tr, reading), st)
<1> DEFINE n == Len(tr)
           tr2 == Append(tr, reading)
<1>1. n \in Nat /\ Len(tr2) = n + 1 /\ tr2[n + 1] = reading /\ Start \in Nat
  BY ClockAssumption
<1>2. \A t \in 1..n : tr2[t] = tr[t]
  OBVIOUS
<1>3. \A i \in 1..Len(lines) : lines[i].ts \in Nat /\ lines[i].value \in Nat
  <2>1. \A i \in 1..Len(lines) : lines[i] \in Line
    OBVIOUS
  <2> QED
    BY <2>1 DEF Line
<1> HIDE DEF n, tr2
<1>4. \A i \in 1..Len(lines) :
        lines[i].ts - Start \in 1..n /\ lines[i].value = tr[lines[i].ts - Start][st]
  BY DEF Shown, LinesShow, n
<1>5. LinesShow(lines, tr2, st)
  <2> SUFFICES ASSUME NEW i \in 1..Len(lines)
               PROVE  /\ lines[i].ts - Start \in 1..(n + 1)
                      /\ lines[i].value = tr2[lines[i].ts - Start][st]
    BY <1>1 DEF LinesShow
  <2> QED
    BY <1>1, <1>2, <1>4
<1>6. LinesOrdered(lines)
  BY DEF Shown
<1>7. \A t \in 1..n : ValueIn(tr2, st, t) = ValueIn(tr, st, t)
  BY <1>1, <1>2 DEF ValueIn
<1>8. ChangesShown(lines, tr2, st)
  <2> SUFFICES ASSUME NEW t \in 1..(n + 1), tr2[t][st] # ValueIn(tr2, st, t - 1)
               PROVE  \E i \in 1..Len(lines) : lines[i].ts = Start + t
    BY <1>1 DEF ChangesShown
  <2>1. ValueIn(tr2, st, t - 1) = ValueIn(tr, st, t - 1)
    <3>1. CASE t = 1
      BY <3>1 DEF ValueIn
    <3>2. CASE t # 1
      <4>1. t - 1 \in 1..n
        BY <1>1, <3>2
      <4> QED
        BY <1>7, <4>1
    <3> QED
      BY <3>1, <3>2
  <2>2. t # n + 1
    <3> SUFFICES ASSUME t = n + 1
                 PROVE  FALSE
      OBVIOUS
    <3>1. t - 1 = n
      BY <1>1
    <3>2. tr2[t] = reading /\ reading[st] = ValueIn(tr, st, n)
      BY <1>1 DEF n
    <3> QED
      BY <2>1, <3>1, <3>2
  <2>3. t \in 1..n
    BY <1>1, <2>2
  <2> QED
    BY <1>2, <2>1, <2>3 DEF Shown, ChangesShown, n
<1>9. LastShows(lines, tr2, st)
  <2> SUFFICES ASSUME NEW t \in 1..(n + 1), NEW i \in 1..Len(lines),
                      lines[i].ts <= Start + t,
                      \A j \in 1..Len(lines) : i < j => lines[j].ts > Start + t
               PROVE  tr2[t][st] = lines[i].value
    BY <1>1 DEF LastShows
  <2>1. CASE t \in 1..n
    BY <1>2, <2>1 DEF Shown, LastShows, n
  <2>2. CASE t = n + 1
    <3>1. lines[i].ts <= Start + n
      BY <1>1, <1>3, <1>4
    <3>2. n \in 1..n
      BY <1>1, <1>4
    <3>3. \A j \in 1..Len(lines) : i < j => lines[j].ts > Start + n
      BY <1>1, <1>3, <2>2
    <3>4. tr[n][st] = lines[i].value
      BY <3>1, <3>2, <3>3 DEF Shown, LastShows, n
    <3>5. ValueIn(tr, st, n) = tr[n][st]
      BY <3>2 DEF ValueIn
    <3> QED
      BY <1>1, <2>2, <3>4, <3>5 DEF n
  <2> QED
    BY <1>1, <2>1, <2>2
<1> QED
  BY <1>5, <1>6, <1>8, <1>9 DEF Shown, tr2

\* A tick with a change: its line is the last, and later than the others.
LEMMA ChangeTickShown ==
  ASSUME NEW tr \in Seq([Streams -> Values]), NEW lines \in Seq(Line), NEW st \in Streams,
         NEW reading \in [Streams -> Values], Shown(lines, tr, st),
         NEW line \in Line, line.value = reading[st], line.ts = Start + Len(tr) + 1
  PROVE  Shown(Append(lines, line), Append(tr, reading), st)
<1> DEFINE n == Len(tr)
           m == Len(lines)
           tr2 == Append(tr, reading)
           lines2 == Append(lines, line)
<1>1. /\ n \in Nat /\ Len(tr2) = n + 1 /\ tr2[n + 1] = reading /\ Start \in Nat
      /\ m \in Nat /\ Len(lines2) = m + 1 /\ lines2[m + 1] = line
  BY ClockAssumption
<1>2. /\ \A t \in 1..n : tr2[t] = tr[t]
      /\ \A i \in 1..m : lines2[i] = lines[i]
  OBVIOUS
<1>3. \A i \in 1..m : lines[i].ts \in Nat /\ lines[i].value \in Nat
  <2>1. \A i \in 1..m : lines[i] \in Line
    OBVIOUS
  <2> QED
    BY <2>1 DEF Line
<1> HIDE DEF n, m, tr2, lines2
<1>4. \A i \in 1..m :
        lines[i].ts - Start \in 1..n /\ lines[i].value = tr[lines[i].ts - Start][st]
  BY DEF Shown, LinesShow, n, m
<1>5. line.ts = Start + n + 1
  BY DEF n
<1>6. LinesShow(lines2, tr2, st)
  <2> SUFFICES ASSUME NEW i \in 1..(m + 1)
               PROVE  /\ lines2[i].ts - Start \in 1..(n + 1)
                      /\ lines2[i].value = tr2[lines2[i].ts - Start][st]
    BY <1>1 DEF LinesShow
  <2>1. CASE i \in 1..m
    BY <1>1, <1>2, <1>4, <2>1
  <2>2. CASE i = m + 1
    <3>1. lines2[i].ts - Start = n + 1
      BY <1>1, <1>5, <2>2
    <3> QED
      BY <1>1, <2>2, <3>1
  <2> QED
    BY <1>1, <2>1, <2>2
<1>7. LinesOrdered(lines2)
  <2> SUFFICES ASSUME NEW i \in 1..(m + 1), NEW j \in 1..(m + 1), i < j
               PROVE  lines2[i].ts < lines2[j].ts
    BY <1>1 DEF LinesOrdered
  <2>1. i \in 1..m
    BY <1>1
  <2>2. CASE j \in 1..m
    BY <1>2, <2>1, <2>2 DEF Shown, LinesOrdered, m
  <2>3. CASE j = m + 1
    BY <1>1, <1>2, <1>3, <1>4, <1>5, <2>1, <2>3
  <2> QED
    BY <1>1, <2>2, <2>3
<1>8. ChangesShown(lines2, tr2, st)
  <2> SUFFICES ASSUME NEW t \in 1..(n + 1), tr2[t][st] # ValueIn(tr2, st, t - 1)
               PROVE  \E i \in 1..(m + 1) : lines2[i].ts = Start + t
    BY <1>1 DEF ChangesShown
  <2>1. CASE t = n + 1
    <3>1. lines2[m + 1].ts = Start + t
      BY <1>1, <1>5, <2>1
    <3> QED
      BY <1>1, <3>1
  <2>2. CASE t \in 1..n
    <3>1. ValueIn(tr2, st, t - 1) = ValueIn(tr, st, t - 1)
      <4>1. CASE t = 1
        BY <4>1 DEF ValueIn
      <4>2. CASE t # 1
        <5>1. t - 1 \in 1..n /\ t - 1 # 0
          BY <1>1, <2>2, <4>2
        <5> QED
          BY <1>2, <5>1 DEF ValueIn
      <4> QED
        BY <4>1, <4>2
    <3>2. \E i \in 1..m : lines[i].ts = Start + t
      BY <1>2, <2>2, <3>1 DEF Shown, ChangesShown, n, m
    <3> QED
      BY <1>1, <1>2, <3>2
  <2> QED
    BY <1>1, <2>1, <2>2
<1>9. LastShows(lines2, tr2, st)
  <2> SUFFICES ASSUME NEW t \in 1..(n + 1), NEW i \in 1..(m + 1),
                      lines2[i].ts <= Start + t,
                      \A j \in 1..(m + 1) : i < j => lines2[j].ts > Start + t
               PROVE  tr2[t][st] = lines2[i].value
    BY <1>1 DEF LastShows
  <2>1. CASE i = m + 1
    <3>1. t = n + 1
      BY <1>1, <1>5, <2>1
    <3> QED
      BY <1>1, <2>1, <3>1
  <2>2. CASE i \in 1..m
    <3>1. line.ts > Start + t
      BY <1>1, <2>2
    <3>2. t \in 1..n
      BY <1>1, <1>5, <3>1
    <3>3. \A j \in 1..m : i < j => lines[j].ts > Start + t
      BY <1>1, <1>2
    <3>4. tr[t][st] = lines[i].value
      BY <1>2, <2>2, <3>2, <3>3 DEF Shown, LastShows, n, m
    <3> QED
      BY <1>2, <2>2, <3>2, <3>4
  <2> QED
    BY <1>1, <2>1, <2>2
<1> QED
  BY <1>6, <1>7, <1>8, <1>9 DEF Shown, tr2, lines2

-----------------------------------------------------------------------------
(***************************************************************************)
(* Types.  A stream has a value at every tick if the rig publishes it, and *)
(* at none if it does not.                                                 *)
(***************************************************************************)
RigDecides == \A t \in 1..Len(trace), st \in Streams : trace[t][st] = None <=> st \notin rig

TypeInv == TypeOK /\ RigDecides

LEMMA ValuesAreTyped ==
  ASSUME TypeInv, NEW st \in Streams, NEW t \in 0..Len(trace)
  PROVE  ValueAt(st, t) \in Values /\ Number(ValueAt(st, t)) \in Nat
<1>1. ValueAt(st, t) \in Values
  <2>1. CASE t = 0
    BY <2>1 DEF ValueAt, Values
  <2>2. CASE t \in 1..Len(trace)
    BY <2>2 DEF TypeInv, TypeOK, ValueAt, Values
  <2> QED
    BY <2>1, <2>2 DEF TypeInv, TypeOK
<1> QED
  BY <1>1 DEF Number, Values, None

\* What a tick publishes.
LEMMA ReadingIsTyped ==
  ASSUME TypeInv, NEW sides \in [rig -> Sides]
  PROVE  /\ Reading(sides) \in [Streams -> Values]
         /\ \A st \in Streams : Reading(sides)[st] = None <=> st \notin rig
<1>1. Len(trace) \in 0..Len(trace)
  BY DEF TypeInv, TypeOK
<1>2. ASSUME NEW st \in Streams, st \in rig
      PROVE  Reported(st, sides[st]) \in Nat
  <2>1. sides[st] \in Sides
    BY <1>2
  <2>2. Levels[st][sides[st]] \in Nat
    BY <2>1, LevelsAssumption
  <2>3. Number(ValueAt(st, Len(trace))) \in Nat
    BY <1>1, ValuesAreTyped
  <2> QED
    BY <2>2, <2>3 DEF Reported
<1> QED
  BY <1>2 DEF Reading, Values, None

-----------------------------------------------------------------------------
(***************************************************************************)
(* The invariant.                                                          *)
(***************************************************************************)
LogInv == \A st \in Streams : Shown(log[st], trace, st)

\* The window ends where pass 1 stopped, and what it has not seen lies behind.
WindowInv ==
  /\ window.last <= Start + ticksSeen
  /\ \A st \in Streams : \A i \in 1..Len(log[st]) :
       log[st][i].ts > window.last => log[st][i].ts > Start + ticksSeen
  /\ ticksSeen > 0 => \E st \in Streams : log[st] # << >>

VInv == TypeInv /\ LogInv /\ WindowInv

LEMMA LinesAreTyped ==
  ASSUME TypeInv, NEW st \in Streams
  PROVE  /\ log[st] \in Seq(Line) /\ Len(log[st]) \in Nat /\ DOMAIN log[st] = 1..Len(log[st])
         /\ \A i \in 1..Len(log[st]) : log[st][i].ts \in Nat /\ log[st][i].value \in Nat
<1>1. log[st] \in Seq(Line)
  BY DEF TypeInv, TypeOK, Line
<1>2. \A i \in 1..Len(log[st]) : log[st][i] \in Line
  BY <1>1
<1> QED
  BY <1>1, <1>2 DEF Line

\* What the time stamps of the log are.
LEMMA StampsBounded ==
  ASSUME VInv
  PROVE  /\ Stamps \in SUBSET Nat
         /\ \A ts \in Stamps : ts <= Start + Len(trace)
         /\ \A st \in Streams : \A i \in 1..Len(log[st]) : log[st][i].ts \in Stamps
<1>1. \A st \in Streams : \A i \in 1..Len(log[st]) :
        log[st][i].ts \in Nat /\ log[st][i].ts <= Start + Len(trace)
  <2> TAKE st \in Streams
  <2> TAKE i \in 1..Len(log[st])
  <2>1. log[st][i].ts \in Nat /\ Start \in Nat /\ Len(trace) \in Nat
    BY LinesAreTyped, ClockAssumption DEF VInv, TypeInv, TypeOK
  <2>2. log[st][i].ts - Start \in 1..Len(trace)
    BY DEF VInv, LogInv, Shown, LinesShow
  <2> QED
    BY <2>1, <2>2
<1>2. \A st \in Streams : DOMAIN log[st] = 1..Len(log[st])
  BY LinesAreTyped DEF VInv
<1> QED
  BY <1>1, <1>2 DEF Stamps

-----------------------------------------------------------------------------
(***************************************************************************)
(* Every step keeps the invariant.                                         *)
(***************************************************************************)
LEMMA InitInv == ASSUME Init PROVE VInv
<1>1. TypeInv
  BY ClockAssumption DEF Init, TypeInv, TypeOK, RigDecides
<1>2. LogInv
  BY DEF Init, LogInv, Shown, LinesShow, LinesOrdered, ChangesShown, LastShows
<1>3. WindowInv
  BY ClockAssumption DEF Init, WindowInv
<1> QED
  BY <1>1, <1>2, <1>3 DEF VInv

LEMMA TickInv ==
  ASSUME VInv, NEW sides \in [rig -> Sides], Tick(Reading(sides))
  PROVE  VInv'
<1> DEFINE reading == Reading(sides)
           n == Len(trace)
           line(st) == [value |-> reading[st], ts |-> Now + 1]
<1>1. /\ reading \in [Streams -> Values]
      /\ \A st \in Streams : reading[st] = None <=> st \notin rig
  BY ReadingIsTyped DEF VInv
<1>2. /\ trace \in Seq([Streams -> Values]) /\ n \in Nat /\ Start \in Nat
      /\ trace' = Append(trace, reading)
      /\ \A st \in Streams :
           log'[st] = IF reading[st] = ValueAt(st, n) THEN log[st] ELSE Append(log[st], line(st))
      /\ UNCHANGED <<rig, reader, window, ticksSeen, issue>>
      /\ log' = [st \in Streams |-> log'[st]]
  <2>1. trace \in Seq([Streams -> Values]) /\ n \in Nat /\ Start \in Nat
    BY ClockAssumption DEF VInv, TypeInv, TypeOK, Values
  <2>2. trace' = Append(trace, reading) /\ UNCHANGED <<rig, reader, window, ticksSeen, issue>>
    BY DEF Tick
  <2>3. log' = [st \in Streams |-> IF reading[st] = ValueAt(st, n) THEN log[st]
                                   ELSE Append(log[st], line(st))]
    BY DEF Tick
  <2> QED
    BY <2>1, <2>2, <2>3
<1> HIDE DEF reading
<1>3. /\ trace' \in Seq([Streams -> Values]) /\ Len(trace') = n + 1
      /\ \A t \in 1..n : trace'[t] = trace[t]
      /\ trace'[n + 1] = reading
  BY <1>1, <1>2
<1>4. ASSUME NEW st \in Streams
      PROVE  ValueAt(st, n) = ValueIn(trace, st, n) /\ n \in 0..n
  BY <1>2 DEF ValueAt, ValueIn
<1>5. ASSUME NEW st \in Streams, reading[st] # ValueAt(st, n)
      PROVE  /\ reading[st] \in Nat
             /\ line(st) \in Line /\ line(st).value = reading[st] /\ line(st).ts = Start + n + 1
  <2>1. st \in rig
    <3> SUFFICES ASSUME st \notin rig
                 PROVE  FALSE
      OBVIOUS
    <3>1. reading[st] = None
      BY <1>1
    <3>2. ValueAt(st, n) = None
      BY <1>2 DEF VInv, TypeInv, RigDecides, ValueAt
    <3> QED
      BY <1>5, <3>1, <3>2
  <2>2. reading[st] \in Nat
    BY <1>1, <2>1 DEF Values
  <2> QED
    BY <1>2, <2>2 DEF Line, Now
<1> HIDE DEF line
<1>6. \A st \in Streams : log'[st] \in Seq(Line)
  <2> TAKE st \in Streams
  <2>1. log[st] \in Seq(Line)
    BY LinesAreTyped DEF VInv
  <2>2. CASE reading[st] = ValueAt(st, n)
    BY <1>2, <2>1, <2>2
  <2>3. CASE reading[st] # ValueAt(st, n)
    <3>1. line(st) \in Line
      BY <1>5, <2>3
    <3>2. log'[st] = Append(log[st], line(st))
      BY <1>2, <2>3
    <3> QED
      BY <2>1, <3>1, <3>2
  <2> QED
    BY <2>2, <2>3
<1>7. TypeInv'
  <2>1. RigDecides'
    <3> SUFFICES ASSUME NEW t \in 1..(n + 1), NEW st \in Streams
                 PROVE  trace'[t][st] = None <=> st \notin rig
      BY <1>2, <1>3 DEF RigDecides
    <3>1. CASE t \in 1..n
      BY <1>3, <3>1 DEF VInv, TypeInv, RigDecides
    <3>2. CASE t = n + 1
      BY <1>1, <1>3, <3>2
    <3> QED
      BY <1>2, <3>1, <3>2
  <2>2. ticksSeen' \in 0..Len(trace')
    BY <1>2, <1>3 DEF VInv, TypeInv, TypeOK
  <2>3. log' \in [Streams -> Seq(Line)]
    BY <1>2, <1>6
  <2> QED
    BY <1>2, <1>3, <2>1, <2>2, <2>3 DEF VInv, TypeInv, TypeOK, Values, Line
<1>8. LogInv'
  <2> SUFFICES ASSUME NEW st \in Streams
               PROVE  Shown(log'[st], Append(trace, reading), st)
    BY <1>2 DEF LogInv
  <2>1. Shown(log[st], trace, st) /\ log[st] \in Seq(Line)
    BY LinesAreTyped DEF VInv, LogInv
  <2>2. CASE reading[st] = ValueAt(st, n)
    BY <1>1, <1>2, <1>4, <2>1, <2>2, QuietTickShown
  <2>3. CASE reading[st] # ValueAt(st, n)
    <3>1. line(st) \in Line /\ line(st).value = reading[st] /\ line(st).ts = Start + Len(trace) + 1
      BY <1>5, <2>3
    <3>2. log'[st] = Append(log[st], line(st))
      BY <1>2, <2>3
    <3>3. trace \in Seq([Streams -> Values])
      BY <1>2
    <3>4. Shown(Append(log[st], line(st)), Append(trace, reading), st)
      BY <1>1, <2>1, <3>1, <3>3, ChangeTickShown
    <3> QED
      BY <3>2, <3>4
  <2> QED
    BY <2>2, <2>3
<1>9. WindowInv'
  <2>1. ASSUME NEW st \in Streams, NEW i \in 1..Len(log'[st]), log'[st][i].ts > window.last
        PROVE  log'[st][i].ts > Start + ticksSeen
    <3>1. log[st] \in Seq(Line) /\ Len(log[st]) \in Nat
      BY LinesAreTyped DEF VInv
    <3>2. CASE i \in 1..Len(log[st])
      <4>1. log'[st][i] = log[st][i]
        BY <1>2, <1>5, <3>1, <3>2
      <4> QED
        BY <2>1, <3>2, <4>1 DEF VInv, WindowInv
    <3>3. CASE i \notin 1..Len(log[st])
      <4>1. log'[st][i].ts = Start + n + 1
        BY <1>2, <1>5, <3>1, <3>3
      <4> QED
        BY <1>2, <4>1 DEF VInv, TypeInv, TypeOK
    <3> QED
      BY <3>2, <3>3
  <2>2. ASSUME NEW st \in Streams, log[st] # << >>
        PROVE  log'[st] # << >>
    <3>1. log[st] \in Seq(Line)
      BY LinesAreTyped DEF VInv
    <3> QED
      BY <1>2, <1>5, <2>2, <3>1
  <2> QED
    BY <1>2, <2>1, <2>2 DEF VInv, WindowInv
<1> QED
  BY <1>7, <1>8, <1>9 DEF VInv

LEMMA PassOneInv == ASSUME VInv, PassOne PROVE VInv'
<1> DEFINE bound == Start + Len(trace)
<1>1. Stamps \in SUBSET Nat /\ Stamps # {} /\ bound \in Nat /\ Window \in Nat /\ Start \in Nat
  BY StampsBounded, ClockAssumption DEF PassOne, VInv, TypeInv, TypeOK
<1>2. \A ts \in Stamps : ts <= bound
  BY StampsBounded
<1> HIDE DEF bound
<1>3. Max(Stamps) \in Stamps /\ \A ts \in Stamps : ts <= Max(Stamps)
  BY <1>1, <1>2, MaxExists
<1>4. Min(Stamps) \in Stamps
  BY <1>1, MinExists
<1>5. Max(Stamps) \in Nat /\ Min(Stamps) \in Nat /\ Max(Stamps) <= bound
  BY <1>1, <1>2, <1>3, <1>4
<1>6. /\ window' = [first |-> IF Window > 0 /\ Max(Stamps) > Window THEN Max(Stamps) - Window
                              ELSE Min(Stamps),
                    last |-> Max(Stamps)]
      /\ ticksSeen' = Len(trace) /\ issue' = "pending" /\ reader' = "between"
      /\ UNCHANGED <<rig, log, trace>>
  BY DEF PassOne, WindowOf
<1>7. window' \in [first : Nat, last : Nat] /\ window'.last = Max(Stamps)
  BY <1>1, <1>5, <1>6
<1>8. TypeInv'
  <2>1. ticksSeen' \in 0..Len(trace')
    BY <1>6 DEF VInv, TypeInv, TypeOK
  <2>2. RigDecides'
    BY <1>6 DEF VInv, TypeInv, RigDecides
  <2> QED
    BY <1>6, <1>7, <2>1, <2>2 DEF VInv, TypeInv, TypeOK
<1>9. LogInv'
  BY <1>6 DEF VInv, LogInv
<1>10. WindowInv'
  <2>1. ASSUME NEW st \in Streams, NEW i \in 1..Len(log[st])
        PROVE  ~(log[st][i].ts > window'.last)
    <3>1. log[st][i].ts \in Stamps
      BY StampsBounded
    <3>2. log[st][i].ts \in Nat /\ log[st][i].ts <= Max(Stamps)
      BY <1>1, <1>3, <3>1
    <3> QED
      BY <1>5, <1>7, <3>2
  <2>2. \E st \in Streams : log[st] # << >>
    BY <1>1 DEF Stamps
  <2>3. window'.last <= Start + ticksSeen'
    BY <1>5, <1>6, <1>7 DEF bound
  <2> QED
    BY <1>6, <2>1, <2>2, <2>3 DEF WindowInv
<1> QED
  BY <1>8, <1>9, <1>10 DEF VInv

LEMMA OtherStepsInv ==
  ASSUME VInv, UNCHANGED <<rig, log, trace, window, ticksSeen>>,
         reader' \in {"idle", "between"}, issue' \in Issues \cup {"pending"}
  PROVE  VInv'
<1>1. TypeInv'
  BY DEF VInv, TypeInv, TypeOK, RigDecides
<1>2. LogInv'
  BY DEF VInv, LogInv
<1>3. WindowInv'
  BY DEF VInv, WindowInv
<1> QED
  BY <1>1, <1>2, <1>3 DEF VInv

LEMMA StepInv == ASSUME VInv, [Next]_vars PROVE VInv'
<1>1. CASE UNCHANGED vars
  BY <1>1, OtherStepsInv DEF vars, VInv, TypeInv, TypeOK
<1>2. ASSUME NEW sides \in [rig -> Sides], Tick(Reading(sides))
      PROVE  VInv'
  BY <1>2, TickInv
<1>3. CASE NoTimestamps
  BY <1>3, OtherStepsInv DEF NoTimestamps, VInv, TypeInv, TypeOK, Issues
<1>4. CASE PassOne
  BY <1>4, PassOneInv
<1>5. CASE PassTwo
  <2>1. Issue \in Issues
    BY DEF Issue, Issues
  <2> QED
    BY <1>5, <2>1, OtherStepsInv DEF PassTwo
<1> QED
  BY <1>1, <1>2, <1>3, <1>4, <1>5 DEF Next

-----------------------------------------------------------------------------
(***************************************************************************)
(* What pass 2 finds in the window.                                        *)
(***************************************************************************)
LEMMA WindowLines ==
  ASSUME VInv, NEW st, Known(st)
  PROVE  /\ st \in Streams /\ LinesOf(st) = log[st]
         /\ InWindow(st) \in SUBSET (1..Len(log[st]))
         /\ Len(log[st]) \in Nat
<1>1. st \in Streams
  <2> SUFFICES ASSUME st \notin Streams
               PROVE  FALSE
    OBVIOUS
  <2>1. LinesOf(st) = << >>
    BY DEF LinesOf
  <2>2. DOMAIN LinesOf(st) = {}
    BY <2>1
  <2> QED
    BY <2>2 DEF Known, InWindow
<1>2. DOMAIN log[st] = 1..Len(log[st]) /\ Len(log[st]) \in Nat
  BY <1>1, LinesAreTyped DEF VInv
<1> QED
  BY <1>1, <1>2 DEF LinesOf, InWindow

LEMMA WindowIsFinite == ASSUME VInv, NEW st PROVE IsFiniteSet(InWindow(st))
<1>1. CASE InWindow(st) = {}
  BY <1>1, FS_EmptySet
<1>2. CASE InWindow(st) # {}
  <2>1. InWindow(st) \in SUBSET (1..Len(log[st])) /\ Len(log[st]) \in Nat
    BY <1>2, WindowLines DEF Known
  <2>2. IsFiniteSet(1..Len(log[st]))
    BY <2>1, FS_Interval
  <2> QED
    BY <2>1, <2>2, FS_Subset
<1> QED
  BY <1>1, <1>2

\* The last line, and the first.
LEMMA WindowEnds ==
  ASSUME VInv, NEW st, Known(st)
  PROVE  /\ Max(InWindow(st)) \in InWindow(st) /\ \A i \in InWindow(st) : i <= Max(InWindow(st))
         /\ Min(InWindow(st)) \in InWindow(st) /\ \A i \in InWindow(st) : Min(InWindow(st)) <= i
<1>1. InWindow(st) \in SUBSET (1..Len(log[st])) /\ Len(log[st]) \in Nat /\ InWindow(st) # {}
  BY WindowLines DEF Known
<1>2. InWindow(st) \in SUBSET Nat /\ \A i \in InWindow(st) : i <= Len(log[st])
  BY <1>1
<1> QED
  BY <1>1, <1>2, MaxExists, MinExists

\* A line in the window belongs to a tick pass 1 has seen, and shows its value.
LEMMA WindowTick ==
  ASSUME VInv, NEW st, NEW i \in InWindow(st)
  PROVE  /\ log[st][i].ts - Start \in TicksInWindow
         /\ log[st][i].value = ValueAt(st, log[st][i].ts - Start)
         /\ log[st][i].ts \in Nat /\ log[st][i].value \in Nat
         /\ st \in rig
<1>1. /\ st \in Streams /\ LinesOf(st) = log[st] /\ i \in 1..Len(log[st])
      /\ log[st][i].ts \in Nat /\ log[st][i].value \in Nat
  BY WindowLines, LinesAreTyped DEF Known, VInv
<1>2. window.first <= log[st][i].ts /\ log[st][i].ts <= window.last
  BY <1>1 DEF InWindow
<1> DEFINE t == log[st][i].ts - Start
<1>3. t \in 1..Len(trace) /\ log[st][i].value = trace[t][st]
  BY <1>1 DEF VInv, LogInv, Shown, LinesShow
<1>4. /\ Start \in Nat /\ ticksSeen \in Nat /\ window.first \in Nat /\ window.last \in Nat
      /\ window.last <= Start + ticksSeen /\ Len(trace) \in Nat
  BY ClockAssumption DEF VInv, TypeInv, TypeOK, WindowInv
<1>5. t \in 1..ticksSeen /\ Start + t = log[st][i].ts
  <2>1. log[st][i].ts \in Nat /\ log[st][i].ts <= Start + ticksSeen
    BY <1>1, <1>2, <1>4
  <2>2. t \in 1..Len(trace)
    BY <1>3
  <2>3. 1 <= t
    BY <1>4, <2>2
  <2> QED
    BY <1>4, <2>1, <2>3
<1> HIDE DEF t
<1>6. t \in TicksInWindow
  BY <1>2, <1>5 DEF TicksInWindow
<1>7. log[st][i].value = ValueAt(st, t)
  BY <1>3, <1>5 DEF ValueAt
<1>8. st \in rig
  <2>1. trace[t][st] # None
    BY <1>1, <1>3 DEF None
  <2> QED
    BY <1>1, <1>3, <2>1 DEF VInv, TypeInv, RigDecides
<1> QED
  BY <1>1, <1>6, <1>7, <1>8 DEF t

\* The last line in the window shows what was in force when pass 1 read the log.
LEMMA LastIsInForce ==
  ASSUME VInv, NEW st, Known(st)
  PROVE  InForce(st) = LastOf(st) /\ LastOf(st) \in Nat
<1> DEFINE i == Max(InWindow(st))
<1>1. st \in Streams /\ LinesOf(st) = log[st] /\ i \in InWindow(st) /\ i \in 1..Len(log[st])
  BY WindowLines, WindowEnds
<1>2. \A j \in InWindow(st) : j <= i
  BY WindowEnds
<1>3. LastOf(st) = log[st][i].value
  BY <1>1 DEF LastOf, LastLine
<1> HIDE DEF i
<1>4. /\ log[st][i].ts - Start \in TicksInWindow /\ st \in rig
      /\ log[st][i].ts \in Nat /\ log[st][i].value \in Nat
  BY <1>1, WindowTick
<1>5. /\ Start \in Nat /\ ticksSeen \in 0..Len(trace) /\ Len(trace) \in Nat
      /\ window.last \in Nat /\ window.first \in Nat
  BY ClockAssumption DEF VInv, TypeInv, TypeOK
<1>6. ticksSeen \in 1..Len(trace) /\ log[st][i].ts <= Start + ticksSeen
  BY <1>4, <1>5 DEF TicksInWindow
<1>7. ASSUME NEW j \in 1..Len(log[st]), i < j
      PROVE  log[st][j].ts > Start + ticksSeen
  <2>1. log[st][j].ts \in Nat /\ i \in Nat /\ j \in Nat /\ Len(log[st]) \in Nat
    BY <1>1, LinesAreTyped DEF VInv
  <2>2. j \notin InWindow(st)
    BY <1>2, <1>7, <2>1
  <2>3. j \in DOMAIN LinesOf(st)
    BY <1>1, LinesAreTyped DEF VInv
  <2>4. window.first <= log[st][i].ts
    BY <1>1 DEF InWindow
  <2>5. log[st][i].ts < log[st][j].ts
    BY <1>1, <1>7 DEF VInv, LogInv, Shown, LinesOrdered
  <2>6. ~(log[st][j].ts <= window.last)
    BY <1>1, <1>4, <1>5, <2>1, <2>2, <2>3, <2>4, <2>5 DEF InWindow
  <2> QED
    BY <1>1, <1>5, <2>1, <2>6 DEF VInv, WindowInv
<1>8. trace[ticksSeen][st] = log[st][i].value
  BY <1>1, <1>6, <1>7 DEF VInv, LogInv, Shown, LastShows
<1> QED
  BY <1>3, <1>4, <1>6, <1>8 DEF InForce, ValueAt

-----------------------------------------------------------------------------
(***************************************************************************)
(* What each verdict rests on at the moment of pass 2.                     *)
(***************************************************************************)
HostBreached == InForce(Host) > MaxHost

MemoryBreached ==
  \/ \E v \in LocalsInForce : v < MinLocal
  \/ MaxRatio > 0 /\ \E v, w \in LocalsInForce : v > MaxRatio * w
  \/ \E c \in Cards : InForce(Nonlocal(c)) # None /\ InForce(Nonlocal(c)) > MaxNonlocal

CardsLoaded ==
  Cardinality({c \in Cards : InForce(Local(c)) # None /\ InForce(Local(c)) >= MinLocal}) >= 2

HostWithinLimit == InForce(Host) # None /\ InForce(Host) <= MaxHost

Busy == Moves(Host) # {} /\ (CardsMove \/ CountersMove)

LEMMA Gates ==
  /\ Issue = "host_ram" => Known(Host) /\ LastOf(Host) > MaxHost
  /\ Issue = "vram" => ~VramOk
  /\ Issue = "healthy" => /\ Known(Host) /\ ~(LastOf(Host) > MaxHost)
                          /\ (VramKnown /\ VramOk) \/ (WorkKnown /\ WorkOk)
  /\ Known(Host) /\ (VramKnown \/ WorkKnown) =>
       Issue \in {"healthy", "host_ram", "vram", "card_work"}
BY DEF Issue

LEMMA HostBreachIsReal == ASSUME VInv, Issue = "host_ram" PROVE HostBreached
BY Gates, LastIsInForce DEF HostBreached

LEMMA LocalInForce ==
  ASSUME VInv, NEW c \in LocalCards
  PROVE  /\ LastOf(Local(c)) = InForce(Local(c)) /\ InForce(Local(c)) \in Nat
         /\ c \in Cards /\ InForce(Local(c)) \in LocalsInForce
<1>1. LastOf(Local(c)) = InForce(Local(c)) /\ InForce(Local(c)) \in Nat /\ c \in Cards
  BY LastIsInForce DEF LocalCards
<1>2. InForce(Local(c)) # None
  BY <1>1 DEF None
<1> QED
  BY <1>1, <1>2 DEF LocalsInForce

LEMMA MemoryBreachIsReal == ASSUME VInv, Issue = "vram" PROVE MemoryBreached
<1>1. ~VramOk
  BY Gates
<1>2. {MinLocal, MaxRatio, MaxNonlocal} \subseteq Nat
  BY LimitsAssumption
<1>3. CASE \E c \in LocalCards : ~(LastOf(Local(c)) >= MinLocal)
  <2> PICK c \in LocalCards : ~(LastOf(Local(c)) >= MinLocal)
    BY <1>3
  <2>1. InForce(Local(c)) < MinLocal /\ InForce(Local(c)) \in LocalsInForce
    BY <1>2, LocalInForce
  <2> QED
    BY <2>1 DEF MemoryBreached
<1>4. CASE MaxRatio > 0 /\ \E c, d \in LocalCards :
             ~(LastOf(Local(c)) <= MaxRatio * LastOf(Local(d)))
  <2> PICK c \in LocalCards, d \in LocalCards :
             ~(LastOf(Local(c)) <= MaxRatio * LastOf(Local(d)))
    BY <1>4
  <2>1. /\ LastOf(Local(c)) = InForce(Local(c)) /\ InForce(Local(c)) \in Nat
        /\ LastOf(Local(d)) = InForce(Local(d)) /\ InForce(Local(d)) \in Nat
        /\ InForce(Local(c)) \in LocalsInForce /\ InForce(Local(d)) \in LocalsInForce
    BY LocalInForce
  <2> DEFINE v == InForce(Local(c))
             w == InForce(Local(d))
  <2>2. v \in LocalsInForce /\ w \in LocalsInForce /\ v > MaxRatio * w
    <3>1. v \in Nat /\ w \in Nat /\ MaxRatio \in Nat /\ ~(v <= MaxRatio * w)
      BY <1>2, <2>1
    <3>2. v \in LocalsInForce /\ w \in LocalsInForce
      BY <2>1
    <3> HIDE DEF v, w
    <3>3. MaxRatio * w \in Nat
      BY <3>1
    <3> QED
      BY <3>1, <3>2, <3>3
  <2> QED
    BY <1>4, <2>2 DEF MemoryBreached
<1>5. CASE \E c \in Cards : Known(Nonlocal(c)) /\ ~(LastOf(Nonlocal(c)) <= MaxNonlocal)
  <2> PICK c \in Cards : Known(Nonlocal(c)) /\ ~(LastOf(Nonlocal(c)) <= MaxNonlocal)
    BY <1>5
  <2>1. LastOf(Nonlocal(c)) = InForce(Nonlocal(c)) /\ InForce(Nonlocal(c)) \in Nat
    BY LastIsInForce
  <2>2. InForce(Nonlocal(c)) > MaxNonlocal /\ InForce(Nonlocal(c)) # None
    BY <1>2, <2>1 DEF None
  <2> QED
    BY <2>2 DEF MemoryBreached
<1> QED
  BY <1>1, <1>3, <1>4, <1>5 DEF VramOk

\* Two cards known to be above the floor.
LEMMA LoadIsReal == ASSUME VInv, VramKnown, VramOk PROVE CardsLoaded
<1> DEFINE loaded == {c \in Cards : InForce(Local(c)) # None /\ InForce(Local(c)) >= MinLocal}
<1>1. \A c \in LocalCards : c \in loaded
  <2> TAKE c \in LocalCards
  <2>1. LastOf(Local(c)) >= MinLocal
    BY DEF VramOk
  <2>2. InForce(Local(c)) # None /\ c \in Cards
    BY LocalInForce DEF None
  <2> QED
    BY <2>1, <2>2, LocalInForce
<1>2. IsFiniteSet(loaded)
  BY CardsAssumption, FS_Subset
<1> HIDE DEF loaded
<1>3. Cardinality(loaded) >= 2
  BY <1>1, <1>2, MoreElements DEF VramKnown
<1> QED
  BY <1>3 DEF CardsLoaded, loaded

\* Two lines of a stream are two ticks, and the growth is that between them.
LEMMA GrowthIsReal ==
  ASSUME VInv, NEW st, Cardinality(InWindow(st)) >= 2
  PROVE  /\ FirstLine(st).ts - Start \in TicksInWindow /\ LastLine(st).ts - Start \in TicksInWindow
         /\ FirstLine(st).ts \in Nat /\ LastLine(st).ts \in Nat
         /\ FirstLine(st).ts < LastLine(st).ts
         /\ Growth(st) = Grew(st, FirstLine(st).ts - Start, LastLine(st).ts - Start)
         /\ Growth(st) \in Int
         /\ st \in rig
<1> DEFINE i == Min(InWindow(st))
           j == Max(InWindow(st))
<1>1. PICK a \in InWindow(st), b \in InWindow(st) : a # b
  BY WindowIsFinite, TwoElements
<1>2. Known(st)
  BY <1>1 DEF Known
<1>3. /\ st \in Streams /\ LinesOf(st) = log[st] /\ Len(log[st]) \in Nat
      /\ InWindow(st) \in SUBSET (1..Len(log[st]))
  BY <1>2, WindowLines
<1>4. /\ i \in InWindow(st) /\ j \in InWindow(st) /\ i <= a /\ i <= b /\ a <= j /\ b <= j
  BY <1>1, <1>2, WindowEnds
<1>5. FirstLine(st) = log[st][i] /\ LastLine(st) = log[st][j]
  BY <1>3 DEF FirstLine, LastLine
<1> HIDE DEF i, j
<1>6. i < j /\ i \in 1..Len(log[st]) /\ j \in 1..Len(log[st])
  BY <1>1, <1>3, <1>4
<1>7. log[st][i].ts < log[st][j].ts
  BY <1>3, <1>6 DEF VInv, LogInv, Shown, LinesOrdered
<1>8. /\ log[st][i].ts - Start \in TicksInWindow /\ st \in rig
      /\ log[st][i].value = ValueAt(st, log[st][i].ts - Start)
      /\ log[st][i].ts \in Nat /\ log[st][i].value \in Nat
  BY <1>4, WindowTick
<1>9. /\ log[st][j].ts - Start \in TicksInWindow
      /\ log[st][j].value = ValueAt(st, log[st][j].ts - Start)
      /\ log[st][j].ts \in Nat /\ log[st][j].value \in Nat
  BY <1>4, WindowTick
<1>10. /\ Number(ValueAt(st, log[st][i].ts - Start)) = log[st][i].value
       /\ Number(ValueAt(st, log[st][j].ts - Start)) = log[st][j].value
  BY <1>8, <1>9 DEF Number, None
<1>11. Growth(st) = log[st][j].value - log[st][i].value
  BY <1>5 DEF Growth, LastOf
<1>12. Growth(st) = Grew(st, log[st][i].ts - Start, log[st][j].ts - Start)
  BY <1>10, <1>11 DEF Grew
<1>13. Growth(st) \in Int
  BY <1>8, <1>9, <1>11
<1> QED
  BY <1>5, <1>7, <1>8, <1>9, <1>12, <1>13

LEMMA WorkIsReal == ASSUME VInv, WorkKnown, WorkOk PROVE CardWorked
<1> DEFINE from == FirstLine(Energy).ts - Start
           to == LastLine(Energy).ts - Start
           f == FirstLine(Activity).ts - Start
           t == LastLine(Activity).ts - Start
<1>1. Cardinality(InWindow(Energy)) >= 2 /\ Cardinality(InWindow(Activity)) >= 2
  BY DEF WorkKnown
<1>2. /\ from \in TicksInWindow /\ to \in TicksInWindow /\ Energy \in rig
      /\ FirstLine(Energy).ts \in Nat /\ LastLine(Energy).ts \in Nat
      /\ FirstLine(Energy).ts < LastLine(Energy).ts
      /\ Growth(Energy) = Grew(Energy, from, to)
  BY <1>1, GrowthIsReal
<1>3. /\ f \in TicksInWindow /\ t \in TicksInWindow /\ Activity \in rig
      /\ FirstLine(Activity).ts \in Nat /\ LastLine(Activity).ts \in Nat
      /\ FirstLine(Activity).ts < LastLine(Activity).ts
      /\ Growth(Activity) = Grew(Activity, f, t)
  BY <1>1, GrowthIsReal
<1>4. Start \in Nat
  BY ClockAssumption
<1>5. from < to /\ f < t /\ WorkSpan = to - from
  BY <1>2, <1>3, <1>4 DEF WorkSpan
<1>6. /\ Growth(Energy) >= MinWatts * WorkSpan
      /\ 100 * Growth(Activity) >= MinActivity * WorkSpan
  BY DEF WorkOk
<1> HIDE DEF from, to, f, t
<1>7. DrewPower(from, to)
  BY <1>2, <1>5, <1>6 DEF DrewPower
<1>8. 100 * Grew(Activity, f, t) >= MinActivity * (to - from)
  BY <1>3, <1>5, <1>6
<1> QED
  BY <1>2, <1>3, <1>5, <1>7, <1>8 DEF CardWorked

\* A change inside the window is a line inside the window.
LEMMA MoveHasLine ==
  ASSUME VInv, NEW st, NEW t \in Moves(st)
  PROVE  \E i \in InWindow(st) : LinesOf(st)[i].ts = Start + t
<1>1. st \in rig /\ t \in TicksInWindow /\ ValueAt(st, t) # ValueAt(st, t - 1)
  BY DEF Moves
<1>2. /\ st \in Streams /\ ticksSeen \in 0..Len(trace) /\ Len(trace) \in Nat /\ Start \in Nat
      /\ ticksSeen \in Nat /\ window.first \in Nat /\ window.last \in Nat
  BY <1>1, ClockAssumption DEF VInv, TypeInv, TypeOK, Streams
<1>3. t \in 1..Len(trace) /\ window.first <= Start + t /\ Start + t <= window.last
  BY <1>1, <1>2 DEF TicksInWindow
<1>4. trace[t][st] # ValueIn(trace, st, t - 1)
  BY <1>1, <1>3 DEF ValueAt, ValueIn
<1>5. PICK i \in 1..Len(log[st]) : log[st][i].ts = Start + t
  BY <1>2, <1>3, <1>4 DEF VInv, LogInv, Shown, ChangesShown
<1>6. LinesOf(st) = log[st] /\ i \in DOMAIN LinesOf(st)
  BY <1>2, LinesAreTyped DEF VInv, LinesOf
<1> QED
  BY <1>3, <1>5, <1>6 DEF InWindow

LEMMA TwoMovesTwoLines ==
  ASSUME VInv, NEW st, Cardinality(Moves(st)) >= 2
  PROVE  Cardinality(InWindow(st)) >= 2
<1>1. IsFiniteSet(Moves(st))
  <2>1. ticksSeen \in Nat
    BY DEF VInv, TypeInv, TypeOK
  <2>2. IsFiniteSet(1..ticksSeen)
    BY <2>1, FS_Interval
  <2>3. Moves(st) \in SUBSET (1..ticksSeen)
    BY DEF Moves, TicksInWindow
  <2> QED
    BY <2>2, <2>3, FS_Subset
<1>2. PICK t \in Moves(st), u \in Moves(st) : t # u
  BY <1>1, TwoElements
<1>3. PICK i \in InWindow(st) : LinesOf(st)[i].ts = Start + t
  BY MoveHasLine
<1>4. PICK j \in InWindow(st) : LinesOf(st)[j].ts = Start + u
  BY MoveHasLine
<1>5. i # j
  <2>1. t \in Nat /\ u \in Nat /\ Start \in Nat
    BY ClockAssumption DEF Moves, TicksInWindow
  <2>2. Start + t # Start + u
    BY <1>2, <2>1
  <2> QED
    BY <1>3, <1>4, <2>2
<1> QED
  BY <1>5, WindowIsFinite, AtLeastTwo

LEMMA BusyIsJudged ==
  ASSUME VInv, Busy
  PROVE  Issue \in {"healthy", "host_ram", "vram", "card_work"}
<1>1. Known(Host)
  BY MoveHasLine DEF Busy, Known
<1>2. CASE CardsMove
  <2> DEFINE moving == {c \in Cards : Moves(Local(c)) # {}}
  <2>1. \A c \in moving : c \in LocalCards
    BY MoveHasLine DEF LocalCards, Known
  <2>2. IsFiniteSet(LocalCards)
    BY CardsAssumption, FS_Subset DEF LocalCards
  <2>3. Cardinality(moving) >= 2
    BY <1>2 DEF CardsMove
  <2> HIDE DEF moving
  <2>4. Cardinality(LocalCards) >= 2
    BY <2>1, <2>2, <2>3, MoreElements
  <2> QED
    BY <1>1, <2>4, Gates DEF VramKnown
<1>3. CASE CountersMove
  <2>1. Cardinality(InWindow(Energy)) >= 2 /\ Cardinality(InWindow(Activity)) >= 2
    BY <1>3, TwoMovesTwoLines DEF CountersMove
  <2>2. /\ FirstLine(Energy).ts \in Nat /\ LastLine(Energy).ts \in Nat
        /\ FirstLine(Energy).ts < LastLine(Energy).ts
    BY <2>1, GrowthIsReal
  <2>3. WorkSpan > 0
    BY <2>2 DEF WorkSpan
  <2> QED
    BY <1>1, <2>1, <2>3, Gates DEF WorkKnown
<1> QED
  BY <1>2, <1>3 DEF Busy

-----------------------------------------------------------------------------
(***************************************************************************)
(* A verdict stays true until the next one: ticks are only appended, and   *)
(* what it speaks of ends where pass 1 stopped.                            *)
(***************************************************************************)
KeepsView ==
  /\ UNCHANGED <<rig, window, ticksSeen>>
  /\ \A st \in Streams, t \in 0..ticksSeen : ValueAt(st, t)' = ValueAt(st, t)

LEMMA TickKeepsView ==
  ASSUME VInv, NEW sides \in [rig -> Sides], Tick(Reading(sides))
  PROVE  KeepsView
<1>1. /\ trace \in Seq([Streams -> Values]) /\ ticksSeen \in 0..Len(trace) /\ Len(trace) \in Nat
      /\ Reading(sides) \in [Streams -> Values]
      /\ trace' = Append(trace, Reading(sides))
  BY ReadingIsTyped DEF VInv, TypeInv, TypeOK, Values, Tick
<1>2. \A t \in 1..Len(trace) : trace'[t] = trace[t]
  BY <1>1
<1>3. ASSUME NEW st \in Streams, NEW t \in 0..ticksSeen
      PROVE  ValueAt(st, t)' = ValueAt(st, t)
  <2>1. t = 0 \/ t \in 1..Len(trace)
    BY <1>1
  <2> QED
    BY <1>2, <2>1 DEF ValueAt
<1> QED
  BY <1>3 DEF KeepsView, Tick

LEMMA UnchangedKeepsView ==
  ASSUME UNCHANGED <<rig, trace, window, ticksSeen>>
  PROVE  KeepsView
BY DEF KeepsView, ValueAt

LEMMA InForceKept ==
  ASSUME VInv, KeepsView, NEW st
  PROVE  InForce(st)' = InForce(st)
<1>1. ticksSeen \in 0..ticksSeen /\ (st \in rig => st \in Streams)
  BY DEF VInv, TypeInv, TypeOK, Streams
<1>2. st \in rig => ValueAt(st, ticksSeen)' = ValueAt(st, ticksSeen)
  BY <1>1 DEF KeepsView
<1> QED
  BY <1>2 DEF InForce, KeepsView

LEMMA LocalsKept == ASSUME VInv, KeepsView PROVE LocalsInForce' = LocalsInForce
<1>1. \A c \in Cards : InForce(Local(c))' = InForce(Local(c))
  BY InForceKept
<1> QED
  BY <1>1 DEF LocalsInForce

LEMMA MemoryBreachKept == ASSUME VInv, KeepsView, MemoryBreached PROVE MemoryBreached'
<1>1. \A c \in Cards : InForce(Nonlocal(c))' = InForce(Nonlocal(c))
  BY InForceKept
<1> QED
  BY <1>1, LocalsKept DEF MemoryBreached

LEMMA LoadKept == ASSUME VInv, KeepsView, CardsLoaded PROVE CardsLoaded'
<1>1. \A c \in Cards : InForce(Local(c))' = InForce(Local(c))
  BY InForceKept
<1>2. {c \in Cards : InForce(Local(c))' # None /\ InForce(Local(c))' >= MinLocal}
        = {c \in Cards : InForce(Local(c)) # None /\ InForce(Local(c)) >= MinLocal}
  BY <1>1
<1> QED
  BY <1>2 DEF CardsLoaded

LEMMA TicksKept ==
  ASSUME KeepsView
  PROVE  TicksInWindow' = TicksInWindow
BY DEF KeepsView, TicksInWindow

LEMMA GrewKept ==
  ASSUME VInv, KeepsView, NEW st, st \in rig, NEW from \in TicksInWindow, NEW to \in TicksInWindow
  PROVE  Grew(st, from, to)' = Grew(st, from, to)
<1>1. st \in Streams /\ from \in 0..ticksSeen /\ to \in 0..ticksSeen
  BY DEF VInv, TypeInv, TypeOK, Streams, TicksInWindow
<1>2. ValueAt(st, from)' = ValueAt(st, from) /\ ValueAt(st, to)' = ValueAt(st, to)
  BY <1>1 DEF KeepsView
<1> QED
  BY <1>2 DEF Grew, Number

LEMMA WorkKept == ASSUME VInv, KeepsView, CardWorked PROVE CardWorked'
<1>1. Energy \in rig /\ Activity \in rig /\ rig' = rig
  BY DEF CardWorked, KeepsView
<1>2. PICK from \in TicksInWindow, to \in TicksInWindow :
        /\ DrewPower(from, to)
        /\ \E f, t \in TicksInWindow :
             f < t /\ 100 * Grew(Activity, f, t) >= MinActivity * (to - from)
  BY DEF CardWorked
<1>3. PICK f \in TicksInWindow, t \in TicksInWindow :
        f < t /\ 100 * Grew(Activity, f, t) >= MinActivity * (to - from)
  BY <1>2
<1>4. Grew(Energy, from, to)' = Grew(Energy, from, to)
  BY <1>1, GrewKept
<1>5. Grew(Activity, f, t)' = Grew(Activity, f, t)
  BY <1>1, GrewKept
<1>6. DrewPower(from, to)'
  BY <1>2, <1>4 DEF DrewPower
<1>7. \E x, y \in TicksInWindow : x < y /\ 100 * Grew(Activity, x, y)' >= MinActivity * (to - from)
  BY <1>3, <1>5
<1> QED
  BY <1>1, <1>6, <1>7, TicksKept DEF CardWorked

LEMMA MovesKept == ASSUME VInv, KeepsView, NEW st PROVE Moves(st)' = Moves(st)
<1>1. ASSUME NEW t \in TicksInWindow, st \in rig
      PROVE  ValueAt(st, t)' = ValueAt(st, t) /\ ValueAt(st, t - 1)' = ValueAt(st, t - 1)
  <2>1. st \in Streams /\ t \in 0..ticksSeen /\ t - 1 \in 0..ticksSeen
    BY <1>1 DEF VInv, TypeInv, TypeOK, Streams, TicksInWindow
  <2> QED
    BY <2>1 DEF KeepsView
<1>2. TicksInWindow' = TicksInWindow /\ rig' = rig
  BY TicksKept DEF KeepsView
<1> QED
  BY <1>1, <1>2 DEF Moves

LEMMA BusyKept == ASSUME VInv, KeepsView, Busy' PROVE Busy
<1>1. Moves(Host)' = Moves(Host) /\ Moves(Energy)' = Moves(Energy)
      /\ Moves(Activity)' = Moves(Activity)
  BY MovesKept
<1>2. \A c \in Cards : Moves(Local(c))' = Moves(Local(c))
  BY MovesKept
<1>3. {c \in Cards : Moves(Local(c))' # {}} = {c \in Cards : Moves(Local(c)) # {}}
  BY <1>2
<1> QED
  BY <1>1, <1>3 DEF Busy, CardsMove, CountersMove

-----------------------------------------------------------------------------
(***************************************************************************)
(* The steps, as far as a claim about the last verdict is concerned.       *)
(***************************************************************************)
LEMMA Steps ==
  ASSUME VInv, [Next]_vars
  PROVE  \/ KeepsView /\ issue' = issue
         \/ KeepsView /\ issue' = "no_timestamps" /\ Stamps = {}
         \/ issue' = "pending"
         \/ KeepsView /\ issue' = Issue
<1>1. CASE UNCHANGED vars
  BY <1>1, UnchangedKeepsView DEF vars
<1>2. ASSUME NEW sides \in [rig -> Sides], Tick(Reading(sides))
      PROVE  KeepsView /\ issue' = issue
  BY <1>2, TickKeepsView DEF Tick
<1>3. CASE NoTimestamps
  BY <1>3, UnchangedKeepsView DEF NoTimestamps
<1>4. CASE PassOne
  BY <1>4 DEF PassOne
<1>5. CASE PassTwo
  BY <1>5, UnchangedKeepsView DEF PassTwo
<1> QED
  BY <1>1, <1>2, <1>3, <1>4, <1>5 DEF Next

\* Without a time stamp there was no tick with a change to speak of.
LEMMA NoStampsNotBusy == ASSUME VInv, Stamps = {} PROVE ~Busy
<1>1. \A st \in Streams : log[st] = << >>
  <2> SUFFICES ASSUME NEW st \in Streams, log[st] # << >>
               PROVE  FALSE
    OBVIOUS
  <2>1. log[st] \in Seq(Line)
    BY LinesAreTyped DEF VInv
  <2>2. 1 \in 1..Len(log[st])
    BY <2>1
  <2> QED
    BY <2>2, StampsBounded
<1>2. ticksSeen \in Nat /\ ~(ticksSeen > 0)
  BY <1>1 DEF VInv, WindowInv, TypeInv, TypeOK
<1>3. TicksInWindow = {}
  BY <1>2 DEF TicksInWindow
<1> QED
  BY <1>3 DEF Busy, Moves

-----------------------------------------------------------------------------
(***************************************************************************)
(* The theorems.                                                           *)
(***************************************************************************)
\* The invariant holds of the specification.
THEOREM InvariantHolds == Spec => []VInv
<1>1. Init => VInv
  BY InitInv
<1>2. VInv /\ [Next]_vars => VInv'
  BY StepInv
<1> QED
  BY <1>1, <1>2, PTL DEF Spec

\* Window, log and verdict stay what their types say: the window never starts
\* before the clock does, whatever the clock shows.
THEOREM TypeCorrect == Spec => []TypeOK
<1>1. VInv => TypeOK
  BY DEF VInv, TypeInv
<1> QED
  BY <1>1, InvariantHolds, PTL

\* A verdict that a memory limit is breached is true of the values in force when
\* pass 1 read the log.
THEOREM BreachesAreReal == Spec => []BreachIsReal
<1> DEFINE Claim == /\ issue = "host_ram" => HostBreached
                    /\ issue = "vram" => MemoryBreached
<1>1. Claim <=> BreachIsReal
  BY DEF BreachIsReal, HostBreached, MemoryBreached
<1>2. Init => Claim
  BY DEF Init
<1>3. VInv /\ Claim /\ [Next]_vars => Claim'
  <2> SUFFICES ASSUME VInv, Claim, [Next]_vars
               PROVE  Claim'
    OBVIOUS
  <2>1. ASSUME KeepsView, HostBreached PROVE HostBreached'
    BY <2>1, InForceKept DEF HostBreached
  <2>2. CASE KeepsView /\ issue' = issue
    BY <2>1, <2>2, MemoryBreachKept
  <2>3. CASE issue' \in {"no_timestamps", "pending"}
    BY <2>3
  <2>4. CASE KeepsView /\ issue' = Issue
    BY <2>1, <2>4, MemoryBreachKept, HostBreachIsReal, MemoryBreachIsReal
  <2> QED
    BY <2>2, <2>3, <2>4, Steps
<1> HIDE DEF Claim
<1> QED
  BY <1>1, <1>2, <1>3, InvariantHolds, PTL DEF Spec

\* "healthy" rests on the host's memory and on two cards' or the healthy card's work.
THEOREM HealthyRestsOnEvidence == Spec => []HealthyIsWarranted
<1> DEFINE Claim == issue = "healthy" => HostWithinLimit /\ (CardsLoaded \/ CardWorked)
<1>1. Claim <=> HealthyIsWarranted
  BY DEF HealthyIsWarranted, HostWithinLimit, CardsLoaded
<1>2. Init => Claim
  BY DEF Init
<1>3. VInv /\ Claim /\ [Next]_vars => Claim'
  <2> SUFFICES ASSUME VInv, Claim, [Next]_vars
               PROVE  Claim'
    OBVIOUS
  <2>1. ASSUME KeepsView, HostWithinLimit PROVE HostWithinLimit'
    BY <2>1, InForceKept DEF HostWithinLimit
  <2>2. CASE KeepsView /\ issue' = issue
    BY <2>1, <2>2, LoadKept, WorkKept
  <2>3. CASE issue' \in {"no_timestamps", "pending"}
    BY <2>3
  <2>4. CASE KeepsView /\ issue' = Issue
    <3>1. CASE Issue = "healthy"
      <4>1. /\ Known(Host) /\ ~(LastOf(Host) > MaxHost)
            /\ (VramKnown /\ VramOk) \/ (WorkKnown /\ WorkOk)
        BY <3>1, Gates
      <4>2. HostWithinLimit
        <5>1. InForce(Host) = LastOf(Host) /\ LastOf(Host) \in Nat /\ MaxHost \in Nat
          BY <4>1, LastIsInForce, LimitsAssumption
        <5> QED
          BY <4>1, <5>1 DEF HostWithinLimit, None
      <4>3. CardsLoaded \/ CardWorked
        BY <4>1, LoadIsReal, WorkIsReal
      <4> QED
        BY <2>1, <2>4, <4>2, <4>3, LoadKept, WorkKept
    <3>2. CASE Issue # "healthy"
      BY <2>4, <3>2
    <3> QED
      BY <3>1, <3>2
  <2> QED
    BY <2>2, <2>3, <2>4, Steps
<1> HIDE DEF Claim
<1> QED
  BY <1>1, <1>2, <1>3, InvariantHolds, PTL DEF Spec

\* A rig on which enough moved inside the window is always judged.
THEOREM BusyRigsAreJudged == Spec => []BusyRigIsJudged
<1> DEFINE Judged == {"healthy", "host_ram", "vram", "card_work"}
           Claim == issue # "pending" /\ Busy => issue \in Judged
<1>1. Claim => BusyRigIsJudged
  BY DEF BusyRigIsJudged, Busy, ExitCode
<1>2. Init => Claim
  BY DEF Init
<1>3. VInv /\ Claim /\ [Next]_vars => Claim'
  <2> SUFFICES ASSUME VInv, Claim, [Next]_vars, issue' # "pending", Busy'
               PROVE  issue' \in Judged
    OBVIOUS
  <2>1. CASE KeepsView /\ issue' = issue
    BY <2>1, BusyKept
  <2>2. CASE KeepsView /\ issue' = "no_timestamps" /\ Stamps = {}
    BY <2>2, BusyKept, NoStampsNotBusy
  <2>3. CASE KeepsView /\ issue' = Issue
    BY <2>3, BusyKept, BusyIsJudged
  <2> QED
    BY <2>1, <2>2, <2>3, Steps
<1> HIDE DEF Claim
<1> QED
  BY <1>1, <1>2, <1>3, InvariantHolds, PTL DEF Spec
==============================================================================
