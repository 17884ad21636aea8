------------------------- MODULE EventPipelineProofs -------------------------
(***************************************************************************)
(* What the log promises its reader, proved with TLAPS for any streams,    *)
(* any values and any number of samples.                                   *)
(***************************************************************************)
EXTENDS EventPipeline, TLAPS

Sources == {st.source : st \in Streams}

Lines ==
  [kind : {"ms"}, key : Keys, source : Sources,
   value : Finite \cup {Null}, quality : {"plain", "degraded"}, reading : Readings]
  \cup [kind : {"st"}, adapter : Adapters]
  \cup [kind : {"dr"}, key : Keys, source : Sources]

TypeInv == TypeOK /\ log \in Seq(Lines)

StateLine(st) == [kind |-> "st", adapter |-> st.adapter]
ReportLine(st) == [kind |-> "dr", key |-> KeyOf(st), source |-> st.source]

LEMMA Concat ==
  ASSUME NEW S, NEW s \in Seq(S), NEW t \in Seq(S)
  PROVE  /\ s \o t \in Seq(S) /\ Len(s \o t) = Len(s) + Len(t)
         /\ \A i \in 1..Len(s) : (s \o t)[i] = s[i]
         /\ \A i \in 1..Len(t) : (s \o t)[Len(s) + i] = t[i]
OBVIOUS

LEMMA StreamTypes ==
  ASSUME NEW st \in Streams, NEW r \in Readings
  PROVE  /\ KeyOf(st) \in Keys /\ st.source \in Sources
         /\ KeyOf(st).adapter = st.adapter /\ KeyOf(st).metric = st.metric
         /\ st.adapter # HostAdapter => st.adapter \in Adapters
         /\ Quality(st, r) \in {"plain", "degraded"}
         /\ Emitted(st, r) \in Entries /\ Emitted(st, r) # None
         /\ Emitted(st, r).value = r /\ Emitted(st, r).quality = Quality(st, r)
         /\ MetricLine(st, r) \in Lines
<1>1. KeyOf(st) \in Keys /\ st.source \in Sources
  BY DEF Keys, Sources
<1>2. KeyOf(st).adapter = st.adapter /\ KeyOf(st).metric = st.metric
  BY DEF KeyOf
<1>3. st.adapter # HostAdapter => st.adapter \in Adapters
  BY DEF Adapters
<1>4. Quality(st, r) \in {"plain", "degraded"}
  BY DEF Quality
<1>5. Emitted(st, r) \in Entries /\ Emitted(st, r).value = r /\ Emitted(st, r).quality = Quality(st, r)
  BY <1>4 DEF Entries, Emitted
<1>6. Emitted(st, r) # None
  BY <1>5, ReadingsAssumption DEF None
<1>7. MetricLine(st, r) \in Lines
  BY <1>1, <1>4 DEF MetricLine, Lines, Encode
<1> QED
  BY <1>1, <1>2, <1>3, <1>4, <1>5, <1>6, <1>7

LEMMA LineFields ==
  ASSUME NEW st, NEW r
  PROVE  /\ MetricLine(st, r).kind = "ms" /\ MetricLine(st, r).key = KeyOf(st)
         /\ MetricLine(st, r).value = Encode(r) /\ MetricLine(st, r).quality = Quality(st, r)
         /\ MetricLine(st, r).reading = r
         /\ StateLine(st).kind = "st" /\ StateLine(st).adapter = st.adapter
         /\ ReportLine(st).kind = "dr" /\ ReportLine(st).key = KeyOf(st)
BY DEF MetricLine, StateLine, ReportLine

LEMMA ThreeParts ==
  ASSUME NEW a \in {0, 1}, NEW b \in {0, 1}, NEW c \in {0, 1}
  PROVE  a + b + c \in 0..3
OBVIOUS

LEMMA WhichPart ==
  ASSUME NEW a, NEW b, NEW c, NEW n,
         a \in {0, 1} /\ b \in {0, 1} /\ c \in {0, 1} /\ n \in 1..(a + b + c)
  PROVE  (a = 1 /\ n = 1) \/ (b = 1 /\ n = a + 1) \/ (c = 1 /\ n = a + b + 1)
OBVIOUS

(***************************************************************************)
(* What one publish appends: at most the writer's line, then the           *)
(* transition, then the report, in this order.                             *)
(***************************************************************************)
LEMMA FanOutShape ==
  ASSUME TypeInv, NEW st \in Streams, NEW r \in Readings, Deliver(st, r)
  PROVE  /\ log' \in Seq(Lines) /\ Len(log) \in Nat /\ Len(log') \in Nat /\ Len(log) <= Len(log')
         /\ \A i \in 1..Len(log) : log'[i] = log[i]
         /\ \A i \in (Len(log) + 1)..Len(log') :
              \/ i = Len(log) + 1 /\ ShouldEmit(st, r) /\ log'[i] = MetricLine(st, r)
              \/ /\ IsFirstEvidence(st, r) /\ log'[i] = StateLine(st)
                 /\ ShouldEmit(st, r) => i = Len(log) + 2
              \/ Offends(st, r) /\ i = Len(log') /\ log'[i] = ReportLine(st)
         /\ ShouldEmit(st, r) => Len(log) + 1 <= Len(log') /\ log'[Len(log) + 1] = MetricLine(st, r)
         /\ ShouldEmit(st, r) /\ IsFirstEvidence(st, r) =>
              Len(log) + 2 <= Len(log') /\ log'[Len(log) + 2] = StateLine(st)
<1> DEFINE A == WriterLines(st, r)
           B == FsmLines(st, r)
           C == RuleLines(st, r)
<1>1. A \in Seq(Lines) /\ IF ShouldEmit(st, r) THEN Len(A) = 1 /\ A[1] = MetricLine(st, r)
                                              ELSE Len(A) = 0
  BY StreamTypes DEF WriterLines
<1>2. B \in Seq(Lines) /\ IF IsFirstEvidence(st, r) THEN Len(B) = 1 /\ B[1] = StateLine(st)
                                                   ELSE Len(B) = 0
  <2>1. IsFirstEvidence(st, r) => StateLine(st) \in Lines
    BY StreamTypes DEF IsFirstEvidence, StateLine, Lines
  <2> QED
    BY <2>1 DEF FsmLines, StateLine
<1>3. C \in Seq(Lines) /\ IF Offends(st, r) THEN Len(C) = 1 /\ C[1] = ReportLine(st)
                                           ELSE Len(C) = 0
  <2>1. ReportLine(st) \in Lines
    BY StreamTypes DEF ReportLine, Lines
  <2> QED
    BY <2>1 DEF RuleLines, ReportLine
<1>4. log' = log \o ((A \o B) \o C) /\ log \in Seq(Lines)
  BY DEF Deliver, FanOut, TypeInv
<1> HIDE DEF A, B, C
<1>5. /\ A \o B \in Seq(Lines) /\ Len(A \o B) = Len(A) + Len(B)
      /\ \A i \in 1..Len(A) : (A \o B)[i] = A[i]
      /\ \A i \in 1..Len(B) : (A \o B)[Len(A) + i] = B[i]
  BY <1>1, <1>2, Concat
<1>6. /\ (A \o B) \o C \in Seq(Lines) /\ Len((A \o B) \o C) = Len(A \o B) + Len(C)
      /\ \A i \in 1..Len(A \o B) : ((A \o B) \o C)[i] = (A \o B)[i]
      /\ \A i \in 1..Len(C) : ((A \o B) \o C)[Len(A \o B) + i] = C[i]
  BY <1>3, <1>5, Concat
<1> DEFINE F == (A \o B) \o C
<1>7. /\ Len(F) = Len(A) + Len(B) + Len(C)
      /\ Len(A) = 1 => F[1] = A[1]
      /\ Len(B) = 1 => F[Len(A) + 1] = B[1]
      /\ Len(C) = 1 => F[Len(A) + Len(B) + 1] = C[1]
      /\ Len(A) \in {0, 1} /\ Len(B) \in {0, 1} /\ Len(C) \in {0, 1}
  BY <1>1, <1>2, <1>3, <1>5, <1>6
<1>8. /\ log \o F \in Seq(Lines) /\ Len(log \o F) = Len(log) + Len(F)
      /\ \A i \in 1..Len(log) : (log \o F)[i] = log[i]
      /\ \A i \in 1..Len(F) : (log \o F)[Len(log) + i] = F[i]
  BY <1>4, <1>6, Concat
<1>9. log' = log \o F
  BY <1>4
<1> HIDE DEF F
<1>10. Len(log) \in Nat /\ Len(F) \in 0..3
  <2>1. Len(log) \in Nat
    BY <1>4
  <2>2. Len(F) \in 0..3
    <3>1. Len(A) \in {0, 1} /\ Len(B) \in {0, 1} /\ Len(C) \in {0, 1}
      BY <1>7
    <3>2. Len(A) + Len(B) + Len(C) \in 0..3
      BY <3>1, ThreeParts
    <3>3. Len(F) = Len(A) + Len(B) + Len(C)
      BY <1>7
    <3> QED
      BY <3>2, <3>3
  <2> QED
    BY <2>1, <2>2
<1>11. /\ log' \in Seq(Lines) /\ Len(log') = Len(log) + Len(F)
       /\ \A i \in 1..Len(log) : log'[i] = log[i]
       /\ \A i \in 1..Len(F) : log'[Len(log) + i] = F[i]
  BY <1>8, <1>9
<1>12. ASSUME NEW i \in (Len(log) + 1)..Len(log')
       PROVE  \/ i = Len(log) + 1 /\ ShouldEmit(st, r) /\ log'[i] = MetricLine(st, r)
              \/ /\ IsFirstEvidence(st, r) /\ log'[i] = StateLine(st)
                 /\ ShouldEmit(st, r) => i = Len(log) + 2
              \/ Offends(st, r) /\ i = Len(log') /\ log'[i] = ReportLine(st)
  <2> DEFINE n == i - Len(log)
  <2>1. n \in 1..Len(F) /\ i = Len(log) + n
    BY <1>10, <1>11
  <2>2. log'[i] = F[n]
    BY <1>11, <2>1
  <2> HIDE DEF n
  <2>4. CASE Len(A) = 1 /\ n = 1
    BY <1>1, <1>7, <2>1, <2>2, <2>4
  <2>5. CASE Len(B) = 1 /\ n = Len(A) + 1
    <3>1. IsFirstEvidence(st, r) /\ log'[i] = StateLine(st)
      BY <1>2, <1>7, <2>2, <2>5
    <3>2. Len(A) = 1 => i = Len(log) + 2
      BY <1>10, <2>1, <2>5
    <3>3. ShouldEmit(st, r) => Len(A) = 1
      BY <1>1
    <3> QED
      BY <3>1, <3>2, <3>3
  <2>6. CASE Len(C) = 1 /\ n = Len(A) + Len(B) + 1
    BY <1>3, <1>7, <1>10, <1>11, <2>1, <2>2, <2>6
  <2>7. \/ Len(A) = 1 /\ n = 1
        \/ Len(B) = 1 /\ n = Len(A) + 1
        \/ Len(C) = 1 /\ n = Len(A) + Len(B) + 1
    <3>1. Len(A) \in {0, 1} /\ Len(B) \in {0, 1} /\ Len(C) \in {0, 1}
      BY <1>7
    <3>2. n \in 1..(Len(A) + Len(B) + Len(C))
      BY <1>7, <2>1
    <3> QED
      BY <3>1, <3>2, WhichPart
  <2> QED
    BY <2>4, <2>5, <2>6, <2>7
<1>13. ShouldEmit(st, r) => Len(log) + 1 <= Len(log') /\ log'[Len(log) + 1] = MetricLine(st, r)
  BY <1>1, <1>7, <1>10, <1>11
<1>14. ShouldEmit(st, r) /\ IsFirstEvidence(st, r) =>
         Len(log) + 2 <= Len(log') /\ log'[Len(log) + 2] = StateLine(st)
  BY <1>1, <1>2, <1>7, <1>10, <1>11
<1> QED
  BY <1>10, <1>11, <1>12, <1>13, <1>14

(***************************************************************************)
(* Every variable keeps its type, and the log holds nothing but lines.     *)
(***************************************************************************)
LEMMA Typed == Spec => []TypeInv
<1>1. Init => TypeInv
  BY BoundAssumption DEF Init, TypeInv, TypeOK, Entries
<1>2. TypeInv /\ [Next]_vars => TypeInv'
  <2> SUFFICES ASSUME TypeInv, [Next]_vars
               PROVE  TypeInv'
    OBVIOUS
  <2> USE DEF TypeInv, TypeOK
  <2>1. ASSUME NEW st \in Streams, NEW r \in Readings, Deliver(st, r),
               header' \subseteq HeaderStreams, published' \in 0..MaxPublish
        PROVE  TypeInv'
    <3>1. log' \in Seq(Lines)
      BY <2>1, FanOutShape
    <3>2. \A i \in DOMAIN log' : log'[i].kind \in {"ms", "st", "dr"}
      BY <3>1 DEF Lines
    <3>3. last' \in [Keys -> Entries] /\ current' \in [Keys -> Entries]
      BY <2>1, StreamTypes DEF Deliver
    <3>4. adapterState' \in [Adapters -> {"Unknown", "Idle"}]
      BY <2>1 DEF Deliver
    <3>5. sinceLine' \in [Keys -> Nat]
      BY <2>1, StreamTypes DEF Deliver
    <3> QED
      BY <2>1, <3>1, <3>2, <3>3, <3>4, <3>5
  <2>2. ASSUME NEW st \in Streams, NEW r \in Readings, PublishHeader(st, r)
        PROVE  TypeInv'
    BY <2>1, <2>2 DEF PublishHeader
  <2>3. ASSUME NEW st \in Streams, NEW r \in Readings, Publish(st, r)
        PROVE  TypeInv'
    <3>1. published' \in 0..MaxPublish
      BY <2>3, BoundAssumption DEF Publish
    <3> QED
      BY <2>1, <2>3, <3>1 DEF Publish
  <2>4. CASE UNCHANGED vars
    BY <2>4 DEF vars
  <2> QED
    BY <2>2, <2>3, <2>4 DEF Next
<1> QED
  BY <1>1, <1>2, PTL DEF Spec

THEOREM TypeCorrect == Spec => []TypeOK
BY Typed, PTL DEF TypeInv

-----------------------------------------------------------------------------
(***************************************************************************)
(* Reading a log.  Latest(lg, k, from, to, e) says that e is what the      *)
(* lines from..to of lg show of key k; unlike View it names the line.      *)
(***************************************************************************)
Latest(lg, k, from, to, e) ==
  IF e = None
    THEN \A i \in from..to : ~IsLineOf(k, lg[i])
    ELSE \E i \in from..to :
           /\ IsLineOf(k, lg[i]) /\ lg[i].value = Encode(e.value) /\ lg[i].quality = e.quality
           /\ lg[i].reading = e.value
           /\ \A j \in (i + 1)..to : ~IsLineOf(k, lg[j])

LEMMA MaxIs ==
  ASSUME NEW S \in SUBSET Int, NEW x \in S, \A y \in S : y <= x
  PROVE  Max(S) = x
<1>1. Max(S) \in S /\ \A y \in S : Max(S) >= y
  BY DEF Max
<1>2. Max(S) \in Int /\ x \in Int /\ Max(S) >= x /\ Max(S) <= x
  BY <1>1
<1> QED
  BY <1>2

LEMMA LatestIsView ==
  ASSUME NEW k, NEW from \in Nat, NEW to \in Nat, NEW e, Latest(log, k, from, to, e)
  PROVE  View(k, from, to) = Shown(e)
<1>1. CASE e = None
  BY <1>1 DEF Latest, View, LinesOf, Shown
<1>2. CASE e # None
  <2> PICK i \in from..to :
        /\ IsLineOf(k, log[i]) /\ log[i].value = Encode(e.value) /\ log[i].quality = e.quality
        /\ \A j \in (i + 1)..to : ~IsLineOf(k, log[j])
    BY <1>2 DEF Latest
  <2>1. LinesOf(k, from, to) \in SUBSET Int /\ i \in LinesOf(k, from, to)
    BY DEF LinesOf
  <2>2. \A j \in LinesOf(k, from, to) : j <= i
    BY DEF LinesOf
  <2>3. Max(LinesOf(k, from, to)) = i
    BY <2>1, <2>2, MaxIs
  <2> QED
    BY <1>2, <2>1, <2>3 DEF View, Shown
<1> QED
  BY <1>1, <1>2

\* Lines of other keys change nothing.
LEMMA LatestStays ==
  ASSUME NEW lg, NEW lh, NEW k, NEW e, NEW from \in Nat \ {0}, NEW to \in Nat, NEW end \in Nat,
         to <= end, \A i \in 1..to : lh[i] = lg[i],
         \A i \in (to + 1)..end : ~IsLineOf(k, lh[i]),
         Latest(lg, k, from, to, e)
  PROVE  Latest(lh, k, from, end, e)
<1>1. CASE e = None
  BY <1>1 DEF Latest
<1>2. CASE e # None
  <2> PICK i \in from..to :
        /\ IsLineOf(k, lg[i]) /\ lg[i].value = Encode(e.value) /\ lg[i].quality = e.quality
        /\ lg[i].reading = e.value
        /\ \A j \in (i + 1)..to : ~IsLineOf(k, lg[j])
    BY <1>2 DEF Latest
  <2>1. i \in from..end /\ lh[i] = lg[i]
    OBVIOUS
  <2>2. \A j \in (i + 1)..end : ~IsLineOf(k, lh[j])
    <3> TAKE j \in (i + 1)..end
    <3>1. CASE j <= to
      BY <3>1
    <3>2. CASE j > to
      BY <3>2
    <3> QED
      BY <3>1, <3>2
  <2> QED
    BY <1>2, <2>1, <2>2 DEF Latest
<1> QED
  BY <1>1, <1>2

\* A line of the key takes over.
LEMMA LatestMoves ==
  ASSUME NEW lh, NEW k, NEW e, NEW from \in Nat, NEW end \in Nat, NEW n \in from..end,
         e # None, IsLineOf(k, lh[n]), lh[n].value = Encode(e.value), lh[n].quality = e.quality,
         lh[n].reading = e.value, \A j \in (n + 1)..end : ~IsLineOf(k, lh[j])
  PROVE  Latest(lh, k, from, end, e)
BY DEF Latest

-----------------------------------------------------------------------------
(***************************************************************************)
(* The inductive invariant of the views: what the log shows of a key is    *)
(* what was published last, and so is what the filter remembers.           *)
(***************************************************************************)
ViewInv ==
  /\ \A k \in Keys : Latest(log, k, 1, Len(log), current[k])
  /\ \A k \in Keys : last[k] # None => last[k] = current[k]
  /\ \A k \in Keys : last[k] = None => current[k] = None

(***************************************************************************)
(* One publish: its key's latest line is the one just written, or the one  *)
(* that made the filter suppress the sample.                               *)
(***************************************************************************)
LEMMA DeliverView ==
  ASSUME TypeInv, ViewInv, NEW st \in Streams, NEW r \in Readings, Deliver(st, r)
  PROVE  ViewInv'
<1> DEFINE n == Len(log)
           m == Len(log')
           key == KeyOf(st)
           new == Emitted(st, r)
<1>1. /\ n \in Nat /\ m \in Nat /\ n <= m
      /\ \A i \in 1..n : log'[i] = log[i]
  BY FanOutShape
<1>2. ASSUME NEW i \in (n + 1)..m
      PROVE  \/ i = n + 1 /\ ShouldEmit(st, r) /\ log'[i] = MetricLine(st, r)
             \/ log'[i] = StateLine(st)
             \/ log'[i] = ReportLine(st)
  BY FanOutShape
<1>3. ASSUME NEW i \in (n + 1)..m
      PROVE  \A k \in Keys : IsLineOf(k, log'[i]) => i = n + 1 /\ k = key /\ ShouldEmit(st, r)
  <2>1. CASE i = n + 1 /\ ShouldEmit(st, r) /\ log'[i] = MetricLine(st, r)
    <3>1. log'[i].key = key
      BY <2>1, LineFields
    <3> QED
      BY <2>1, <3>1 DEF IsLineOf
  <2>2. CASE log'[i] = StateLine(st) \/ log'[i] = ReportLine(st)
    <3>1. log'[i].kind # "ms"
      BY <2>2, LineFields
    <3> QED
      BY <3>1 DEF IsLineOf
  <2> QED
    BY <1>2, <1>3, <2>1, <2>2
<1>4. ShouldEmit(st, r) => /\ n + 1 <= m /\ IsLineOf(key, log'[n + 1])
                           /\ log'[n + 1].value = Encode(new.value)
                           /\ log'[n + 1].quality = new.quality
                           /\ log'[n + 1].reading = new.value
  <2>1. ShouldEmit(st, r) => n + 1 <= m /\ log'[n + 1] = MetricLine(st, r)
    BY FanOutShape
  <2>2. new.value = r /\ new.quality = Quality(st, r)
    BY StreamTypes
  <2> HIDE DEF n, m, new
  <2> QED
    BY <2>1, <2>2, LineFields DEF IsLineOf
<1>5. /\ key \in Keys /\ new # None
      /\ current' = [current EXCEPT ![key] = new]
      /\ last' = IF ShouldEmit(st, r) THEN [last EXCEPT ![key] = new] ELSE last
      /\ ~ShouldEmit(st, r) => last[key] = new
  BY StreamTypes DEF Deliver, ShouldEmit, SameAsLast
<1> HIDE DEF n, m, key, new
<1>6. \A k \in Keys : /\ current'[k] = IF k = key THEN new ELSE current[k]
                      /\ last'[k] = IF k = key THEN new ELSE last[k]
  BY <1>5 DEF TypeInv, TypeOK
<1>7. ~ShouldEmit(st, r) => current[key] = new
  BY <1>5 DEF ViewInv
<1>8. ASSUME NEW from \in Nat \ {0}, from <= n + 1, NEW k \in Keys, NEW e,
             Latest(log, k, from, n, e), ~(ShouldEmit(st, r) /\ k = key)
      PROVE  Latest(log', k, from, m, e)
  <2>1. \A i \in (n + 1)..m : ~IsLineOf(k, log'[i])
    BY <1>3, <1>8
  <2> QED
    BY <1>1, <1>8, <2>1, LatestStays
<1>9. ASSUME NEW from \in Nat \ {0}, from <= n + 1, ShouldEmit(st, r)
      PROVE  Latest(log', key, from, m, new)
  <2>1. n + 1 \in from..m
    BY <1>1, <1>4, <1>9
  <2>2. \A j \in (n + 1 + 1)..m : ~IsLineOf(key, log'[j])
    BY <1>1, <1>3, <1>5
  <2> QED
    BY <1>1, <1>4, <1>5, <1>9, <2>1, <2>2, LatestMoves
<1>10. \A k \in Keys : Latest(log', k, 1, m, current'[k])
  <2> TAKE k \in Keys
  <2>1. Latest(log, k, 1, n, current[k])
    BY DEF ViewInv, n
  <2>2. CASE ShouldEmit(st, r) /\ k = key
    BY <1>1, <1>6, <1>9, <2>2
  <2>3. CASE ~(ShouldEmit(st, r) /\ k = key)
    <3>1. current'[k] = current[k]
      BY <1>6, <1>7, <2>3
    <3> QED
      BY <1>1, <1>8, <2>1, <2>3, <3>1
  <2> QED
    BY <2>2, <2>3
<1>11. \A k \in Keys : last'[k] # None => last'[k] = current'[k]
  BY <1>6 DEF ViewInv
<1>12. \A k \in Keys : last'[k] = None => current'[k] = None
  BY <1>5, <1>6 DEF ViewInv
<1> QED
  BY <1>10, <1>11, <1>12 DEF ViewInv, m

LEMMA Views == Spec => []ViewInv
<1>1. Init => ViewInv
  <2> SUFFICES ASSUME Init PROVE ViewInv
    OBVIOUS
  <2>1. Len(log) = 0 /\ \A k \in Keys : last[k] = None /\ current[k] = None
    BY DEF Init
  <2> QED
    BY <2>1 DEF ViewInv, Latest
<1>2. TypeInv /\ ViewInv /\ [Next]_vars => ViewInv'
  BY DeliverView DEF Next, PublishHeader, Publish, vars, ViewInv
<1> QED
  BY <1>1, <1>2, Typed, PTL DEF Spec

(***************************************************************************)
(* A reader of the whole log knows every value published last, however     *)
(* many samples the filter dropped.                                        *)
(***************************************************************************)
THEOREM WholeLogIsCurrent == Spec => []LogShowsCurrent
<1>1. TypeInv /\ ViewInv => LogShowsCurrent
  <2> SUFFICES ASSUME TypeInv, ViewInv, NEW k \in Keys
               PROVE  View(k, 1, Len(log)) = Shown(current[k])
    BY DEF LogShowsCurrent
  <2>1. Len(log) \in Nat /\ Latest(log, k, 1, Len(log), current[k])
    BY DEF TypeInv, ViewInv
  <2> QED
    BY <2>1, LatestIsView
<1> QED
  BY <1>1, Typed, Views, PTL

-----------------------------------------------------------------------------
(***************************************************************************)
(* Two lines of a key without another line of it between them: the first   *)
(* is what the filter remembered when it let the second through.           *)
(***************************************************************************)
Apart(lg, i, j) ==
  /\ i < j /\ lg[i].kind = "ms" /\ lg[j].kind = "ms" /\ lg[i].key = lg[j].key
  /\ \A m \in (i + 1)..(j - 1) : ~IsLineOf(lg[i].key, lg[m])

Differ(line, other) ==
  \/ line.reading # other.reading \/ line.quality # other.quality
  \/ line.reading = NaN /\ other.quality = "plain"

LEMMA WrittenDiffers ==
  ASSUME TypeInv, ViewInv, NEW st \in Streams, NEW r \in Readings, ShouldEmit(st, r),
         NEW i \in 1..Len(log), IsLineOf(KeyOf(st), log[i]),
         \A m \in (i + 1)..Len(log) : ~IsLineOf(KeyOf(st), log[m])
  PROVE  \/ log[i].reading # r \/ log[i].quality # Quality(st, r)
         \/ log[i].reading = NaN /\ Quality(st, r) = "plain"
<1> DEFINE key == KeyOf(st)
<1>1. key \in Keys /\ Len(log) \in Nat
  BY StreamTypes DEF TypeInv
<1>2. Latest(log, key, 1, Len(log), current[key])
  BY <1>1 DEF ViewInv
<1>3. current[key] # None
  BY <1>2 DEF Latest
<1>4. last[key] = current[key]
  BY <1>1, <1>3 DEF ViewInv
<1> PICK w \in 1..Len(log) :
      /\ IsLineOf(key, log[w]) /\ log[w].quality = last[key].quality
      /\ log[w].reading = last[key].value
      /\ \A j \in (w + 1)..Len(log) : ~IsLineOf(key, log[j])
  BY <1>2, <1>3, <1>4 DEF Latest
<1>5. w = i
  BY <1>1
<1>6. last[key] \in [value : Readings, quality : {"plain", "degraded"}]
  BY <1>1, <1>3, <1>4 DEF TypeInv, TypeOK, Entries
<1>7. last[key] # Emitted(st, r) \/ r = NaN
  BY StreamTypes DEF ShouldEmit, SameAsLast
<1>8. CASE last[key] # Emitted(st, r)
  BY <1>5, <1>6, <1>8 DEF Emitted
<1>9. CASE r = NaN
  <2>1. Quality(st, r) = "plain"
    BY <1>9, ReadingsAssumption DEF Quality
  <2> QED
    BY <1>9, <2>1
<1> QED
  BY <1>7, <1>8, <1>9

(***************************************************************************)
(* Nothing is written twice in a row.                                      *)
(***************************************************************************)
THEOREM NothingTwice == Spec => []NoRepeatedLine
<1> DEFINE Inv == \A i, j \in 1..Len(log) : Apart(log, i, j) => Differ(log[i], log[j])
<1>1. TypeInv /\ Inv => NoRepeatedLine
  <2> SUFFICES ASSUME TypeInv, Inv, NEW i \in DOMAIN log, NEW j \in DOMAIN log, Apart(log, i, j)
               PROVE  Differ(log[i], log[j])
    BY DEF NoRepeatedLine, Apart, Differ
  <2>1. DOMAIN log = 1..Len(log)
    BY DEF TypeInv
  <2> QED
    BY <2>1
<1>2. Init => Inv
  BY DEF Init
<1>3. ASSUME TypeInv, ViewInv, Inv, NEW st \in Streams, NEW r \in Readings, Deliver(st, r)
      PROVE  Inv'
  <2> SUFFICES ASSUME NEW i \in 1..Len(log'), NEW j \in 1..Len(log'), Apart(log', i, j)
               PROVE  Differ(log'[i], log'[j])
    OBVIOUS
  <2>1. /\ Len(log) \in Nat /\ Len(log') \in Nat /\ Len(log) <= Len(log')
        /\ \A h \in 1..Len(log) : log'[h] = log[h]
    BY <1>3, FanOutShape
  <2>2. i < j
    BY DEF Apart
  <2>3. CASE j <= Len(log)
    <3>1. i \in 1..Len(log) /\ j \in 1..Len(log)
      BY <2>1, <2>2, <2>3
    <3>2. \A h \in (i + 1)..(j - 1) : log'[h] = log[h]
      BY <2>1, <3>1
    <3>3. Apart(log, i, j)
      BY <2>1, <3>1, <3>2 DEF Apart
    <3> QED
      BY <1>3, <2>1, <3>1, <3>3
  <2>4. CASE j > Len(log)
    <3>1. j \in (Len(log) + 1)..Len(log') /\ log'[j].kind = "ms"
      BY <2>1, <2>4 DEF Apart
    <3>2. j = Len(log) + 1 /\ ShouldEmit(st, r) /\ log'[j] = MetricLine(st, r)
      BY <1>3, <3>1, FanOutShape, LineFields
    <3>3. i \in 1..Len(log) /\ log'[i] = log[i] /\ j - 1 = Len(log)
      BY <2>1, <2>2, <3>2
    <3>4. IsLineOf(KeyOf(st), log[i])
      BY <3>2, <3>3, LineFields DEF Apart, IsLineOf
    <3>5. \A m \in (i + 1)..Len(log) : ~IsLineOf(KeyOf(st), log[m])
      <4> TAKE m \in (i + 1)..Len(log)
      <4>1. log'[m] = log[m] /\ m \in (i + 1)..(j - 1)
        BY <2>1, <3>3
      <4>2. log'[i].key = KeyOf(st)
        BY <3>3, <3>4 DEF IsLineOf
      <4> QED
        BY <4>1, <4>2 DEF Apart
    <3>6. \/ log[i].reading # r \/ log[i].quality # Quality(st, r)
          \/ log[i].reading = NaN /\ Quality(st, r) = "plain"
      BY <1>3, <3>2, <3>3, <3>4, <3>5, WrittenDiffers
    <3> QED
      BY <3>2, <3>3, <3>6, LineFields DEF Differ
  <2> QED
    BY <2>1, <2>3, <2>4
<1>4. TypeInv /\ ViewInv /\ Inv /\ [Next]_vars => Inv'
  <2> HIDE DEF Inv
  <2>1. UNCHANGED vars /\ Inv => Inv'
    BY DEF vars, Inv
  <2> QED
    BY <1>3, <2>1 DEF Next, PublishHeader, Publish
<1> QED
  BY <1>1, <1>2, <1>4, Typed, Views, PTL DEF Spec

-----------------------------------------------------------------------------
(***************************************************************************)
(* Every report has its value before it: the report comes last in its      *)
(* publish, after the line of the sample or of the equal one before it.    *)
(***************************************************************************)
Explained(lg, i) ==
  \E e \in Entries :
    e # None /\ Encode(e.value) \in Implausible \cup {Null} /\ Latest(lg, lg[i].key, 1, i, e)

LEMMA OffenceIsSeen ==
  ASSUME NEW st \in Streams, NEW r \in Readings, Offends(st, r)
  PROVE  Encode(Emitted(st, r).value) \in Implausible \cup {Null}
BY ReadingsAssumption DEF Offends, OutsideEnvelope, ExceedsMemory, Emitted, Encode

LEMMA ExplainedStays ==
  ASSUME NEW lg, NEW lh, NEW n \in Nat, \A h \in 1..n : lh[h] = lg[h],
         NEW i \in 1..n, Explained(lg, i)
  PROVE  Explained(lh, i)
<1> PICK e \in Entries :
      e # None /\ Encode(e.value) \in Implausible \cup {Null} /\ Latest(lg, lg[i].key, 1, i, e)
  BY DEF Explained
<1>1. \A h \in 1..i : lh[h] = lg[h]
  OBVIOUS
<1>2. \A h \in (i + 1)..i : ~IsLineOf(lg[i].key, lh[h])
  OBVIOUS
<1>3. Latest(lh, lg[i].key, 1, i, e)
  BY <1>1, <1>2, LatestStays
<1> QED
  BY <1>3 DEF Explained

THEOREM ReportsHaveCause == Spec => []ReportsExplained
<1> DEFINE Inv == \A i \in 1..Len(log) : log[i].kind = "dr" => log[i].key \in Keys /\ Explained(log, i)
<1>1. TypeInv /\ Inv => ReportsExplained
  <2> SUFFICES ASSUME TypeInv, Inv, NEW i \in DOMAIN log, log[i].kind = "dr"
               PROVE  LET seen == View(log[i].key, 1, i)
                      IN  seen # None /\ (seen.value \in Implausible \/ seen.value = Null)
    BY DEF ReportsExplained
  <2>1. i \in 1..Len(log) /\ i \in Nat
    BY DEF TypeInv
  <2> PICK e \in Entries :
        e # None /\ Encode(e.value) \in Implausible \cup {Null} /\ Latest(log, log[i].key, 1, i, e)
    BY <2>1 DEF Explained
  <2>2. View(log[i].key, 1, i) = [value |-> Encode(e.value), quality |-> e.quality]
    BY <2>1, LatestIsView DEF Shown
  <2>3. [value |-> Encode(e.value), quality |-> e.quality] # None
    <3>1. Encode(e.value) # Unset
      BY ReadingsAssumption DEF Null
    <3> QED
      BY <3>1 DEF None
  <2> QED
    BY <2>2, <2>3
<1>2. Init => Inv
  BY DEF Init
<1>3. ASSUME TypeInv, ViewInv, Inv, NEW st \in Streams, NEW r \in Readings, Deliver(st, r)
      PROVE  Inv'
  <2> SUFFICES ASSUME NEW i \in 1..Len(log'), log'[i].kind = "dr"
               PROVE  log'[i].key \in Keys /\ Explained(log', i)
    OBVIOUS
  <2>1. /\ Len(log) \in Nat /\ Len(log') \in Nat /\ Len(log) <= Len(log')
        /\ \A h \in 1..Len(log) : log'[h] = log[h]
    BY <1>3, FanOutShape
  <2>2. CASE i <= Len(log)
    <3>1. i \in 1..Len(log) /\ log[i].kind = "dr" /\ log'[i] = log[i]
      BY <2>1, <2>2
    <3>2. log[i].key \in Keys /\ Explained(log, i)
      BY <1>3, <3>1
    <3>3. Explained(log', i)
      BY <2>1, <3>1, <3>2, ExplainedStays
    <3> QED
      BY <3>1, <3>2, <3>3
  <2>3. CASE i > Len(log)
    <3>1. i \in (Len(log) + 1)..Len(log')
      BY <2>1, <2>3
    <3>2. Offends(st, r) /\ i = Len(log') /\ log'[i] = ReportLine(st)
      BY <1>3, <3>1, FanOutShape, LineFields
    <3>3. log'[i].key = KeyOf(st) /\ KeyOf(st) \in Keys
      BY <3>2, LineFields, StreamTypes
    <3>4. Emitted(st, r) \in Entries /\ Emitted(st, r) # None
      BY StreamTypes
    <3>5. Latest(log', KeyOf(st), 1, i, Emitted(st, r))
      <4>1. \A k \in Keys : Latest(log', k, 1, Len(log'), current'[k])
        BY <1>3, DeliverView DEF ViewInv
      <4>2. current'[KeyOf(st)] = Emitted(st, r)
        BY <1>3, <3>3 DEF Deliver, TypeInv, TypeOK
      <4> QED
        BY <3>2, <3>3, <4>1, <4>2
    <3>6. Encode(Emitted(st, r).value) \in Implausible \cup {Null}
      BY <3>2, OffenceIsSeen
    <3> QED
      BY <3>3, <3>4, <3>5, <3>6 DEF Explained
  <2> QED
    BY <2>1, <2>2, <2>3
<1>4. TypeInv /\ ViewInv /\ Inv /\ [Next]_vars => Inv'
  <2> HIDE DEF Inv
  <2>1. UNCHANGED vars /\ Inv => Inv'
    BY DEF vars, Inv
  <2> QED
    BY <1>3, <2>1 DEF Next, PublishHeader, Publish
<1> QED
  BY <1>1, <1>2, <1>4, Typed, Views, PTL DEF Spec

-----------------------------------------------------------------------------
(***************************************************************************)
(* Evidence and transitions.  The first evidence of an adapter is always   *)
(* written: were it suppressed, an equal line of its key would be evidence *)
(* already, and the adapter not Unknown any more.                          *)
(***************************************************************************)
IsEvidence(a, line) ==
  /\ line.kind = "ms" /\ line.key.adapter = a
  /\ line.key.metric \in EvidenceMetrics /\ line.value # Null

IsTransition(a, line) == line.kind = "st" /\ line.adapter = a

IdleIffEvidence(a) ==
  adapterState[a] = "Idle" <=> \E i \in 1..Len(log) : IsEvidence(a, log[i])

TransitionIsPrompt(a) ==
  \A i \in 1..Len(log) : IsTransition(a, log[i]) =>
    /\ i - 1 \in 1..Len(log) /\ IsEvidence(a, log[i - 1])
    /\ \A j \in 1..Len(log) : IsEvidence(a, log[j]) => i - 1 <= j

TransitionIsShown(a) ==
  adapterState[a] = "Idle" => \E i \in 1..Len(log) : IsTransition(a, log[i])

EvidenceInv ==
  \A a \in Adapters : IdleIffEvidence(a) /\ TransitionIsPrompt(a) /\ TransitionIsShown(a)

LEMMA FirstIsWritten ==
  ASSUME TypeInv, ViewInv, EvidenceInv, NEW st \in Streams, NEW r \in Readings,
         IsFirstEvidence(st, r)
  PROVE  ShouldEmit(st, r)
<1> SUFFICES ASSUME ~ShouldEmit(st, r) PROVE FALSE
  OBVIOUS
<1> DEFINE key == KeyOf(st)
<1>1. key \in Keys /\ last[key] = Emitted(st, r) /\ last[key] # None
  BY StreamTypes DEF ShouldEmit, SameAsLast
<1>2. Latest(log, key, 1, Len(log), last[key])
  BY <1>1 DEF ViewInv
<1> PICK w \in 1..Len(log) : IsLineOf(key, log[w]) /\ log[w].value = Encode(last[key].value)
  BY <1>1, <1>2 DEF Latest
<1>3. log[w].value # Null
  BY <1>1, StreamTypes, ReadingsAssumption DEF IsFirstEvidence, Encode, Null
<1>4. IsEvidence(st.adapter, log[w])
  BY <1>3, StreamTypes DEF IsEvidence, IsLineOf, IsFirstEvidence
<1>5. st.adapter \in Adapters /\ adapterState[st.adapter] = "Unknown"
  BY StreamTypes DEF IsFirstEvidence
<1> QED
  BY <1>4, <1>5 DEF EvidenceInv, IdleIffEvidence

LEMMA DeliverEvidence ==
  ASSUME TypeInv, ViewInv, EvidenceInv, NEW st \in Streams, NEW r \in Readings,
         Deliver(st, r), NEW a \in Adapters
  PROVE  IdleIffEvidence(a)' /\ TransitionIsPrompt(a)' /\ TransitionIsShown(a)'
<1> DEFINE n == Len(log)
           m == Len(log')
           first == IsFirstEvidence(st, r)
           emit == ShouldEmit(st, r)
<1>1. /\ n \in Nat /\ m \in Nat /\ n <= m
      /\ \A i \in 1..n : log'[i] = log[i]
  BY FanOutShape
<1>2. first => emit
  BY FirstIsWritten
<1>3. ASSUME NEW i \in (n + 1)..m
      PROVE  \/ i = n + 1 /\ emit /\ log'[i] = MetricLine(st, r)
             \/ first /\ log'[i] = StateLine(st) /\ (emit => i = n + 2)
             \/ log'[i] = ReportLine(st)
  BY FanOutShape
<1>4. first => /\ n + 2 <= m /\ log'[n + 1] = MetricLine(st, r)
               /\ log'[n + 2] = StateLine(st)
  BY <1>2, FanOutShape
<1>5. adapterState'[a] = IF first /\ a = st.adapter THEN "Idle" ELSE adapterState[a]
  BY DEF Deliver, TypeInv, TypeOK
<1>6. adapterState[a] \in {"Unknown", "Idle"}
  BY DEF TypeInv, TypeOK
<1>7. first <=> /\ st.adapter # HostAdapter /\ adapterState[st.adapter] = "Unknown"
                /\ st.metric \in EvidenceMetrics /\ r \in Finite
  BY DEF IsFirstEvidence
<1>8. HostAdapter \notin Adapters
  BY DEF Adapters
<1> HIDE DEF n, m, first, emit
<1>9. ASSUME NEW i \in (n + 1)..m, IsTransition(a, log'[i])
      PROVE  first /\ a = st.adapter /\ i = n + 2
  BY <1>2, <1>3, <1>9, LineFields DEF IsTransition
<1>10. ASSUME NEW i \in (n + 1)..m, IsEvidence(a, log'[i])
       PROVE  /\ i = n + 1 /\ a = st.adapter /\ st.metric \in EvidenceMetrics
              /\ r \in Finite /\ adapterState'[a] = "Idle"
  <2>1. i = n + 1 /\ log'[i] = MetricLine(st, r)
    BY <1>3, <1>10, LineFields DEF IsEvidence
  <2>2. a = st.adapter /\ st.metric \in EvidenceMetrics /\ Encode(r) # Null
    BY <1>10, <2>1, LineFields, StreamTypes DEF IsEvidence
  <2>3. r \in Finite
    BY <2>2 DEF Encode
  <2> QED
    BY <1>5, <1>6, <1>7, <1>8, <2>1, <2>2, <2>3
<1>11. first => IsEvidence(st.adapter, log'[n + 1]) /\ IsTransition(st.adapter, log'[n + 2])
  <2>1. first => Encode(r) # Null
    BY <1>7, ReadingsAssumption DEF Encode, Null
  <2> QED
    BY <1>4, <1>7, <2>1, LineFields, StreamTypes DEF IsEvidence, IsTransition
<1>12. /\ adapterState[a] = "Idle" <=> \E i \in 1..n : IsEvidence(a, log[i])
       /\ \A i \in 1..n : IsTransition(a, log[i]) =>
            /\ i - 1 \in 1..n /\ IsEvidence(a, log[i - 1])
            /\ \A j \in 1..n : IsEvidence(a, log[j]) => i - 1 <= j
       /\ adapterState[a] = "Idle" => \E i \in 1..n : IsTransition(a, log[i])
  BY DEF EvidenceInv, IdleIffEvidence, TransitionIsPrompt, TransitionIsShown, n
<1>13. \A i \in 1..m : i \in 1..n \/ i \in (n + 1)..m
  BY <1>1
<1>14. \A i \in 1..n : i \in 1..m
  BY <1>1
<1>15. adapterState'[a] = "Idle" <=> \E i \in 1..m : IsEvidence(a, log'[i])
  <2>1. CASE first /\ a = st.adapter
    BY <1>1, <1>4, <1>5, <1>11, <2>1
  <2>2. CASE ~(first /\ a = st.adapter)
    <3>1. adapterState'[a] = "Idle" => \E i \in 1..m : IsEvidence(a, log'[i])
      BY <1>1, <1>5, <1>12, <1>14, <2>2
    <3>2. ASSUME NEW i \in 1..m, IsEvidence(a, log'[i])
          PROVE  adapterState'[a] = "Idle"
      BY <1>1, <1>5, <1>10, <1>12, <1>13, <2>2, <3>2
    <3> QED
      BY <3>1, <3>2
  <2> QED
    BY <2>1, <2>2
<1>16. ASSUME NEW i \in 1..m, IsTransition(a, log'[i])
       PROVE  /\ i - 1 \in 1..m /\ IsEvidence(a, log'[i - 1])
              /\ \A j \in 1..m : IsEvidence(a, log'[j]) => i - 1 <= j
  <2>1. CASE i \in 1..n
    <3>1. /\ i - 1 \in 1..n /\ IsEvidence(a, log[i - 1])
          /\ \A j \in 1..n : IsEvidence(a, log[j]) => i - 1 <= j
      BY <1>1, <1>12, <1>16, <2>1
    <3>2. ASSUME NEW j \in 1..m, IsEvidence(a, log'[j])
          PROVE  i - 1 <= j
      <4>1. CASE j \in 1..n
        BY <1>1, <3>1, <3>2, <4>1
      <4>2. CASE j \in (n + 1)..m
        BY <1>1, <3>1, <4>2
      <4> QED
        BY <1>13, <4>1, <4>2
    <3>3. i - 1 \in 1..m /\ IsEvidence(a, log'[i - 1])
      BY <1>1, <1>14, <3>1
    <3> QED
      BY <3>2, <3>3
  <2>2. CASE i \in (n + 1)..m
    <3>1. first /\ a = st.adapter /\ i = n + 2
      BY <1>9, <1>16, <2>2
    <3>2. i - 1 = n + 1 /\ i - 1 \in 1..m /\ IsEvidence(a, log'[i - 1])
      BY <1>1, <1>4, <1>11, <3>1
    <3>3. \A j \in 1..n : ~IsEvidence(a, log'[j])
      <4>1. adapterState[a] # "Idle"
        BY <1>7, <3>1
      <4> QED
        BY <1>1, <1>12, <4>1
    <3>4. ASSUME NEW j \in 1..m, IsEvidence(a, log'[j])
          PROVE  i - 1 <= j
      <4>1. j \in (n + 1)..m
        BY <1>13, <3>3, <3>4
      <4> QED
        BY <1>1, <3>2, <4>1
    <3> QED
      BY <3>2, <3>4
  <2> QED
    BY <1>13, <2>1, <2>2
<1>17. adapterState'[a] = "Idle" => \E i \in 1..m : IsTransition(a, log'[i])
  <2>1. CASE first /\ a = st.adapter
    <3>1. n + 2 \in 1..m
      BY <1>1, <1>4, <2>1
    <3> QED
      BY <1>11, <2>1, <3>1
  <2>2. CASE ~(first /\ a = st.adapter)
    BY <1>1, <1>5, <1>12, <1>14, <2>2
  <2> QED
    BY <2>1, <2>2
<1> QED
  BY <1>15, <1>16, <1>17 DEF IdleIffEvidence, TransitionIsPrompt, TransitionIsShown, m

(***************************************************************************)
(* An adapter is Idle exactly when the log shows evidence for it, and the  *)
(* one transition line follows the first evidence.                         *)
(***************************************************************************)
THEOREM IdleHasEvidence == Spec => []TransitionOnEvidence
<1>1. TypeInv /\ EvidenceInv => TransitionOnEvidence
  <2> SUFFICES ASSUME TypeInv, EvidenceInv PROVE TransitionOnEvidence
    OBVIOUS
  <2>1. DOMAIN log = 1..Len(log)
    BY DEF TypeInv
  <2>2. \A a : EvidenceLines(a) = {i \in 1..Len(log) : IsEvidence(a, log[i])}
    BY <2>1 DEF EvidenceLines, IsEvidence
  <2> QED
    BY <2>1, <2>2 DEF TransitionOnEvidence, EvidenceInv, IdleIffEvidence,
                      TransitionIsPrompt, TransitionIsShown, IsTransition
<1>2. Init => EvidenceInv
  BY DEF Init, EvidenceInv, IdleIffEvidence, TransitionIsPrompt, TransitionIsShown
<1>3. TypeInv /\ ViewInv /\ EvidenceInv /\ [Next]_vars => EvidenceInv'
  <2>1. ASSUME TypeInv, ViewInv, EvidenceInv, NEW st \in Streams, NEW r \in Readings, Deliver(st, r)
        PROVE  EvidenceInv'
    BY <2>1, DeliverEvidence DEF EvidenceInv, Adapters
  <2>2. UNCHANGED vars /\ EvidenceInv => EvidenceInv'
    BY DEF vars, EvidenceInv, IdleIffEvidence, TransitionIsPrompt, TransitionIsShown
  <2> QED
    BY <2>1, <2>2 DEF Next, PublishHeader, Publish
<1> QED
  BY <1>1, <1>2, <1>3, Typed, Views, PTL DEF Spec

=============================================================================
