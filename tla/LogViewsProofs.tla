---------------------------- MODULE LogViewsProofs ----------------------------
(***************************************************************************)
(* Proofs about LogViews, for every header as HeaderAssumption has it, and *)
(* any numbers, length and cut.                                            *)
(*                                                                         *)
(* Everything rests on two facts about a line: in a whole line a key's     *)
(* value is the event's, and in a cut one this holds for every key before  *)
(* the last one, which may have half its value, and no later key is there. *)
(***************************************************************************)
EXTENDS LogViews, NumberSets

Kinds == {"ms", "ai", "ast", "dr", "drf", "car"}

HasKey(kind, key) == \E i \in DOMAIN KeyOrder[kind] : KeyOrder[kind][i] = key

\* The events of ticks.
BodyEvents ==
  [k : {"ms"}, n : Counters, a : Cards, v : CounterValues, s : {"IGCL"}, t : Boot..MaxTime]
    \cup [k : {"ms"}, n : Gauges, a : Cards, v : GaugeValues \cup {NaN}, s : Sources, t : Boot..MaxTime]
    \cup [k : {"dr"}, rule : Rules, a : Cards, t : Boot..MaxTime]
    \cup [k : {"car"}, name : Texts, mods : {<< >>}, iw : {0}, note : {"disabled"}, t : Boot..MaxTime]

Events == HeaderEvents \cup BodyEvents

\* The keys of an encoded kind, in order.
LEMMA KeysOf ==
  /\ KeyOrder["ms"] = <<"k", "n", "a", "v", "s", "t">>
  /\ KeyOrder["ai"] = <<"k", "a", "t">>
  /\ KeyOrder["ast"] = <<"k", "a", "to", "t">>
  /\ KeyOrder["dr"] = <<"k", "rule", "a", "t">>
  /\ KeyOrder["drf"] = <<"k", "win", "t">>
  /\ KeyOrder["car"] = <<"k", "name", "mods", "iw", "note", "t">>
  /\ DOMAIN KeyOrder = Kinds \cup {"seb"}
BY DEF KeyOrder, Kinds

LEMMA HeaderEventFields ==
  ASSUME NEW ev \in HeaderEvents
  PROVE  /\ ev.k \in Kinds /\ ev.t \in 0..(Boot - 1)
         /\ ev.k \in {"ai", "ms", "ast", "dr"} => ev.a \in Cards
         /\ ev.k = "ms" => ev.n \in HeaderMetrics /\ ev.v \in Nat /\ ev.s \in Texts
         /\ ev.k = "ast" => ev.to = "Idle"
         /\ ev.k = "dr" => ev.rule \in Rules /\ ev.t > 0
         /\ ev.k = "car" => ev.name \in Texts /\ ev.mods \in Seq(Texts) /\ ev.iw \in Nat
<1>1. CASE ev \in [k : {"ai"}, a : Cards, t : 0..(Boot - 1)]
  BY <1>1 DEF Kinds
<1>2. CASE ev \in [k : {"ms"}, n : HeaderMetrics, a : Cards, v : Nat, s : Texts, t : 0..(Boot - 1)]
  BY <1>2 DEF Kinds
<1>3. CASE ev \in [k : {"ast"}, a : Cards, to : {"Idle"}, t : 0..(Boot - 1)]
  BY <1>3 DEF Kinds
<1>4. CASE ev \in [k : {"dr"}, rule : Rules, a : Cards, t : 1..(Boot - 1)]
  <2>1. ev.t \in 1..(Boot - 1) /\ Boot \in Nat
    BY <1>4, TimeAssumption
  <2>2. ev.t \in 0..(Boot - 1) /\ ev.t > 0
    BY <2>1
  <2> QED
    BY <1>4, <2>2 DEF Kinds
<1>5. CASE ev \in [k : {"drf"}, win : Texts, t : 0..(Boot - 1)]
  BY <1>5 DEF Kinds
<1>6. CASE ev \in [k : {"car"}, name : Texts, mods : Seq(Texts), iw : Nat, note : Texts, t : 0..(Boot - 1)]
  BY <1>6 DEF Kinds
<1> QED
  BY <1>1, <1>2, <1>3, <1>4, <1>5, <1>6 DEF HeaderEvents

LEMMA BodyEventFields ==
  ASSUME NEW ev \in BodyEvents
  PROVE  /\ ev.k \in {"ms", "dr", "car"} /\ ev.t \in Boot..MaxTime
         /\ ev.k = "ms" => /\ ev.n \in Counters \cup Gauges /\ ev.a \in Cards
                           /\ ev.v \in CounterValues \cup GaugeValues \cup {NaN}
                           /\ ev.s \in Texts
         /\ ev.k = "dr" => ev.rule \in Rules /\ ev.a \in Cards
         /\ ev.k = "car" => ev.name \in Texts /\ ev.mods = << >> /\ ev.iw = 0
<1>1. CASE ev \in [k : {"ms"}, n : Counters, a : Cards, v : CounterValues, s : {"IGCL"}, t : Boot..MaxTime]
  <2>1. /\ ev.k = "ms" /\ ev.t \in Boot..MaxTime /\ ev.n \in Counters /\ ev.a \in Cards
        /\ ev.v \in CounterValues /\ ev.s = "IGCL"
    BY <1>1
  <2>2. "IGCL" \in Texts
    BY DEF Texts
  <2> QED
    BY <2>1, <2>2
<1>2. CASE ev \in [k : {"ms"}, n : Gauges, a : Cards, v : GaugeValues \cup {NaN}, s : Sources, t : Boot..MaxTime]
  <2>1. Sources \subseteq Texts
    BY NamesAssumption
  <2> QED
    BY <1>2, <2>1
<1>3. CASE ev \in [k : {"dr"}, rule : Rules, a : Cards, t : Boot..MaxTime]
  BY <1>3
<1>4. CASE ev \in [k : {"car"}, name : Texts, mods : {<< >>}, iw : {0}, note : {"disabled"}, t : Boot..MaxTime]
  BY <1>4
<1> QED
  BY <1>1, <1>2, <1>3, <1>4 DEF BodyEvents

\* What an event of a kind carries, and when it was published.  Only a tick's
\* sample is of a metric the readers track.
LEMMA EventFields ==
  ASSUME NEW ev \in Events
  PROVE  /\ ev.k \in Kinds /\ ev.t \in 0..MaxTime
         /\ ev.k \in {"ai", "ms", "ast", "dr"} => ev.a \in Cards
         /\ ev.k = "ms" => /\ ev.n \in Texts /\ ev.v \in Nat \cup {NaN} /\ ev.s \in Texts
                           /\ ev.n \in Tracked => ev \in BodyEvents
         /\ ev.k = "ast" => ev.to = "Idle"
         /\ ev.k = "dr" => ev.rule \in Rules /\ ev.t > 0
         /\ ev.k = "car" => ev.name \in Texts /\ ev.mods \in Seq(Texts) /\ ev.iw \in Nat
<1>1. CASE ev \in HeaderEvents
  <2>1. ev.t \in 0..MaxTime
    BY <1>1, HeaderEventFields, TimeAssumption
  <2>2. ev.k = "ms" => ev.n \in Texts /\ ev.n \notin Tracked
    BY <1>1, HeaderEventFields, NamesAssumption DEF Tracked
  <2> QED
    BY <1>1, <2>1, <2>2, HeaderEventFields
<1>2. CASE ev \in BodyEvents
  <2>1. ev.t \in Boot..MaxTime
    BY <1>2, BodyEventFields
  <2>2. ev.t \in 0..MaxTime /\ ev.t > 0
    BY <2>1, TimeAssumption
  <2>3. ev.k \in {"ms", "dr", "car"}
    BY <1>2, BodyEventFields
  <2>4. ev.k = "car" => ev.name \in Texts /\ ev.mods \in Seq(Texts) /\ ev.iw \in Nat
    <3>1. << >> \in Seq(Texts)
      OBVIOUS
    <3>2. ev.k = "car" => ev.name \in Texts /\ ev.mods = << >> /\ ev.iw = 0
      BY <1>2, BodyEventFields
    <3>3. ev.mods = << >> => ev.mods \in Seq(Texts)
      BY <3>1
    <3>4. ev.iw = 0 => ev.iw \in Nat
      OBVIOUS
    <3> QED
      BY <3>2, <3>3, <3>4
  <2>5. ev.k = "ms" => ev.a \in Cards /\ ev.n \in Texts /\ ev.v \in Nat \cup {NaN} /\ ev.s \in Texts
    <3>1. CounterValues \cup GaugeValues \subseteq Nat /\ Counters \cup Gauges \subseteq Texts
      BY NumberAssumption, NamesAssumption
    <3> QED
      BY <1>2, <3>1, BodyEventFields
  <2>6. ev.k = "dr" => ev.rule \in Rules /\ ev.a \in Cards
    BY <1>2, BodyEventFields
  <2> QED
    BY <1>2, <2>2, <2>3, <2>4, <2>5, <2>6 DEF Kinds
<1> QED
  BY <1>1, <1>2 DEF Events

-----------------------------------------------------------------------------
(***************************************************************************)
(* Whole lines.                                                            *)
(***************************************************************************)
LEMMA EncodeShape ==
  ASSUME NEW ev
  PROVE  /\ DOMAIN Encode(ev) = DOMAIN KeyOrder[ev.k]
         /\ \A i \in DOMAIN KeyOrder[ev.k] :
              /\ Encode(ev)[i].key = KeyOrder[ev.k][i]
              /\ Encode(ev)[i].val = EmitValue(ev[KeyOrder[ev.k][i]])
              /\ Encode(ev)[i].closed
BY DEF Encode, Field

\* Looking for a key in a line whose fields are functions of their keys.
LEMMA FindSays ==
  ASSUME NEW line, NEW key, NEW val, \E i \in DOMAIN line : line[i].key = key,
         \A j \in DOMAIN line : line[j].key = key => line[j].val = val
  PROVE  Find(line, key) = val
BY DEF Find

LEMMA FindsNone ==
  ASSUME NEW line, NEW key, \A j \in DOMAIN line : line[j].key # key
  PROVE  Find(line, key) = Absent
BY DEF Find

LEMMA FindWhole ==
  ASSUME NEW ev, NEW key
  PROVE  Find(Encode(ev), key) = IF HasKey(ev.k, key) THEN EmitValue(ev[key]) ELSE Absent
<1>1. CASE HasKey(ev.k, key)
  <2> PICK i \in DOMAIN KeyOrder[ev.k] : KeyOrder[ev.k][i] = key
    BY <1>1 DEF HasKey
  <2>1. i \in DOMAIN Encode(ev) /\ Encode(ev)[i].key = key
    BY EncodeShape
  <2>2. \A j \in DOMAIN Encode(ev) : Encode(ev)[j].key = key => Encode(ev)[j].val = EmitValue(ev[key])
    BY EncodeShape
  <2> DEFINE line == Encode(ev)
             val == EmitValue(ev[key])
  <2>3. i \in DOMAIN line /\ line[i].key = key
    BY <2>1
  <2>4. \A j \in DOMAIN line : line[j].key = key => line[j].val = val
    BY <2>2
  <2> HIDE DEF line, val
  <2>5. Find(line, key) = val
    BY <2>3, <2>4, FindSays
  <2> QED
    BY <1>1, <2>5 DEF line, val
<1>2. CASE ~HasKey(ev.k, key)
  <2>1. \A j \in DOMAIN Encode(ev) : Encode(ev)[j].key # key
    BY <1>2, EncodeShape DEF HasKey
  <2> QED
    BY <1>2, <2>1, FindsNone
<1> QED
  BY <1>1, <1>2

\* Texts, lists of texts and numbers are written as they are.
LEMMA WrittenAsIs ==
  ASSUME NEW v \in Texts \cup Nat \cup Seq(Texts)
  PROVE  EmitValue(v) = v /\ v # Absent /\ v # Null
BY NamesAssumption DEF EmitValue

LEMMA KindsHave ==
  /\ \A kind \in Kinds : HasKey(kind, "k") /\ HasKey(kind, "t")
  /\ \A kind \in Kinds :
       /\ HasKey(kind, "n") <=> kind = "ms"
       /\ HasKey(kind, "v") <=> kind = "ms"
       /\ HasKey(kind, "s") <=> kind = "ms"
       /\ HasKey(kind, "a") <=> kind \in {"ms", "ai", "ast", "dr"}
       /\ HasKey(kind, "to") <=> kind = "ast"
       /\ HasKey(kind, "rule") <=> kind = "dr"
       /\ HasKey(kind, "name") <=> kind = "car"
       /\ HasKey(kind, "mods") <=> kind = "car"
       /\ HasKey(kind, "iw") <=> kind = "car"
<1>1. \A key : HasKey("ms", key) <=> key \in {"k", "n", "a", "v", "s", "t"}
  BY KeysOf DEF HasKey
<1>2. \A key : HasKey("ai", key) <=> key \in {"k", "a", "t"}
  BY KeysOf DEF HasKey
<1>3. \A key : HasKey("ast", key) <=> key \in {"k", "a", "to", "t"}
  BY KeysOf DEF HasKey
<1>4. \A key : HasKey("dr", key) <=> key \in {"k", "rule", "a", "t"}
  BY KeysOf DEF HasKey
<1>5. \A key : HasKey("drf", key) <=> key \in {"k", "win", "t"}
  BY KeysOf DEF HasKey
<1>6. \A key : HasKey("car", key) <=> key \in {"k", "name", "mods", "iw", "note", "t"}
  BY KeysOf DEF HasKey
<1> QED
  BY <1>1, <1>2, <1>3, <1>4, <1>5, <1>6 DEF Kinds

-----------------------------------------------------------------------------
(***************************************************************************)
(* Cut lines.                                                              *)
(***************************************************************************)
KeyCount(kind) == Len(KeyOrder[kind])

LEMMA KeyPlaces ==
  ASSUME NEW kind \in Kinds
  PROVE  /\ KeyCount(kind) \in Nat /\ KeyCount(kind) > 2
         /\ DOMAIN KeyOrder[kind] = 1..KeyCount(kind)
         /\ \A i, j \in 1..KeyCount(kind) : KeyOrder[kind][i] = KeyOrder[kind][j] => i = j
<1>1. CASE kind = "ms"
  BY <1>1, KeysOf DEF KeyCount
<1>2. CASE kind = "ai"
  BY <1>2, KeysOf DEF KeyCount
<1>3. CASE kind = "ast"
  BY <1>3, KeysOf DEF KeyCount
<1>4. CASE kind = "dr"
  BY <1>4, KeysOf DEF KeyCount
<1>5. CASE kind = "drf"
  BY <1>5, KeysOf DEF KeyCount
<1>6. CASE kind = "car"
  BY <1>6, KeysOf DEF KeyCount
<1> QED
  BY <1>1, <1>2, <1>3, <1>4, <1>5, <1>6 DEF Kinds

\* The line ends in its field p: the fields before it are whole, and its value
\* is whole or half.
CutAt(line, ev, p) ==
  /\ DOMAIN line = 1..p
  /\ \A i \in 1..(p - 1) : line[i] = Encode(ev)[i]
  /\ line[p].key = KeyOrder[ev.k][p]
  /\ \/ line[p].val = EmitValue(ev[KeyOrder[ev.k][p]])
     \/ /\ EmitValue(ev[KeyOrder[ev.k][p]]) # Null
        /\ line[p].val \in Halves(KeyOrder[ev.k][p], EmitValue(ev[KeyOrder[ev.k][p]]))

LEMMA EncodeIsSequence ==
  ASSUME NEW ev, ev.k \in Kinds
  PROVE  /\ Encode(ev) \in Seq({Encode(ev)[i] : i \in 1..KeyCount(ev.k)})
         /\ Len(Encode(ev)) = KeyCount(ev.k) /\ DOMAIN Encode(ev) = 1..KeyCount(ev.k)
<1> DEFINE n == KeyCount(ev.k)
           line == Encode(ev)
           S == {line[i] : i \in 1..n}
<1>1. n \in Nat /\ DOMAIN line = 1..n
  BY KeyPlaces, EncodeShape
<1>2. line = [i \in 1..n |-> line[i]]
  BY <1>1 DEF Encode
<1> HIDE DEF n, line
<1>3. line \in [1..n -> S]
  BY <1>2
<1> HIDE DEF S
<1>4. line \in Seq(S) /\ Len(line) = n
  BY <1>1, <1>3
<1> QED
  BY <1>1, <1>4 DEF S, line, n

\* A cut between two fields, or in a field.
LEMMA CutShape ==
  ASSUME NEW ev, ev.k \in Kinds, NEW line \in Cuts(Encode(ev))
  PROVE  \E p \in 1..KeyCount(ev.k) : CutAt(line, ev, p)
<1> DEFINE whole == Encode(ev)
           n == KeyCount(ev.k)
           S == {whole[i] : i \in 1..n}
<1>1. n \in Nat /\ n > 2 /\ whole \in Seq(S) /\ Len(whole) = n /\ DOMAIN whole = 1..n
  BY KeyPlaces, EncodeIsSequence
<1>2. \A i \in 1..n : whole[i].key = KeyOrder[ev.k][i] /\ whole[i].val = EmitValue(ev[KeyOrder[ev.k][i]])
  BY KeyPlaces, EncodeShape
<1> HIDE DEF S, n, whole
<1>3. \/ \E i \in 1..(n - 1) : line = SubSeq(whole, 1, i)
      \/ \E i \in 1..n : \E h \in IF whole[i].val = Null THEN {Null} ELSE Halves(whole[i].key, whole[i].val) :
           line = Append(SubSeq(whole, 1, i - 1), Field(whole[i].key, h, FALSE))
  BY <1>1 DEF Cuts, whole
<1>4. ASSUME NEW i \in 1..(n - 1), line = SubSeq(whole, 1, i)
      PROVE  i \in 1..n /\ CutAt(line, ev, i)
  <2>1. i \in 1..n
    BY <1>1
  <2>2. DOMAIN line = 1..i /\ \A j \in 1..i : line[j] = whole[j]
    BY <1>1, <1>4, <2>1
  <2>3. i \in 1..i /\ \A j \in 1..(i - 1) : j \in 1..i
    BY <2>1
  <2> QED
    BY <1>2, <2>1, <2>2, <2>3 DEF CutAt, whole
<1>5. ASSUME NEW i \in 1..n,
             NEW h \in IF whole[i].val = Null THEN {Null} ELSE Halves(whole[i].key, whole[i].val),
             line = Append(SubSeq(whole, 1, i - 1), Field(whole[i].key, h, FALSE))
      PROVE  CutAt(line, ev, i)
  <2> DEFINE front == SubSeq(whole, 1, i - 1)
             field == Field(whole[i].key, h, FALSE)
  <2>1. i \in Nat /\ i >= 1 /\ i - 1 \in Nat /\ i - 1 <= Len(whole)
    BY <1>1
  <2>2. front \in Seq(S) /\ Len(front) = i - 1 /\ \A j \in 1..(i - 1) : front[j] = whole[j]
    BY <1>1, <2>1
  <2>3. field.key = whole[i].key /\ field.val = h
    BY DEF Field
  <2>4. line = Append(front, field)
    BY <1>5
  <2> HIDE DEF front, field
  <2>5. front \in Seq(S \cup {field}) /\ field \in S \cup {field}
    BY <2>2
  <2>6. DOMAIN line = 1..i /\ line[i] = field /\ \A j \in 1..(i - 1) : line[j] = front[j]
    BY <2>1, <2>2, <2>4, <2>5
  <2> QED
    BY <1>2, <2>2, <2>3, <2>6 DEF CutAt, whole
<1> QED
  BY <1>3, <1>4, <1>5 DEF n

LEMMA FindCut ==
  ASSUME NEW ev, ev.k \in Kinds, NEW p \in 1..KeyCount(ev.k), NEW line, CutAt(line, ev, p),
         NEW q \in 1..KeyCount(ev.k), NEW key, key = KeyOrder[ev.k][q]
  PROVE  /\ q < p => Find(line, key) = EmitValue(ev[key])
         /\ q = p => Find(line, key) = line[p].val
         /\ q > p => Find(line, key) = Absent
<1> DEFINE n == KeyCount(ev.k)
<1>1. n \in Nat /\ DOMAIN line = 1..p /\ 1..p \subseteq 1..n
  BY KeyPlaces DEF CutAt
<1>2. \A i \in 1..p : line[i].key = KeyOrder[ev.k][i]
  <2> TAKE i \in 1..p
  <2>1. i = p \/ i \in 1..(p - 1)
    BY <1>1
  <2>2. i \in 1..(p - 1) => line[i].key = KeyOrder[ev.k][i]
    BY <1>1, KeyPlaces, EncodeShape DEF CutAt
  <2> QED
    BY <2>1, <2>2 DEF CutAt
<1>3. \A i \in 1..p : line[i].key = key => i = q
  BY <1>1, <1>2, KeyPlaces
<1>4. CASE q < p
  <2>1. q \in 1..p /\ q \in 1..(p - 1)
    BY <1>1, <1>4
  <2>2. line[q].val = EmitValue(ev[key]) /\ line[q].key = key
    BY <1>1, <1>2, <2>1, KeyPlaces, EncodeShape DEF CutAt
  <2>3. Find(line, key) = EmitValue(ev[key])
    <3> DEFINE val == EmitValue(ev[key])
    <3>1. \A j \in DOMAIN line : line[j].key = key => line[j].val = val
      BY <1>1, <1>3, <2>2
    <3>2. \E j \in DOMAIN line : line[j].key = key
      BY <1>1, <2>1, <2>2
    <3> HIDE DEF val
    <3>3. Find(line, key) = val
      BY ONLY <3>1, <3>2 DEF Find
    <3> QED
      BY <3>3 DEF val
  <2> QED
    BY <1>1, <1>4, <2>3
<1>5. CASE q = p
  <2>1. p \in 1..p
    BY <1>1
  <2>2. Find(line, key) = line[p].val
    <3> DEFINE val == line[p].val
    <3>1. \A j \in DOMAIN line : line[j].key = key => line[j].val = val
      BY <1>1, <1>3, <1>5
    <3>2. \E j \in DOMAIN line : line[j].key = key
      BY <1>1, <1>2, <1>5, <2>1
    <3> HIDE DEF val
    <3>3. Find(line, key) = val
      BY ONLY <3>1, <3>2 DEF Find
    <3> QED
      BY <3>3 DEF val
  <2> QED
    BY <1>1, <1>5, <2>2
<1>6. CASE q > p
  <2>1. \A j \in DOMAIN line : line[j].key # key
    BY <1>1, <1>3, <1>6
  <2>2. Find(line, key) = Absent
    BY <2>1, FindsNone
  <2> QED
    BY <1>1, <1>6, <2>2
<1> QED
  BY <1>1, <1>4, <1>5, <1>6

LEMMA FindNotCut ==
  ASSUME NEW ev, ev.k \in Kinds, NEW p \in 1..KeyCount(ev.k), NEW line, CutAt(line, ev, p),
         NEW key, ~HasKey(ev.k, key)
  PROVE  Find(line, key) = Absent
<1>1. KeyCount(ev.k) \in Nat /\ DOMAIN KeyOrder[ev.k] = 1..KeyCount(ev.k) /\ DOMAIN line = 1..p
  BY KeyPlaces DEF CutAt
<1>2. \A i \in 1..p : i \in DOMAIN KeyOrder[ev.k] /\ (i = p \/ i \in 1..(p - 1))
  BY <1>1
<1>3. ASSUME NEW i \in 1..p
      PROVE  line[i].key = KeyOrder[ev.k][i]
  <2>1. i \in 1..(p - 1) => line[i].key = KeyOrder[ev.k][i]
    BY <1>2, EncodeShape DEF CutAt
  <2>2. i = p => line[i].key = KeyOrder[ev.k][i]
    BY DEF CutAt
  <2> QED
    BY <1>2, <2>1, <2>2
<1>4. \A j \in DOMAIN line : line[j].key # key
  BY <1>1, <1>2, <1>3 DEF HasKey
<1> QED
  BY <1>4, FindsNone

-----------------------------------------------------------------------------
(***************************************************************************)
(* The invariant: what is published and when.                              *)
(***************************************************************************)
AllLines == {Encode(ev) : ev \in Events} \cup UNION {Cuts(Encode(ev)) : ev \in Events}

\* Nothing is stamped later than the time that has been reached.
InTime == \A i \in DOMAIN published : published[i].t <= clock

\* A collector has one init, the rest are notes.
InitsOnce ==
  \A i, j \in DOMAIN published :
    i # j /\ published[i].k = "car" /\ published[j].k = "car"
      /\ published[i].name = published[j].name /\ published[i].iw > 0
      => published[j].iw = 0 /\ published[j].mods = << >>

LogInv ==
  /\ TypeOK
  /\ published \in Seq(Events) /\ file \in Seq(AllLines) /\ todo \in Seq(HeaderEvents)
  /\ torn => published # << >>
  /\ InTime /\ InitsOnce

LEMMA LogStarts == ASSUME Init PROVE LogInv
<1>1. todo \in Seq(HeaderEvents) /\ todo \in Header
  BY HeaderAssumption DEF Init
<1>2. published = << >> /\ file = << >> /\ now = Boot /\ clock = Boot /\ torn = FALSE
  BY DEF Init
<1>3. published \o todo = todo
  BY <1>1, <1>2
<1>4. DOMAIN published = {} /\ Whole = {} /\ Len(file) = Len(published)
  BY <1>2 DEF Whole, WholeLines
<1>5. now \in Boot..MaxTime /\ clock \in now..MaxTime
  BY <1>2, TimeAssumption
<1>6. TypeOK
  BY <1>1, <1>2, <1>3, <1>4, <1>5 DEF TypeOK
<1>7. published \in Seq(Events) /\ file \in Seq(AllLines)
  BY <1>2
<1> QED
  BY <1>1, <1>2, <1>4, <1>6, <1>7 DEF LogInv, InTime, InitsOnce

\* The next event is the next of the header, or one of this tick.
LEMMA NextIs ==
  ASSUME LogInv, NEW ev \in NextEvents
  PROVE  \/ todo # << >> /\ ev = Head(todo)
         \/ todo = << >> /\ ev \in BodyEvents
<1>1. /\ now \in Boot..MaxTime /\ clock \in now..MaxTime
      /\ \A i \in DOMAIN published : published[i] \in Events
  BY DEF LogInv, TypeOK
<1>2. CASE todo # << >>
  BY <1>2 DEF NextEvents
<1>3. CASE todo = << >>
  <2>1. CASE ev \in Samples
    BY <1>1, <1>3, <2>1 DEF Samples, Sample, BodyEvents
  <2>2. CASE ev \in Reports
    BY <1>1, <1>3, <2>2 DEF Reports, BodyEvents
  <2>3. CASE ev \in Retirements
    <3> PICK i \in DOMAIN published, t \in clock..MaxTime :
          /\ published[i].k = "car"
          /\ ev = [k |-> "car", name |-> published[i].name, mods |-> << >>, iw |-> 0,
                   note |-> "disabled", t |-> t]
      BY <2>3 DEF Retirements
    <3>1. published[i].name \in Texts
      BY <1>1, EventFields
    <3>2. t \in Boot..MaxTime
      BY <1>1, TimeAssumption
    <3>3. ev \in [k : {"car"}, name : Texts, mods : {<< >>}, iw : {0}, note : {"disabled"}, t : Boot..MaxTime]
      BY <3>1, <3>2
    <3> QED
      BY <1>3, <3>3 DEF BodyEvents
  <2> QED
    BY <1>3, <2>1, <2>2, <2>3 DEF NextEvents
<1> QED
  BY <1>2, <1>3

\* While the header is written, what is written is part of it.
LEMMA HeaderPart ==
  ASSUME LogInv, ~torn, todo # << >>
  PROVE  /\ Append(published, Head(todo)) \o Tail(todo) = published \o todo
         /\ Head(todo) \in HeaderEvents /\ Tail(todo) \in Seq(HeaderEvents)
         /\ \A i \in 1..(Len(published) + 1) :
              /\ i \in DOMAIN (published \o todo)
              /\ Append(published, Head(todo))[i] = (published \o todo)[i]
         /\ published \o todo \in Header
<1>1. published \in Seq(Events) /\ todo \in Seq(HeaderEvents) /\ todo # << >>
  BY DEF LogInv
<1>2. todo \in Seq(Events)
  BY <1>1 DEF Events
<1>3. published \o todo \in Header
  BY DEF LogInv, TypeOK
<1> QED
  BY <1>1, <1>2, <1>3

\* One more event keeps what is said of the published ones, and its line, whole
\* or cut, is the last.
LEMMA AppendKeeps ==
  ASSUME LogInv, ~torn, NEW ev \in NextEvents, NEW line \in AllLines, Write(ev, line), now' = now
  PROVE  /\ ev \in Events /\ published' \in Seq(Events) /\ file' \in Seq(AllLines)
         /\ Len(published') = Len(published) + 1 /\ Len(file') = Len(published) + 1
         /\ published'[Len(published) + 1] = ev /\ file'[Len(published) + 1] = line
         /\ \A i \in DOMAIN published : published'[i] = published[i] /\ file'[i] = file[i]
         /\ clock' \in now'..MaxTime /\ clock <= clock' /\ ev.t \in 0..clock'
         /\ InTime' /\ InitsOnce'
<1>1. /\ published \in Seq(Events) /\ todo \in Seq(HeaderEvents) /\ file \in Seq(AllLines)
      /\ now \in Boot..MaxTime /\ clock \in now..MaxTime /\ Len(file) = Len(published)
  BY DEF LogInv, TypeOK
<1>2. ev \in Events
  BY <1>1, NextIs, HeaderPart DEF Events
<1> DEFINE last == Len(published) + 1
<1>3. /\ published' \in Seq(Events) /\ Len(published') = last /\ published'[last] = ev
      /\ DOMAIN published = 1..Len(published) /\ DOMAIN published' = 1..last
      /\ \A i \in DOMAIN published : published'[i] = published[i]
  BY <1>1, <1>2 DEF Write
<1>4. /\ file' \in Seq(AllLines) /\ Len(file') = last /\ file'[last] = line
      /\ \A i \in DOMAIN published : file'[i] = file[i]
  BY <1>1 DEF Write
<1>5. \A i \in 1..last : i = last \/ i \in DOMAIN published
  BY <1>3
<1>6. ev.t \in 0..MaxTime
  BY <1>2, EventFields
<1>7. clock' \in now'..MaxTime /\ clock <= clock' /\ ev.t \in 0..clock'
  BY <1>1, <1>6, TimeAssumption DEF Write
<1> HIDE DEF last
<1>8. InTime'
  <2> SUFFICES ASSUME NEW i \in DOMAIN published'
               PROVE  published'[i].t <= clock'
    BY DEF InTime
  <2>1. CASE i = last
    BY <1>3, <1>6, <1>7, <2>1
  <2>2. CASE i \in DOMAIN published
    <3>1. published'[i].t \in 0..MaxTime /\ published'[i].t <= clock
      BY <1>1, <1>3, <2>2, EventFields DEF LogInv, InTime
    <3>2. clock \in Nat /\ clock' \in Nat
      BY <1>1, <1>7, TimeAssumption
    <3> QED
      BY <1>7, <3>1, <3>2
  <2> QED
    BY <1>3, <1>5, <2>1, <2>2
<1>9. InitsOnce'
  <2>1. CASE todo # << >>
    <3> DEFINE h == published \o todo
    <3>1. ev = Head(todo)
      BY <2>1, NextIs
    <3>2. h \in Header /\ \A i \in 1..last : i \in DOMAIN h /\ published'[i] = h[i]
      BY <2>1, <3>1, HeaderPart DEF Write, last
    <3> HIDE DEF h
    <3> QED
      BY <1>3, <3>2, HeaderAssumption DEF InitsOnce
  <2>2. CASE todo = << >>
    <3> SUFFICES ASSUME NEW i \in 1..last, NEW j \in 1..last, i # j,
                        published'[i].k = "car", published'[j].k = "car",
                        published'[i].name = published'[j].name, published'[i].iw > 0
                 PROVE  published'[j].iw = 0 /\ published'[j].mods = << >>
      BY <1>3 DEF InitsOnce
    <3>0. ev.k = "car" => ev.mods = << >> /\ ev.iw = 0
      BY <2>2, NextIs, BodyEventFields
    <3>1. i # last
      BY <1>3, <3>0
    <3>2. i \in DOMAIN published
      BY <1>5, <3>1
    <3>3. CASE j = last
      BY <1>3, <3>0, <3>3
    <3>4. CASE j \in DOMAIN published
      BY <1>3, <3>2, <3>4 DEF LogInv, InitsOnce
    <3> QED
      BY <1>5, <3>3, <3>4
  <2> QED
    BY <2>1, <2>2
<1> QED
  BY <1>2, <1>3, <1>4, <1>7, <1>8, <1>9 DEF last

LEMMA LogSteps == ASSUME LogInv, [Next]_vars PROVE LogInv'
<1>1. /\ published \in Seq(Events) /\ file \in Seq(AllLines) /\ todo \in Seq(HeaderEvents)
      /\ Len(file) = Len(published) /\ torn \in BOOLEAN /\ now \in Boot..MaxTime
      /\ clock \in now..MaxTime
      /\ todo = << >> \/ torn \/ published \o todo \in Header
      /\ \A i \in Whole : file[i] = Encode(published[i]) /\ published[i].t \in 0..clock
  BY DEF LogInv, TypeOK
<1>2. Boot \in Nat /\ MaxTime \in Nat
  BY TimeAssumption
<1> DEFINE last == Len(published) + 1
\* The lines that were whole stay so, and time does not go back.
<1>3. ASSUME NEW i \in Whole, clock <= clock', clock' \in Nat,
             published'[i] = published[i], file'[i] = file[i]
      PROVE  file'[i] = Encode(published'[i]) /\ published'[i].t \in 0..clock'
  <2>1. file[i] = Encode(published[i]) /\ published[i].t \in 0..clock /\ clock \in Nat
    BY <1>1, <1>2
  <2> QED
    BY <1>3, <2>1
<1>4. CASE WriteLine
  <2> PICK ev \in NextEvents : Write(ev, Encode(ev))
    BY <1>4 DEF WriteLine
  <2>1. /\ ~torn /\ torn' = torn /\ now' = now
        /\ todo' = IF todo = << >> THEN << >> ELSE Tail(todo)
    BY <1>4 DEF WriteLine
  <2>2. Encode(ev) \in AllLines
    <3>1. ev \in Events
      BY <1>1, <2>1, NextIs, HeaderPart DEF Events
    <3> QED
      BY <3>1 DEF AllLines
  <2>3. /\ published' \in Seq(Events) /\ Len(published') = last /\ published'[last] = ev
        /\ file' \in Seq(AllLines) /\ Len(file') = last /\ file'[last] = Encode(ev)
        /\ \A i \in DOMAIN published : published'[i] = published[i] /\ file'[i] = file[i]
        /\ clock' \in now'..MaxTime /\ clock <= clock' /\ ev.t \in 0..clock'
        /\ InTime' /\ InitsOnce'
    BY <2>1, <2>2, AppendKeeps
  <2>4. Whole = 1..Len(published) /\ Whole' = 1..last
    BY <1>1, <2>1, <2>3 DEF Whole, WholeLines
  <2>5. todo' = << >> \/ published' \o todo' \in Header
    BY <1>1, <2>1, NextIs, HeaderPart DEF Write
  <2>6. todo' \in Seq(HeaderEvents)
    BY <1>1, <2>1, HeaderPart
  <2>7. \A i \in Whole' : file'[i] = Encode(published'[i]) /\ published'[i].t \in 0..clock'
    <3> TAKE i \in Whole'
    <3>1. CASE i = last
      BY <2>3, <3>1
    <3>2. CASE i # last
      <4>1. i \in Whole /\ i \in DOMAIN published
        BY <1>1, <2>4, <3>2
      <4>2. clock' \in Nat
        BY <1>1, <1>2, <2>1, <2>3
      <4>3. published'[i] = published[i] /\ file'[i] = file[i]
        BY <2>3, <4>1
      <4> QED
        BY <1>3, <2>3, <4>1, <4>2, <4>3
    <3> QED
      BY <3>1, <3>2
  <2> QED
    BY <1>1, <2>1, <2>3, <2>5, <2>6, <2>7 DEF LogInv, TypeOK
<1>5. CASE Tick
  <2>1. PICK t \in clock..MaxTime : t > now /\ now' = t /\ clock' = t
    BY <1>5 DEF Tick
  <2>2. UNCHANGED <<todo, file, torn, published>>
    BY <1>5 DEF Tick
  <2>3. /\ now' \in Boot..MaxTime /\ clock' \in now'..MaxTime /\ clock <= clock'
        /\ clock \in Nat /\ clock' \in Nat
    BY <1>1, <1>2, <2>1
  <2>4. \A i \in DOMAIN published : published[i].t \in Nat /\ published[i].t <= clock
    BY <1>1, <1>2, EventFields DEF LogInv, InTime
  <2>5. InTime'
    BY <2>2, <2>3, <2>4 DEF InTime
  <2>6. InitsOnce'
    BY <2>2 DEF LogInv, InitsOnce
  <2>7. Whole' = Whole
    BY <2>2 DEF Whole, WholeLines
  <2>8. \A i \in Whole : file'[i] = Encode(published'[i]) /\ published'[i].t \in 0..clock'
    BY <1>3, <2>2, <2>3
  <2>9. torn' => file'[Len(file')] \in Cuts(Encode(published'[Len(file')]))
    BY <2>2 DEF LogInv, TypeOK
  <2>10. torn' => published' # << >>
    BY <2>2 DEF LogInv
  <2> QED
    BY <1>1, <2>2, <2>3, <2>5, <2>6, <2>7, <2>8, <2>9, <2>10 DEF LogInv, TypeOK
<1>6. CASE Tear
  <2> PICK ev \in NextEvents : \E l \in Cuts(Encode(ev)) : Write(ev, l)
    BY <1>6 DEF Tear
  <2> PICK line \in Cuts(Encode(ev)) : Write(ev, line)
    OBVIOUS
  <2>1. ~torn /\ torn' = TRUE /\ now' = now /\ todo' = todo
    BY <1>6 DEF Tear
  <2>2. line \in AllLines
    <3>1. ev \in Events
      BY <1>1, <2>1, NextIs, HeaderPart DEF Events
    <3> QED
      BY <3>1 DEF AllLines
  <2>3. /\ published' \in Seq(Events) /\ Len(published') = last /\ published'[last] = ev
        /\ file' \in Seq(AllLines) /\ Len(file') = last /\ file'[last] = line
        /\ \A i \in DOMAIN published : published'[i] = published[i] /\ file'[i] = file[i]
        /\ clock' \in now'..MaxTime /\ clock <= clock'
        /\ InTime' /\ InitsOnce'
    BY <2>1, <2>2, AppendKeeps
  <2>4. Whole = 1..Len(published) /\ Whole' = 1..Len(published)
    BY <1>1, <2>1, <2>3 DEF Whole, WholeLines
  <2>5. \A i \in Whole' : file'[i] = Encode(published'[i]) /\ published'[i].t \in 0..clock'
    <3> TAKE i \in Whole'
    <3>1. i \in Whole /\ i \in DOMAIN published
      BY <1>1, <2>4
    <3>2. clock' \in Nat
      BY <1>1, <1>2, <2>1, <2>3
    <3>3. published'[i] = published[i] /\ file'[i] = file[i]
      BY <2>3, <3>1
    <3> QED
      BY <1>3, <2>3, <3>1, <3>2, <3>3
  <2>6. published' # << >>
    BY <1>1, <2>3
  <2> QED
    BY <1>1, <2>1, <2>3, <2>5, <2>6 DEF LogInv, TypeOK
<1>7. CASE UNCHANGED vars
  BY <1>7 DEF vars, LogInv, TypeOK, InTime, InitsOnce, Whole, WholeLines
<1> QED
  BY <1>4, <1>5, <1>6, <1>7 DEF Next

THEOREM LogInvariant == Spec => []LogInv
<1>1. Init => LogInv
  BY LogStarts
<1>2. LogInv /\ [Next]_vars => LogInv'
  BY LogSteps
<1> QED
  BY <1>1, <1>2, PTL DEF Spec

\* TypeOK: every whole line is its event's encoding, the torn one a cut of it,
\* and the header is written in its order, for every header HeaderAssumption allows.
THEOREM LogTypeCorrect == Spec => []TypeOK
<1>1. LogInv => TypeOK
  BY DEF LogInv
<1> QED
  BY <1>1, LogInvariant, PTL

-----------------------------------------------------------------------------
(***************************************************************************)
(* What the readers see of a whole line, and of the torn one.              *)
(***************************************************************************)
LEMMA LinesAre ==
  ASSUME LogInv
  PROVE  /\ Len(file) \in Nat /\ Len(published) = Len(file)
         /\ DOMAIN file = 1..Len(file) /\ DOMAIN published = 1..Len(file)
         /\ WholeLines \in Nat /\ WholeLines <= Len(file) /\ Whole \subseteq DOMAIN file
         /\ ~torn => WholeLines = Len(file) /\ Whole = DOMAIN file
         /\ torn => Len(file) \in DOMAIN file /\ WholeLines = Len(file) - 1
         /\ \A i \in DOMAIN file \ Whole : torn /\ i = Len(file)
         /\ \A i \in DOMAIN file : published[i] \in Events /\ published[i].t <= clock
         /\ clock \in Nat /\ clock \in Boot..MaxTime
<1>1. /\ published \in Seq(Events) /\ file \in Seq(AllLines) /\ Len(file) = Len(published)
      /\ torn \in BOOLEAN /\ (torn => published # << >>)
      /\ \A i \in DOMAIN published : published[i].t <= clock
  BY DEF LogInv, TypeOK, InTime
<1>2. /\ Len(file) \in Nat /\ DOMAIN file = 1..Len(file) /\ DOMAIN published = 1..Len(file)
      /\ torn => Len(file) >= 1
  BY <1>1
<1>3. \A i \in DOMAIN file : published[i] \in Events /\ published[i].t <= clock
  BY <1>1, <1>2
<1>6. clock \in Nat /\ clock \in Boot..MaxTime
  <2>1. now \in Boot..MaxTime /\ clock \in now..MaxTime
    BY DEF LogInv, TypeOK
  <2> QED
    BY <2>1, TimeAssumption
<1>4. CASE torn
  <2>1. WholeLines = Len(file) - 1
    BY <1>4 DEF WholeLines
  <2>2. WholeLines \in Nat /\ Len(file) \in DOMAIN file
    BY <1>2, <1>4, <2>1
  <2>3. \A i \in DOMAIN file \ Whole : i = Len(file)
    BY <1>2, <2>1 DEF Whole
  <2>4. Whole \subseteq DOMAIN file
    BY <1>2, <2>1 DEF Whole
  <2>5. WholeLines <= Len(file)
    BY <1>2, <2>1
  <2> QED
    BY <1>1, <1>2, <1>3, <1>4, <1>6, <2>1, <2>2, <2>3, <2>4, <2>5
<1>5. CASE ~torn
  <2>1. WholeLines = Len(file)
    BY <1>2, <1>5 DEF WholeLines
  <2>2. Whole = DOMAIN file /\ WholeLines <= Len(file)
    BY <1>2, <2>1 DEF Whole
  <2> QED
    BY <1>1, <1>2, <1>3, <1>5, <1>6, <2>1, <2>2
<1> QED
  BY <1>4, <1>5

LEMMA WholeSays ==
  ASSUME LogInv, NEW i \in Whole, NEW key
  PROVE  Find(file[i], key) = IF HasKey(published[i].k, key) THEN EmitValue(published[i][key]) ELSE Absent
<1>1. file[i] = Encode(published[i])
  BY DEF LogInv, TypeOK
<1> QED
  BY <1>1, FindWhole

LEMMA TornIsCut ==
  ASSUME LogInv, NEW i \in DOMAIN file, i \notin Whole
  PROVE  /\ torn /\ i = Len(file) /\ published[i] \in Events /\ published[i].k \in Kinds
         /\ \E p \in 1..KeyCount(published[i].k) : CutAt(file[i], published[i], p)
<1>1. torn /\ i = Len(file) /\ published[i] \in Events
  BY LinesAre
<1>2. file[i] \in Cuts(Encode(published[i]))
  BY <1>1 DEF LogInv, TypeOK
<1>3. published[i].k \in Kinds
  BY <1>1, EventFields
<1> QED
  BY <1>1, <1>2, <1>3, CutShape

\* Kind and time of a whole line.
LEMMA WholeKindAndTime ==
  ASSUME LogInv, NEW i \in Whole
  PROVE  KindOf(file[i]) = published[i].k /\ TimeOf(i) = published[i].t /\ published[i].t \in 0..clock
<1>1. published[i] \in Events /\ published[i].t <= clock /\ clock \in Boot..MaxTime
  BY LinesAre
<1>2. published[i].k \in Kinds /\ published[i].t \in 0..MaxTime
  BY <1>1, EventFields
<1>3. published[i].k \in Texts /\ published[i].t \in Nat
  BY <1>2, KeysOf, TimeAssumption DEF Texts
<1>4. Find(file[i], "k") = EmitValue(published[i].k)
  BY <1>2, WholeSays, KindsHave
<1>5. Find(file[i], "t") = EmitValue(published[i].t)
  BY <1>2, WholeSays, KindsHave
<1>6. Find(file[i], "k") = published[i].k
  BY <1>3, <1>4, WrittenAsIs
<1>7. Find(file[i], "t") = published[i].t /\ published[i].t # Null /\ published[i].t # Absent
  BY <1>3, <1>5, WrittenAsIs
<1>8. published[i].t \in 0..clock
  BY <1>1, <1>2, TimeAssumption
<1> QED
  BY <1>6, <1>7, <1>8 DEF KindOf, TimeOf, Number, Or

\* The place of a key in a line of a kind; the kind comes first, the time last.
LEMMA KeyPlace ==
  ASSUME NEW kind \in Kinds
  PROVE  /\ KeyOrder[kind][1] = "k" /\ 1 \in 1..KeyCount(kind)
         /\ KeyOrder[kind][KeyCount(kind)] = "t" /\ KeyCount(kind) \in 1..KeyCount(kind)
<1>1. CASE kind = "ms"
  BY <1>1, KeysOf DEF KeyCount
<1>2. CASE kind = "ai"
  BY <1>2, KeysOf DEF KeyCount
<1>3. CASE kind = "ast"
  BY <1>3, KeysOf DEF KeyCount
<1>4. CASE kind = "dr"
  BY <1>4, KeysOf DEF KeyCount
<1>5. CASE kind = "drf"
  BY <1>5, KeysOf DEF KeyCount
<1>6. CASE kind = "car"
  BY <1>6, KeysOf DEF KeyCount
<1> QED
  BY <1>1, <1>2, <1>3, <1>4, <1>5, <1>6 DEF Kinds

\* The time a torn line shows is none, a part of its event's, or its event's;
\* a part is older than the ticks.
LEMMA TornTime ==
  ASSUME LogInv, NEW i \in DOMAIN file, i \notin Whole
  PROVE  /\ TimeOf(i) \in 0..published[i].t /\ published[i].t \in 0..clock
         /\ TimeOf(i) = published[i].t \/ TimeOf(i) < Boot
<1> DEFINE ev == published[i]
           line == file[i]
           t == ev.t
           n == KeyCount(ev.k)
<1>1. ev \in Events /\ ev.k \in Kinds /\ t <= clock /\ clock \in Boot..MaxTime
  BY TornIsCut, LinesAre
<1>2. t \in 0..MaxTime /\ t \in 0..clock /\ t \in Nat
  BY <1>1, EventFields, TimeAssumption
<1>3. PICK p \in 1..n : CutAt(line, ev, p)
  BY TornIsCut
<1>4. KeyOrder[ev.k][n] = "t" /\ n \in 1..n /\ n \in Nat
  BY <1>1, KeyPlace, KeyPlaces
<1>5. EmitValue(t) = t /\ t # Null /\ t # Absent
  BY <1>2, WrittenAsIs
<1>6. Find(line, "t") = Absent \/ (p = n /\ Find(line, "t") = line[p].val)
  <2>1. n > p \/ n = p
    BY <1>4
  <2> HIDE DEF n, line
  <2> QED
    BY <1>1, <1>3, <1>4, <2>1, FindCut DEF n
<1>7. CASE Find(line, "t") = Absent
  <2>1. TimeOf(i) = 0
    BY <1>7 DEF TimeOf, Number, Or
  <2> QED
    BY <1>2, <2>1, TimeAssumption
<1>8. CASE p = n /\ Find(line, "t") = line[p].val
  <2>1. line[p].val = t \/ line[p].val \in Halves("t", t)
    BY <1>3, <1>4, <1>5, <1>8 DEF CutAt
  <2>2. line[p].val \in 0..t /\ (line[p].val = t \/ line[p].val < Boot)
    BY <1>2, <2>1, TimeAssumption
  <2>3. line[p].val \in Nat
    BY <1>2, <2>2
  <2>4. line[p].val # Null /\ line[p].val # Absent
    BY <2>3, WrittenAsIs
  <2>5. TimeOf(i) = line[p].val
    BY <1>8, <2>4 DEF TimeOf, Number, Or
  <2> QED
    BY <1>2, <2>2, <2>5
<1> QED
  BY <1>6, <1>7, <1>8

LEMMA DurationIsEnough == ASSUME LogInv PROVE DurationNotShort
<1> DEFINE ts == {published[i].t : i \in Whole} \ {0}
<1>1. ASSUME NEW i \in Whole
      PROVE  /\ i \in DOMAIN file /\ TimeOf(i) = published[i].t /\ published[i].t \in 0..clock
             /\ KindOf(file[i]) # Absent
  <2>1. i \in DOMAIN file /\ published[i] \in Events
    BY LinesAre
  <2>2. published[i].k \in Kinds
    BY <2>1, EventFields
  <2>3. published[i].k \in Texts
    BY <2>2, KeysOf DEF Texts
  <2>4. published[i].k # Absent
    BY <2>3, WrittenAsIs
  <2> QED
    BY <2>1, <2>4, WholeKindAndTime
<1>2. clock \in Nat /\ \A i \in DOMAIN file : TimeOf(i) \in 0..clock
  <2>1. clock \in Nat
    BY LinesAre
  <2>2. ASSUME NEW i \in DOMAIN file PROVE TimeOf(i) \in 0..clock
    <3>1. CASE i \in Whole
      BY <1>1, <3>1
    <3>2. CASE i \notin Whole
      <4>1. TimeOf(i) \in 0..published[i].t /\ published[i].t \in 0..clock
        BY <3>2, TornTime
      <4> QED
        BY <2>1, <4>1
    <3> QED
      BY <3>1, <3>2
  <2> QED
    BY <2>1, <2>2
<1>3. ts \in SUBSET Nat /\ \A t \in ts : t <= clock
  BY <1>1, <1>2
<1>4. Times \in SUBSET Nat /\ \A t \in Times : t <= clock
  BY <1>2 DEF Times
<1>5. ts \subseteq Times
  BY <1>1 DEF Times
<1>6. ~torn => Times = ts
  <2>1. ~torn => Whole = DOMAIN file
    BY LinesAre
  <2> QED
    BY <1>1, <2>1 DEF Times
<1> HIDE DEF ts
<1> SUFFICES ASSUME ts # {}
             PROVE  Duration >= Max(ts) - Min(ts) /\ (~torn => Duration = Max(ts) - Min(ts))
  BY DEF DurationNotShort, ts
<1>7. Duration = Max(Times) - Min(Times)
  BY <1>5 DEF Duration
<1>8. Max(ts) \in ts /\ Min(ts) \in ts
  BY <1>2, <1>3, MinExists, MaxExists
<1>9. /\ Max(Times) \in Times /\ \A t \in Times : t <= Max(Times)
      /\ Min(Times) \in Times /\ \A t \in Times : Min(Times) <= t
  <2>1. Times # {}
    BY <1>5
  <2> QED
    BY <1>2, <1>4, <2>1, MinExists, MaxExists
<1>10. Max(ts) <= Max(Times) /\ Min(Times) <= Min(ts)
  BY <1>5, <1>8, <1>9
<1>11. Max(ts) \in Nat /\ Min(ts) \in Nat /\ Max(Times) \in Nat /\ Min(Times) \in Nat
  BY <1>3, <1>4, <1>8, <1>9
<1> QED
  BY <1>6, <1>7, <1>10, <1>11

\* DurationNotShort: the length of the run self divides by is never less than
\* from the first to the last event whose line is whole, and exactly that when
\* no line is torn.
THEOREM LogDurationNotShort == Spec => []DurationNotShort
<1>1. LogInv => DurationNotShort
  BY DurationIsEnough
<1> QED
  BY <1>1, LogInvariant, PTL

-----------------------------------------------------------------------------
(***************************************************************************)
(* Reports.                                                                *)
(***************************************************************************)
LEMMA WholeReport ==
  ASSUME LogInv, NEW i \in Whole
  PROVE  /\ i \in Lines("dr") <=> published[i].k = "dr"
         /\ published[i].k = "dr" =>
              /\ GroupOf(i) = [rule |-> published[i].rule, a |-> published[i].a]
              /\ published[i].rule \in Rules /\ published[i].a \in Cards /\ published[i].t > 0
<1>1. i \in DOMAIN file /\ published[i] \in Events /\ KindOf(file[i]) = published[i].k
  BY LinesAre, WholeKindAndTime
<1>2. CASE published[i].k = "dr"
  <2>2. published[i].rule \in Rules /\ published[i].a \in Cards /\ published[i].t > 0
    BY <1>1, <1>2, EventFields
  <2>3. published[i].rule \in Texts /\ published[i].a \in Texts
    BY <2>2, NamesAssumption
  <2>4. HasKey("dr", "rule") /\ HasKey("dr", "a")
    BY KindsHave DEF Kinds
  <2>5. Find(file[i], "rule") = EmitValue(published[i].rule)
    BY <1>2, <2>4, WholeSays
  <2>6. Find(file[i], "a") = EmitValue(published[i].a)
    BY <1>2, <2>4, WholeSays
  <2>7. Find(file[i], "rule") = published[i].rule /\ published[i].rule # Absent
    BY <2>3, <2>5, WrittenAsIs
  <2>8. Find(file[i], "a") = published[i].a /\ published[i].a # Absent
    BY <2>3, <2>6, WrittenAsIs
  <2> QED
    BY <1>1, <1>2, <2>2, <2>7, <2>8 DEF GroupOf, Or, Lines
<1> QED
  BY <1>1, <1>2 DEF Lines

\* A group is what the whole lines report, and at most the torn one.
LEMMA GroupIs ==
  ASSUME LogInv, NEW r \in Rules, NEW a \in Cards
  PROVE  /\ ReportsOf(r, a) \subseteq Group([rule |-> r, a |-> a])
         /\ Group([rule |-> r, a |-> a]) \subseteq DOMAIN file
         /\ \A i \in Group([rule |-> r, a |-> a]) : i \in ReportsOf(r, a) \/ i \notin Whole
<1>1. \A i \in ReportsOf(r, a) : i \in Group([rule |-> r, a |-> a])
  <2> TAKE i \in ReportsOf(r, a)
  <2>1. i \in Whole /\ published[i].k = "dr" /\ published[i].rule = r /\ published[i].a = a
    BY DEF ReportsOf
  <2>2. i \in Lines("dr") /\ GroupOf(i) = [rule |-> r, a |-> a]
    BY <2>1, WholeReport
  <2> QED
    BY <2>2 DEF Group
<1>2. \A i \in Group([rule |-> r, a |-> a]) : i \in ReportsOf(r, a) \/ i \notin Whole
  <2> SUFFICES ASSUME NEW i \in Group([rule |-> r, a |-> a]), i \in Whole
               PROVE  i \in ReportsOf(r, a)
    OBVIOUS
  <2>1. i \in Lines("dr") /\ GroupOf(i) = [rule |-> r, a |-> a]
    BY DEF Group
  <2>2. published[i].k = "dr" /\ GroupOf(i) = [rule |-> published[i].rule, a |-> published[i].a]
    BY <2>1, WholeReport
  <2>3. [rule |-> r, a |-> a].rule = r /\ [rule |-> r, a |-> a].a = a
    OBVIOUS
  <2>4. GroupOf(i).rule = published[i].rule /\ GroupOf(i).a = published[i].a
    BY <2>2
  <2> QED
    BY <2>1, <2>2, <2>3, <2>4 DEF ReportsOf
<1>3. Group([rule |-> r, a |-> a]) \subseteq DOMAIN file
  BY DEF Group, Lines
<1> QED
  BY <1>1, <1>2, <1>3

\* What a torn line adds to a set of lines.
LEMMA OneMore ==
  ASSUME LogInv, NEW S \in SUBSET Whole, NEW T \in SUBSET DOMAIN file, S \subseteq T,
         \A i \in T : i \in S \/ i \notin Whole
  PROVE  /\ IsFiniteSet(T) /\ Cardinality(T) - Cardinality(S) \in IF torn THEN {0, 1} ELSE {0}
         /\ \A i \in T \ S : torn /\ i = Len(file)
<1>1. \A i \in T \ S : torn /\ i = Len(file)
  BY LinesAre
<1>2. IsFiniteSet(T) /\ IsFiniteSet(S)
  <2>1. IsFiniteSet(1..Len(file)) /\ DOMAIN file = 1..Len(file) /\ Whole \subseteq DOMAIN file
    BY LinesAre, FS_Interval
  <2> QED
    BY <2>1, FS_Subset
<1>3. CASE T = S
  <2>1. Cardinality(T) - Cardinality(S) = 0
    BY <1>2, <1>3, FS_CardinalityType
  <2> QED
    BY <1>1, <1>2, <2>1
<1>4. CASE T # S
  <2>1. torn /\ Len(file) \notin S /\ T = S \cup {Len(file)}
    BY <1>1, <1>4
  <2>2. Cardinality(T) = Cardinality(S) + 1
    BY <1>2, <2>1, FS_AddElement
  <2>3. Cardinality(T) - Cardinality(S) = 1
    BY <1>2, <2>2, FS_CardinalityType
  <2> QED
    BY <1>1, <1>2, <2>1, <2>3
<1> QED
  BY <1>3, <1>4

LEMMA GroupCount ==
  ASSUME LogInv, NEW r \in Rules, NEW a \in Cards
  PROVE  Cardinality(Group([rule |-> r, a |-> a])) - Cardinality(ReportsOf(r, a))
           \in IF torn THEN {0, 1} ELSE {0}
<1> DEFINE S == ReportsOf(r, a)
           T == Group([rule |-> r, a |-> a])
<1>1. S \in SUBSET Whole
  BY DEF ReportsOf
<1>2. T \in SUBSET DOMAIN file /\ S \subseteq T /\ \A i \in T : i \in S \/ i \notin Whole
  BY GroupIs
<1> HIDE DEF S, T
<1>3. Cardinality(T) - Cardinality(S) \in IF torn THEN {0, 1} ELSE {0}
  BY <1>1, <1>2, OneMore
<1> QED
  BY <1>3 DEF S, T

\* The first report of a group is a whole one; every stamp it shows is a report's
\* own or, on a torn line, an older one.
LEMMA GroupSpan ==
  ASSUME LogInv, NEW r \in Rules, NEW a \in Cards, ReportsOf(r, a) # {}
  PROVE  LET is == ReportsOf(r, a)
             g == [rule |-> r, a |-> a]
             ts == {published[i].t : i \in Group(g)}
         IN  /\ published[Max(is)].t - published[Min(is)].t <= Span(g)
             /\ Span(g) <= Max(ts) - Min(ts)
<1> DEFINE is == ReportsOf(r, a)
           g == [rule |-> r, a |-> a]
           G == Group(g)
           ts == {published[i].t : i \in G}
           seen == {TimeOf(i) : i \in G}
           from == Min(is)
           to == Max(is)
<1>1. /\ Len(file) \in Nat /\ DOMAIN file = 1..Len(file) /\ DOMAIN published = 1..Len(file)
      /\ Whole \subseteq DOMAIN file /\ clock \in Nat
      /\ \A i \in DOMAIN file : i \notin Whole => i = Len(file)
  BY LinesAre
<1>2. is \subseteq Whole /\ is \subseteq G /\ G \subseteq DOMAIN file /\ \A i \in G : i \in is \/ i \notin Whole
  BY GroupIs DEF ReportsOf
<1>3. \A i \in is : TimeOf(i) = published[i].t /\ published[i].t > 0 /\ published[i].t \in 0..clock
  BY <1>2, WholeReport, WholeKindAndTime DEF ReportsOf
<1>4. is # {} /\ is \in SUBSET Nat /\ \A i \in is : i <= Len(file)
  BY <1>1, <1>2
<1>5. G # {} /\ G \in SUBSET Nat
  BY <1>1, <1>2, <1>4
<1>6. \A i \in G : TimeOf(i) \in 0..published[i].t /\ published[i].t \in 0..clock
  <2> TAKE i \in G
  <2>1. CASE i \in is
    BY <1>3, <2>1
  <2>2. CASE i \notin is
    BY <1>2, <2>2, TornTime
  <2> QED
    BY <2>1, <2>2
<1>7. Span(g) = IF TimeOf(Min(G)) > 0 /\ Max(seen) > TimeOf(Min(G)) THEN Max(seen) - TimeOf(Min(G)) ELSE 0
  BY DEF Span
<1> HIDE DEF is, g, G
<1>8. from \in is /\ (\A i \in is : from <= i) /\ to \in is
  BY <1>1, <1>4, MinExists, MaxExists
<1>9. Min(G) \in G /\ \A i \in G : Min(G) <= i
  BY <1>5, MinExists
<1> HIDE DEF from, to
<1>10. \A i \in G : from <= i
  BY <1>1, <1>2, <1>4, <1>8
<1>11. Min(G) = from
  BY <1>2, <1>4, <1>5, <1>8, <1>9, <1>10
<1>12. /\ TimeOf(from) = published[from].t /\ published[from].t \in Nat /\ published[from].t > 0
       /\ TimeOf(to) = published[to].t /\ published[to].t \in Nat
  BY <1>1, <1>3, <1>8
<1>13. seen \in SUBSET Nat /\ \A t \in seen : t <= clock
  <2>1. \A i \in G : TimeOf(i) \in 0..clock
    BY <1>1, <1>6
  <2> QED
    BY <1>1, <2>1
<1>14. ts \in SUBSET Nat /\ \A t \in ts : t <= clock
  BY <1>1, <1>6
<1>15. TimeOf(to) \in seen /\ published[from].t \in ts
  BY <1>2, <1>8
<1>16. Max(seen) \in seen /\ \A t \in seen : t <= Max(seen)
  BY <1>1, <1>13, <1>15, MaxExists
<1>17. Max(ts) \in ts /\ (\A t \in ts : t <= Max(ts)) /\ Min(ts) \in ts /\ (\A t \in ts : Min(ts) <= t)
  BY <1>1, <1>14, <1>15, MinExists, MaxExists
<1>18. Max(seen) \in Nat /\ Max(ts) \in Nat /\ Min(ts) \in Nat
  BY <1>13, <1>14, <1>16, <1>17
<1>19. Max(seen) <= Max(ts)
  <2> PICK i \in G : Max(seen) = TimeOf(i)
    BY <1>16
  <2>1. TimeOf(i) <= published[i].t /\ published[i].t \in Nat /\ published[i].t <= Max(ts)
    BY <1>1, <1>6, <1>17
  <2> QED
    BY <1>18, <2>1
<1>20. Min(ts) <= published[from].t /\ published[from].t <= Max(ts) /\ published[to].t <= Max(seen)
  BY <1>12, <1>15, <1>16, <1>17
<1>21. published[to].t - published[from].t <= Span(g) /\ Span(g) <= Max(ts) - Min(ts)
  BY <1>7, <1>11, <1>12, <1>18, <1>19, <1>20
<1> QED
  BY <1>21 DEF is, g, G, from, to

\* A group that no whole line reported is the torn line's.
LEMMA GroupsAdded ==
  ASSUME LogInv
  PROVE  Cardinality(Groups \ {g \in [rule : Rules, a : Cards] : ReportsOf(g.rule, g.a) # {}})
           <= IF torn THEN 1 ELSE 0
<1> DEFINE Real == {g \in [rule : Rules, a : Cards] : ReportsOf(g.rule, g.a) # {}}
           New == Groups \ Real
<1>1. \A g \in New : torn /\ g = GroupOf(Len(file))
  <2> TAKE g \in New
  <2> PICK i \in Lines("dr") : g = GroupOf(i)
    BY DEF Groups
  <2>1. i \in DOMAIN file
    BY DEF Lines
  <2>2. i \notin Whole
    <3> SUFFICES ASSUME i \in Whole
                 PROVE  g \in Real
      OBVIOUS
    <3>1. /\ published[i].k = "dr" /\ g = [rule |-> published[i].rule, a |-> published[i].a]
          /\ published[i].rule \in Rules /\ published[i].a \in Cards
      BY WholeReport
    <3>2. i \in ReportsOf(g.rule, g.a)
      BY <3>1 DEF ReportsOf
    <3> QED
      BY <3>1, <3>2
  <2> QED
    BY <2>1, <2>2, LinesAre
<1> HIDE DEF New
<1>2. CASE New = {}
  <2>1. Cardinality(New) = 0
    BY <1>2, FS_EmptySet
  <2> QED
    BY <2>1 DEF New
<1>3. CASE New # {}
  <2>1. torn /\ New = {GroupOf(Len(file))}
    BY <1>1, <1>3
  <2>2. Cardinality(New) = 1
    BY <2>1, FS_Singleton
  <2> QED
    BY <2>1, <2>2 DEF New
<1> QED
  BY <1>2, <1>3

\* GroupsAreReal: each rule and adapter that reported, before the first tick or
\* after, has its group with the number and the span of its reports; the torn
\* line adds at most one report or one group, and no more time than had passed.
THEOREM LogGroupsAreReal == Spec => []GroupsAreReal
<1>1. LogInv => GroupsAreReal
  BY GroupCount, GroupSpan, GroupsAdded DEF GroupsAreReal
<1> QED
  BY <1>1, LogInvariant, PTL

-----------------------------------------------------------------------------
(***************************************************************************)
(* Samples.                                                                *)
(***************************************************************************)
LEMMA SampleFields ==
  ASSUME NEW ev \in Events, ev.k = "ms"
  PROVE  /\ ev.a \in Cards /\ ev.s \in Texts /\ ev.n \in Texts /\ ev.a \in Texts
         /\ ev.v # NaN => ev.v \in Nat
         /\ EmitValue(ev.v) = IF ev.v = NaN THEN Null ELSE ev.v
<1>1. ev.a \in Cards /\ ev.n \in Texts /\ ev.s \in Texts /\ ev.v \in Nat \cup {NaN}
  BY EventFields
<1>2. ev.a \in Texts
  BY <1>1, NamesAssumption
<1> QED
  BY <1>1, <1>2 DEF EmitValue

\* The samples of the metrics the readers track are those of ticks.
LEMMA TrackedFields ==
  ASSUME NEW ev \in Events, ev.k = "ms", ev.n \in Tracked
  PROVE  /\ ev.t \in Boot..MaxTime
         /\ ev.v # NaN => ev.v \in CounterValues \cup GaugeValues /\ ev.v \in Nat
<1>1. ev \in BodyEvents
  BY EventFields
<1>2. ev.t \in Boot..MaxTime /\ ev.v \in CounterValues \cup GaugeValues \cup {NaN}
  BY <1>1, BodyEventFields
<1> QED
  BY <1>2, NumberAssumption

\* A whole sample is seen exactly if it has a number, and as it is.
LEMMA WholeSample ==
  ASSUME LogInv, NEW i \in Whole, NEW a, NEW n \in Tracked
  PROVE  /\ i \in SamplesOf(a, n) <=>
              published[i].k = "ms" /\ published[i].a = a /\ published[i].n = n /\ published[i].v # NaN
         /\ i \in SamplesOf(a, n) => /\ ValueOf(i) = published[i].v /\ ValueOf(i) \in Nat
                                     /\ Or(Find(file[i], "s"), "") = published[i].s
<1> DEFINE ev == published[i]
<1>1. i \in DOMAIN file /\ ev \in Events /\ KindOf(file[i]) = ev.k
  BY LinesAre, WholeKindAndTime
<1>2. CASE ev.k = "ms"
  <2>1. HasKey("ms", "n") /\ HasKey("ms", "a") /\ HasKey("ms", "v") /\ HasKey("ms", "s")
    BY KindsHave DEF Kinds
  <2>2. ev.n \in Texts /\ ev.a \in Texts /\ ev.s \in Texts
    BY <1>1, <1>2, SampleFields
  <2>3. ev.v # NaN => ev.v \in Nat
    BY <1>1, <1>2, SampleFields
  <2>4. EmitValue(ev.v) = IF ev.v = NaN THEN Null ELSE ev.v
    BY <1>1, <1>2, SampleFields
  <2>5. Find(file[i], "n") = ev.n
    <3>1. Find(file[i], "n") = EmitValue(ev.n)
      BY <1>2, <2>1, WholeSays
    <3> QED
      BY <2>2, <3>1, WrittenAsIs
  <2>6. Find(file[i], "a") = ev.a
    <3>1. Find(file[i], "a") = EmitValue(ev.a)
      BY <1>2, <2>1, WholeSays
    <3> QED
      BY <2>2, <3>1, WrittenAsIs
  <2>7. Find(file[i], "s") = ev.s /\ ev.s # Absent
    <3>1. Find(file[i], "s") = EmitValue(ev.s)
      BY <1>2, <2>1, WholeSays
    <3> QED
      BY <2>2, <3>1, WrittenAsIs
  <2>8. Find(file[i], "v") = EmitValue(ev.v)
    BY <1>2, <2>1, WholeSays
  <2>9. CASE ev.v = NaN
    BY <1>1, <1>2, <2>4, <2>5, <2>6, <2>8, <2>9 DEF SamplesOf, Lines, Number
  <2>10. CASE ev.v # NaN
    <3>1. Find(file[i], "v") = ev.v /\ ev.v # Null /\ ev.v # Absent
      BY <2>3, <2>4, <2>8, <2>10, WrittenAsIs
    <3> QED
      BY <1>1, <1>2, <2>3, <2>5, <2>6, <2>7, <2>10, <3>1
      DEF SamplesOf, Lines, Number, ValueOf, Or
  <2> QED
    BY <2>9, <2>10
<1> QED
  BY <1>1, <1>2 DEF SamplesOf, Lines

\* A torn sample that is seen has its adapter and metric, and a number; with a
\* time it is as it was published.
LEMMA TornSample ==
  ASSUME LogInv, NEW a, NEW n, NEW i \in SamplesOf(a, n), i \notin Whole
  PROVE  /\ published[i].k = "ms" /\ published[i].a = a /\ published[i].n = n
         /\ published[i].v # NaN /\ published[i].v \in Nat
         /\ ValueOf(i) \in Nat
         /\ TimeOf(i) > 0 => ValueOf(i) = published[i].v
<1> DEFINE ev == published[i]
           line == file[i]
<1>1. /\ i \in DOMAIN file /\ Find(line, "a") = a /\ Find(line, "n") = n
      /\ Find(line, "v") # Null /\ Find(line, "v") # Absent
      /\ n \in Tracked
  BY DEF SamplesOf, Lines, Number
<1>2. ev \in Events /\ ev.k \in Kinds
  BY <1>1, TornIsCut
<1>3. PICK p \in 1..KeyCount(ev.k) : CutAt(line, ev, p)
  BY <1>1, TornIsCut
<1> HIDE DEF ev, line
<1>4. ev.k = "ms"
  <2>1. HasKey(ev.k, "v")
    BY <1>1, <1>2, <1>3, FindNotCut
  <2> QED
    BY <1>2, <2>1, KindsHave
<1>5. /\ KeyCount(ev.k) = 6 /\ KeyOrder[ev.k][2] = "n" /\ KeyOrder[ev.k][3] = "a"
      /\ KeyOrder[ev.k][4] = "v" /\ KeyOrder[ev.k][6] = "t"
  BY <1>4, KeysOf DEF KeyCount
<1>6. p \in 1..6 /\ 2 \in 1..KeyCount(ev.k) /\ 3 \in 1..KeyCount(ev.k) /\ 4 \in 1..KeyCount(ev.k)
      /\ 6 \in 1..KeyCount(ev.k)
  BY <1>3, <1>5
<1>7. 4 < p => Find(line, "v") = EmitValue(ev.v)
  BY <1>2, <1>3, <1>5, <1>6, FindCut
<1>8. 4 = p => Find(line, "v") = line[p].val
  BY <1>2, <1>3, <1>5, <1>6, FindCut
<1>9. 4 > p => Find(line, "v") = Absent
  BY <1>2, <1>3, <1>5, <1>6, FindCut
<1>10. p >= 4
  BY <1>1, <1>6, <1>9
<1>11. Find(line, "n") = EmitValue(ev.n)
  <2>1. 2 < p
    BY <1>6, <1>10
  <2> QED
    BY <1>2, <1>3, <1>5, <1>6, <2>1, FindCut
<1>12. Find(line, "a") = EmitValue(ev.a)
  <2>1. 3 < p
    BY <1>6, <1>10
  <2> QED
    BY <1>2, <1>3, <1>5, <1>6, <2>1, FindCut
<1>13. Find(line, "n") = ev.n /\ Find(line, "a") = ev.a
  <2>1. ev.n \in Texts /\ ev.a \in Texts
    BY <1>2, <1>4, SampleFields
  <2> QED
    BY <1>11, <1>12, <2>1, WrittenAsIs
<1>14. EmitValue(ev.v) = IF ev.v = NaN THEN Null ELSE ev.v
  BY <1>2, <1>4, SampleFields
<1>15. ev.v # NaN => ev.v \in CounterValues \cup GaugeValues /\ ev.v \in Nat
  BY <1>1, <1>2, <1>4, <1>13, TrackedFields
<1>16. p = 4 => \/ line[p].val = EmitValue(ev.v)
                \/ EmitValue(ev.v) # Null /\ line[p].val \in Halves("v", EmitValue(ev.v))
  BY <1>3, <1>5 DEF CutAt
<1>17. ev.v # NaN
  BY <1>1, <1>6, <1>7, <1>8, <1>10, <1>14, <1>16
<1>18. ev.v \in CounterValues \cup GaugeValues /\ ev.v \in Nat /\ EmitValue(ev.v) = ev.v
  BY <1>14, <1>15, <1>17
<1>19. p = 4 => line[p].val \in Nat
  BY <1>16, <1>18, NumberAssumption
<1>20. Find(line, "v") \in Nat
  <2>1. p = 4 \/ 4 < p
    BY <1>6, <1>10
  <2> QED
    BY <1>7, <1>8, <1>18, <1>19, <2>1
<1>21. TimeOf(i) > 0 => Find(line, "v") = ev.v
  <2> SUFFICES ASSUME TimeOf(i) > 0
               PROVE  Find(line, "v") = ev.v
    OBVIOUS
  <2>1. Find(line, "t") # Absent
    BY DEF TimeOf, Number, Or, line
  <2>2. 6 > p => Find(line, "t") = Absent
    BY <1>2, <1>3, <1>5, <1>6, FindCut
  <2>3. 4 < p
    BY <1>6, <2>1, <2>2
  <2> QED
    BY <1>7, <1>18, <2>3
<1> QED
  BY <1>1, <1>4, <1>13, <1>17, <1>18, <1>20, <1>21 DEF ValueOf, ev, line

LEMMA UnusableShown ==
  ASSUME LogInv, NEW a \in Cards, NEW n \in Counters, Unusable(a, n)
  PROVE  \E i, j \in SamplesPublished(a, n) :
           LET d == published[j].v - published[i].v
           IN  i < j /\ (d < 0 \/ d > published[j].t - published[i].t)
<1> DEFINE S == SamplesOf(a, n)
           i == Min(S)
           j == Max(S)
<1>1. /\ Len(file) \in Nat /\ DOMAIN file = 1..Len(file) /\ DOMAIN published = 1..Len(file)
      /\ \A k \in DOMAIN file : k \notin Whole => k = Len(file)
  BY LinesAre
<1>2. S \subseteq DOMAIN file
  BY DEF SamplesOf, Lines
<1>3. S # {} /\ S \in SUBSET Nat /\ \A k \in S : k <= Len(file)
  BY <1>1, <1>2 DEF Unusable, RateKnown
<1>4. Cardinality(S) >= 2 /\ TimeOf(j) - TimeOf(i) >= 2
  BY DEF Unusable, RateKnown, Series
<1>5. LET d == ValueOf(j) - ValueOf(i) IN d < 0 \/ d > TimeOf(j) - TimeOf(i)
  BY DEF Unusable, Series
<1> HIDE DEF S
<1>6. i \in S /\ (\A k \in S : i <= k) /\ j \in S /\ (\A k \in S : k <= j)
  BY <1>1, <1>3, MinExists, MaxExists
<1> HIDE DEF i, j
<1>7. i < j
  <2>1. i # j
    <3> SUFFICES ASSUME i = j
                 PROVE  FALSE
      OBVIOUS
    <3>1. \A k \in S : k \in Nat /\ i \in Nat /\ i <= k /\ k <= i
      BY <1>3, <1>6
    <3>3. \A k \in S : k = i
      BY <3>1
    <3>4. S = {i}
      BY <1>6, <3>3
    <3>2. Cardinality(S) = 1
      BY <3>4, FS_Singleton
    <3> QED
      BY <1>4, <3>2
  <2> QED
    BY <1>3, <1>6, <2>1
<1>8. i \in Whole /\ n \in Tracked
  BY <1>1, <1>2, <1>3, <1>6, <1>7 DEF Tracked
<1>9. /\ published[i].k = "ms" /\ published[i].a = a /\ published[i].n = n
      /\ ValueOf(i) = published[i].v /\ TimeOf(i) = published[i].t
  <2>1. i \in SamplesOf(a, n)
    BY <1>6 DEF S
  <2>2. TimeOf(i) = published[i].t
    BY <1>8, WholeKindAndTime
  <2>3. published[i].k = "ms" /\ published[i].a = a /\ published[i].n = n
    BY <1>8, <2>1, WholeSample
  <2>4. ValueOf(i) = published[i].v
    BY <1>8, <2>1, WholeSample
  <2> QED
    BY <2>2, <2>3, <2>4
<1>10. published[i].t \in Boot..MaxTime
  BY <1>1, <1>2, <1>6, <1>8, <1>9, TrackedFields, LinesAre
<1>11. published[i].t \in Nat /\ published[i].t >= Boot /\ Boot \in Nat
  BY <1>10, TimeAssumption
<1>12. CASE j \in Whole
  <2>1. /\ published[j].k = "ms" /\ published[j].a = a /\ published[j].n = n
        /\ ValueOf(j) = published[j].v /\ TimeOf(j) = published[j].t
    <3>1. j \in SamplesOf(a, n)
      BY <1>6 DEF S
    <3>2. TimeOf(j) = published[j].t
      BY <1>12, WholeKindAndTime
    <3>3. published[j].k = "ms" /\ published[j].a = a /\ published[j].n = n
      BY <1>8, <1>12, <3>1, WholeSample
    <3>4. ValueOf(j) = published[j].v
      BY <1>8, <1>12, <3>1, WholeSample
    <3> QED
      BY <3>2, <3>3, <3>4
  <2> QED
    BY <1>1, <1>2, <1>5, <1>6, <1>7, <1>9, <2>1 DEF SamplesPublished
<1>13. CASE j \notin Whole
  <2>1. TimeOf(j) \in 0..published[j].t /\ (TimeOf(j) = published[j].t \/ TimeOf(j) < Boot)
    BY <1>2, <1>6, <1>13, TornTime
  <2>2. TimeOf(j) = published[j].t /\ TimeOf(j) > 0
    BY <1>4, <1>9, <1>11, <2>1
  <2>3. /\ published[j].k = "ms" /\ published[j].a = a /\ published[j].n = n
        /\ ValueOf(j) = published[j].v
    BY <1>6, <1>13, <2>2, TornSample DEF S
  <2> QED
    BY <1>1, <1>2, <1>5, <1>6, <1>7, <1>9, <2>2, <2>3 DEF SamplesPublished
<1> QED
  BY <1>12, <1>13

\* UnusableIsReal: adapters calls a counter unusable only if two published
\* samples regress or outrun the clock: a torn last sample has no time, one
\* older than the run's, or is whole.
THEOREM LogUnusableIsReal == Spec => []UnusableIsReal
<1>1. LogInv => UnusableIsReal
  BY UnusableShown DEF UnusableIsReal
<1> QED
  BY <1>1, LogInvariant, PTL

-----------------------------------------------------------------------------
(***************************************************************************)
(* Peaks.                                                                  *)
(***************************************************************************)
LEMMA PeakShown == ASSUME LogInv, NEW a \in Cards, NEW n \in Tracked PROVE PeakIsReal(a, n)
<1> DEFINE S == SamplesOf(a, n)
           whole == {i \in SamplesPublished(a, n) \cap Whole : published[i].v # NaN}
           V == [i \in DOMAIN file |-> ValueOf(i)]
           top == Max({ValueOf(i) : i \in S})
           real == Max({published[i].v : i \in whole})
           first == {i \in S : ValueOf(i) = top}
           at == Min(first)
           source == Or(Find(file[at], "s"), "")
<1>1. /\ DOMAIN file = 1..Len(file) /\ Len(file) \in Nat /\ DOMAIN published = DOMAIN file
      /\ Len(published) = Len(file)
      /\ Whole \subseteq DOMAIN file /\ IsFiniteSet(1..Len(file))
      /\ \A i \in DOMAIN file \ Whole : torn /\ i = Len(file)
  <2>1. /\ DOMAIN file = 1..Len(file) /\ Len(file) \in Nat /\ DOMAIN published = 1..Len(file)
        /\ Len(published) = Len(file) /\ Whole \subseteq DOMAIN file
        /\ \A i \in DOMAIN file \ Whole : torn /\ i = Len(file)
    BY LinesAre
  <2>2. IsFiniteSet(1..Len(file))
    BY <2>1, FS_Interval
  <2> QED
    BY <2>1, <2>2
<1>2. S \subseteq DOMAIN file /\ whole \subseteq DOMAIN file /\ whole \subseteq Whole
  BY <1>1 DEF SamplesOf, Lines
<1>3. ASSUME NEW i \in whole
      PROVE  i \in S /\ V[i] = published[i].v
  <2>1. i \in Whole /\ published[i].k = "ms" /\ published[i].a = a /\ published[i].n = n /\ published[i].v # NaN
    BY DEF SamplesPublished
  <2>2. i \in SamplesOf(a, n)
    BY <2>1, WholeSample
  <2>3. ValueOf(i) = published[i].v
    BY <2>1, <2>2, WholeSample
  <2> QED
    BY <1>2, <2>2, <2>3
<1>4. ASSUME NEW i \in S, i \in Whole
      PROVE  /\ i \in whole /\ V[i] \in Nat /\ V[i] = published[i].v
             /\ Or(Find(file[i], "s"), "") = published[i].s
  <2>1. i \in SamplesOf(a, n) /\ i \in DOMAIN file
    BY <1>2
  <2>2. published[i].k = "ms" /\ published[i].a = a /\ published[i].n = n /\ published[i].v # NaN
    BY <1>4, <2>1, WholeSample
  <2>3. ValueOf(i) = published[i].v /\ ValueOf(i) \in Nat /\ Or(Find(file[i], "s"), "") = published[i].s
    BY <1>4, <2>1, WholeSample
  <2>4. i \in whole
    BY <1>1, <1>4, <2>1, <2>2 DEF SamplesPublished
  <2>5. V[i] = ValueOf(i)
    BY <2>1
  <2> QED
    BY <2>3, <2>4, <2>5
<1>5. ASSUME NEW i \in S, i \notin Whole
      PROVE  V[i] \in Nat /\ i \in SamplesPublished(a, n) /\ torn /\ i = Len(published)
  <2>1. i \in SamplesOf(a, n) /\ i \in DOMAIN file
    BY <1>2
  <2>2. published[i].k = "ms" /\ published[i].a = a /\ published[i].n = n /\ ValueOf(i) \in Nat
    BY <1>5, <2>1, TornSample
  <2>3. i \in SamplesPublished(a, n)
    BY <1>1, <2>1, <2>2 DEF SamplesPublished
  <2>4. torn /\ i = Len(published)
    BY <1>1, <1>5, <2>1
  <2> QED
    BY <2>1, <2>2, <2>3, <2>4
<1>6. {ValueOf(i) : i \in S} = {V[i] : i \in S} /\ {published[i].v : i \in whole} = {V[i] : i \in whole}
  <2>1. \A i \in S : ValueOf(i) = V[i]
    BY <1>2
  <2>2. \A i \in whole : published[i].v = V[i]
    BY <1>3
  <2> QED
    BY <2>1, <2>2
<1>7. IsFiniteSet(S) /\ IsFiniteSet(whole)
  BY <1>1, <1>2, FS_Subset
<1>8. Peak(a, n).value = top /\ Peak(a, n).source = source
  BY DEF Peak
<1>9. PeakIsReal(a, n) <=>
        (whole # {} =>
           /\ top >= real
           /\ top = real => \E i \in whole : published[i].v = real /\ published[i].s = source
           /\ top > real => torn /\ Len(published) \in SamplesPublished(a, n))
  BY <1>8 DEF PeakIsReal
<1> SUFFICES ASSUME whole # {}
             PROVE  /\ top >= real
                    /\ top = real => \E i \in whole : published[i].v = real /\ published[i].s = source
                    /\ top > real => torn /\ Len(published) \in SamplesPublished(a, n)
  BY <1>9
<1>10. top = Max({V[i] : i \in S}) /\ real = Max({V[i] : i \in whole})
  BY <1>6
<1>11. \A i \in S : V[i] \in Nat /\ V[i] = ValueOf(i)
  BY <1>2, <1>4, <1>5
<1>12. S # {} /\ whole \subseteq S
  BY <1>3
<1>13. first \in SUBSET S /\ \A i \in S : i \in first <=> V[i] = top
  BY <1>11
<1> HIDE DEF S, whole, V, top, real, first
<1>14. top \in {V[i] : i \in S} /\ top \in Nat /\ \A i \in S : V[i] <= top
  BY <1>7, <1>10, <1>11, <1>12, LargestExists
<1>15. real \in {V[i] : i \in whole} /\ real \in Nat /\ \A i \in whole : V[i] <= real
  <2>1. \A i \in whole : V[i] \in Nat
    BY <1>11, <1>12
  <2> QED
    BY <1>7, <1>10, <2>1, LargestExists
<1>16. PICK largest \in whole : V[largest] = real
  BY <1>15
<1>17. top >= real
  BY <1>12, <1>14, <1>15, <1>16
<1>18. ASSUME top = real
       PROVE  \E i \in whole : published[i].v = real /\ published[i].s = source
  <2>1. first \in SUBSET Nat /\ largest \in first /\ largest \in Whole
    BY <1>1, <1>2, <1>12, <1>13, <1>16, <1>18
  <2>2. at \in first /\ at <= largest
    BY <2>1, MinExists
  <2> HIDE DEF at
  <2>3. at \in S /\ V[at] = real /\ at \in DOMAIN file
    BY <1>2, <1>13, <1>18, <2>2
  <2>4. at \in Whole
    <3> SUFFICES ASSUME at \notin Whole
                 PROVE  FALSE
      OBVIOUS
    <3>1. at = Len(file) /\ largest \in 1..Len(file) /\ largest # at /\ Len(file) \in Nat
      BY <1>1, <2>1, <2>3
    <3>2. at <= largest
      BY <2>2
    <3> QED
      BY ONLY <3>1, <3>2
  <2>5. at \in whole /\ published[at].v = real /\ Or(Find(file[at], "s"), "") = published[at].s
    BY <1>4, <2>3, <2>4
  <2> QED
    BY <2>5
<1>19. ASSUME top > real
       PROVE  torn /\ Len(published) \in SamplesPublished(a, n)
  <2> PICK i \in S : V[i] = top
    BY <1>14
  <2>1. i \notin Whole
    <3> SUFFICES ASSUME i \in Whole
                 PROVE  FALSE
      OBVIOUS
    <3>1. i \in whole
      BY <1>4
    <3> QED
      BY <1>14, <1>15, <1>19, <3>1
  <2> QED
    BY <1>5, <2>1
<1> QED
  BY <1>17, <1>18, <1>19

-----------------------------------------------------------------------------
(***************************************************************************)
(* Transitions.                                                            *)
(***************************************************************************)
LEMMA RankBounded == ASSUME NEW s PROVE StateRank(s) \in 0..4
BY DEF StateRank

LEMMA RankOf ==
  /\ StateRank("Idle") = 2 /\ StateRank("Unknown") = 0
BY DEF StateRank

LEMMA HighestIs ==
  ASSUME NEW a
  PROVE  /\ HighestRank(a) = 0 \/ \E i \in TransitionsOf(a) : HighestRank(a) = StateRank(Or(Find(file[i], "to"), "Unknown"))
         /\ \A i \in TransitionsOf(a) : StateRank(Or(Find(file[i], "to"), "Unknown")) <= HighestRank(a)
<1> DEFINE rank(i) == StateRank(Or(Find(file[i], "to"), "Unknown"))
           ranks == {0} \cup {rank(i) : i \in TransitionsOf(a)}
<1>1. \A i \in TransitionsOf(a) : rank(i) \in 0..4
  BY RankBounded
<1> HIDE DEF rank
<1>2. ranks \in SUBSET Nat /\ ranks # {} /\ \A r \in ranks : r <= 4
  BY <1>1
<1>3. HighestRank(a) = Max(ranks)
  BY DEF HighestRank, rank
<1>4. \A i \in TransitionsOf(a) : rank(i) \in ranks
  OBVIOUS
<1>5. Max(ranks) = 0 \/ \E i \in TransitionsOf(a) : Max(ranks) = rank(i)
  <2>1. Max(ranks) \in ranks
    <3> HIDE DEF ranks
    <3> QED
      BY <1>2, MaxExists
  <2> QED
    BY <2>1
<1>6. \A r \in ranks : r <= Max(ranks)
  <2> HIDE DEF ranks
  <2> QED
    BY <1>2, MaxExists
<1> QED
  BY <1>3, <1>4, <1>5, <1>6 DEF rank

LEMMA WholeTransition ==
  ASSUME LogInv, NEW i \in Whole, published[i].k = "ast"
  PROVE  i \in Lines("ast") /\ AdapterOf(i) = published[i].a /\ Find(file[i], "to") = "Idle" /\ "Idle" # Absent
<1> DEFINE ev == published[i]
<1>1. i \in DOMAIN file /\ ev \in Events /\ KindOf(file[i]) = ev.k
  BY LinesAre, WholeKindAndTime
<1>3. ev.a \in Cards /\ ev.to = "Idle"
  BY <1>1, EventFields
<1>4. ev.a \in Texts /\ ev.to \in Texts
  BY <1>3, NamesAssumption DEF Texts
<1>5. HasKey("ast", "a") /\ HasKey("ast", "to")
  BY KindsHave DEF Kinds
<1>6. Find(file[i], "a") = EmitValue(ev.a)
  BY <1>5, WholeSays
<1>7. Find(file[i], "to") = EmitValue(ev.to)
  BY <1>5, WholeSays
<1>8. Find(file[i], "a") = ev.a /\ ev.a # Absent
  BY <1>4, <1>6, WrittenAsIs
<1>9. Find(file[i], "to") = ev.to /\ ev.to # Absent
  BY <1>4, <1>7, WrittenAsIs
<1> QED
  BY <1>1, <1>3, <1>8, <1>9 DEF Lines, AdapterOf, Or

LEMMA TornTransition ==
  ASSUME LogInv, NEW i \in DOMAIN file, i \notin Whole, Find(file[i], "to") # Absent
  PROVE  published[i].k = "ast" /\ AdapterOf(i) = published[i].a
<1> DEFINE ev == published[i]
           line == file[i]
<1>1. ev \in Events /\ ev.k \in Kinds
  BY TornIsCut
<1>2. PICK p \in 1..KeyCount(ev.k) : CutAt(line, ev, p)
  BY TornIsCut
<1>3. Find(line, "to") # Absent
  OBVIOUS
<1> HIDE DEF ev, line
<1>4. ev.k = "ast"
  <2>1. HasKey(ev.k, "to")
    BY <1>1, <1>2, <1>3, FindNotCut
  <2> QED
    BY <1>1, <2>1, KindsHave
<1>5. KeyCount(ev.k) = 4 /\ KeyOrder[ev.k][2] = "a" /\ KeyOrder[ev.k][3] = "to"
  BY <1>4, KeysOf DEF KeyCount
<1>6. p \in 1..4 /\ 2 \in 1..KeyCount(ev.k) /\ 3 \in 1..KeyCount(ev.k)
  BY <1>2, <1>5
<1>7. 3 > p => Find(line, "to") = Absent
  BY <1>1, <1>2, <1>5, <1>6, FindCut
<1>8. 2 < p
  BY <1>3, <1>6, <1>7
<1>9. Find(line, "a") = EmitValue(ev.a)
  BY <1>1, <1>2, <1>5, <1>6, <1>8, FindCut
<1>10. ev.a \in Texts
  <2>2. ev.a \in Cards
    BY <1>1, <1>4, EventFields
  <2> QED
    BY <2>2, NamesAssumption
<1>11. Find(line, "a") = ev.a /\ ev.a # Absent
  BY <1>9, <1>10, WrittenAsIs
<1> QED
  BY <1>4, <1>11 DEF AdapterOf, Or, ev, line

LEMMA WokenShown ==
  ASSUME LogInv
  PROVE  /\ {published[i].a : i \in {j \in Whole : published[j].k = "ast"}} \subseteq Woken
         /\ Woken \subseteq {published[i].a : i \in {j \in DOMAIN published : published[j].k = "ast"}}
<1>1. ASSUME NEW i \in Whole, published[i].k = "ast"
      PROVE  published[i].a \in Woken
  <2> DEFINE a == published[i].a
  <2>1. i \in Lines("ast") /\ AdapterOf(i) = a /\ Find(file[i], "to") = "Idle" /\ "Idle" # Absent
    BY <1>1, WholeTransition
  <2>2. i \in TransitionsOf(a) /\ StateRank(Or(Find(file[i], "to"), "Unknown")) = 2
    BY <2>1, RankOf DEF TransitionsOf, Or
  <2>3. 2 <= HighestRank(a)
    BY <2>2, HighestIs
  <2>4. HighestRank(a) \in Nat
    <3>1. HighestRank(a) = 0 \/ \E j \in TransitionsOf(a) : HighestRank(a) = StateRank(Or(Find(file[j], "to"), "Unknown"))
      BY HighestIs
    <3> QED
      BY <3>1, RankBounded
  <2> QED
    BY <2>1, <2>3, <2>4 DEF Woken
<1>2. ASSUME NEW a \in Woken
      PROVE  a \in {published[i].a : i \in {j \in DOMAIN published : published[j].k = "ast"}}
  <2>1. HighestRank(a) >= 2
    BY DEF Woken
  <2>2. HighestRank(a) = 0 \/ \E i \in TransitionsOf(a) : HighestRank(a) = StateRank(Or(Find(file[i], "to"), "Unknown"))
    BY HighestIs
  <2>3. PICK i \in TransitionsOf(a) : StateRank(Or(Find(file[i], "to"), "Unknown")) >= 2
    BY <2>1, <2>2
  <2>4. i \in DOMAIN file /\ KindOf(file[i]) = "ast" /\ AdapterOf(i) = a
    BY DEF TransitionsOf, Lines
  <2>5. Find(file[i], "to") # Absent
    BY <2>3, RankOf DEF Or
  <2>6. published[i].k = "ast" /\ published[i].a = a
    <3>1. CASE i \in Whole
      <4>1. published[i].k = "ast"
        BY <2>4, <3>1, WholeKindAndTime
      <4> QED
        BY <2>4, <3>1, <4>1, WholeTransition
    <3>2. CASE i \notin Whole
      BY <2>4, <2>5, <3>2, TornTransition
    <3> QED
      BY <3>1, <3>2
  <2>7. i \in DOMAIN published
    BY <2>4, LinesAre
  <2> QED
    BY <2>6, <2>7
<1> QED
  BY <1>1, <1>2

\* SummaryIsReal: an adapter is said to have advanced exactly by transitions
\* that were published, none that is whole is missed; a peak is the largest whole
\* sample, with a source that gave it, or what is left of a torn one.
THEOREM LogSummaryIsReal == Spec => []SummaryIsReal
<1>1. LogInv => SummaryIsReal
  BY WokenShown, PeakShown DEF SummaryIsReal
<1> QED
  BY <1>1, LogInvariant, PTL

-----------------------------------------------------------------------------
(***************************************************************************)
(* Audit records.                                                          *)
(***************************************************************************)
LEMMA WholeAudit ==
  ASSUME LogInv, NEW i \in Whole
  PROVE  /\ i \in Lines("car") <=> published[i].k = "car"
         /\ published[i].k = "car" =>
              /\ Or(Find(file[i], "name"), "") = published[i].name
              /\ Or(Find(file[i], "iw"), 0) = published[i].iw
              /\ Or(Find(file[i], "mods"), << >>) = published[i].mods
              /\ published[i].iw \in Nat
<1> DEFINE ev == published[i]
<1>1. i \in DOMAIN file /\ ev \in Events /\ KindOf(file[i]) = ev.k
  BY LinesAre, WholeKindAndTime
<1>2. CASE ev.k = "car"
  <2>1. ev.name \in Texts /\ ev.mods \in Seq(Texts) /\ ev.iw \in Nat
    BY <1>1, <1>2, EventFields
  <2>2. HasKey("car", "name") /\ HasKey("car", "iw") /\ HasKey("car", "mods")
    BY KindsHave DEF Kinds
  <2>3. Find(file[i], "name") = EmitValue(ev.name)
    BY <1>2, <2>2, WholeSays
  <2>4. Find(file[i], "iw") = EmitValue(ev.iw)
    BY <1>2, <2>2, WholeSays
  <2>5. Find(file[i], "mods") = EmitValue(ev.mods)
    BY <1>2, <2>2, WholeSays
  <2>6. Find(file[i], "name") = ev.name /\ ev.name # Absent
    BY <2>1, <2>3, WrittenAsIs
  <2>7. Find(file[i], "iw") = ev.iw /\ ev.iw # Absent
    BY <2>1, <2>4, WrittenAsIs
  <2>8. Find(file[i], "mods") = ev.mods /\ ev.mods # Absent
    BY <2>1, <2>5, WrittenAsIs
  <2> QED
    BY <1>1, <1>2, <2>1, <2>6, <2>7, <2>8 DEF Lines, Or
<1> QED
  BY <1>1, <1>2 DEF Lines

\* A torn audit record with init data has its collector's name, and its event
\* has init data.
LEMMA TornAudit ==
  ASSUME LogInv, NEW i \in DOMAIN file, i \notin Whole, KindOf(file[i]) = "car", IsInitRecord(i)
  PROVE  /\ published[i].k = "car" /\ Or(Find(file[i], "name"), "") = published[i].name
         /\ ~(published[i].iw = 0 /\ published[i].mods = << >>)
<1> DEFINE ev == published[i]
           line == file[i]
<1>1. ev \in Events /\ ev.k \in Kinds
  BY TornIsCut
<1>2. PICK p \in 1..KeyCount(ev.k) : CutAt(line, ev, p)
  BY TornIsCut
<1>3. Find(line, "iw") # Absent \/ Find(line, "mods") # Absent
  <2> SUFFICES ASSUME Find(line, "iw") = Absent, Find(line, "mods") = Absent
               PROVE  FALSE
    OBVIOUS
  <2>1. Or(Find(line, "iw"), 0) = 0 /\ Or(Find(line, "mods"), << >>) = << >>
    BY DEF Or
  <2> QED
    BY <2>1 DEF IsInitRecord
<1>4. Or(Find(line, "iw"), 0) > 0 \/ Or(Find(line, "mods"), << >>) # << >>
  BY DEF IsInitRecord
<1> HIDE DEF ev, line
<1>5. ev.k = "car"
  <2>1. HasKey(ev.k, "iw") \/ HasKey(ev.k, "mods")
    BY <1>1, <1>2, <1>3, FindNotCut
  <2> QED
    BY <1>1, <2>1, KindsHave
<1>6. /\ KeyCount(ev.k) = 6 /\ KeyOrder[ev.k][2] = "name" /\ KeyOrder[ev.k][3] = "mods"
      /\ KeyOrder[ev.k][4] = "iw"
  BY <1>5, KeysOf DEF KeyCount
<1>7. p \in 1..6 /\ 2 \in 1..KeyCount(ev.k) /\ 3 \in 1..KeyCount(ev.k) /\ 4 \in 1..KeyCount(ev.k)
  BY <1>2, <1>6
<1>8. 3 > p => Find(line, "mods") = Absent
  BY <1>1, <1>2, <1>6, <1>7, FindCut
<1>9. 4 > p => Find(line, "iw") = Absent
  BY <1>1, <1>2, <1>6, <1>7, FindCut
<1>10. p >= 3
  BY <1>3, <1>7, <1>8, <1>9
<1>11. ev.name \in Texts /\ ev.mods \in Seq(Texts) /\ ev.iw \in Nat
  BY <1>1, <1>5, EventFields
<1>12. Or(Find(line, "name"), "") = ev.name
  <2>1. 2 < p
    BY <1>7, <1>10
  <2>2. Find(line, "name") = EmitValue(ev.name)
    BY <1>1, <1>2, <1>6, <1>7, <2>1, FindCut
  <2> QED
    BY <1>11, <2>2, WrittenAsIs DEF Or
<1>13. ASSUME ev.iw = 0, ev.mods = << >>
       PROVE  FALSE
  <2>1. EmitValue(ev.mods) = << >>
    BY <1>11, <1>13, WrittenAsIs
  <2>2. EmitValue(ev.iw) = 0
    BY <1>11, <1>13, WrittenAsIs
  <2>3. Or(Find(line, "mods"), << >>) = << >>
    <3>1. 3 < p => Find(line, "mods") = EmitValue(ev.mods)
      BY <1>1, <1>2, <1>6, <1>7, FindCut
    <3>2. 3 = p => Find(line, "mods") = line[p].val
      BY <1>1, <1>2, <1>6, <1>7, FindCut
    <3>3. 3 = p => line[p].val = << >>
      <4>1. 3 = p => line[p].val = EmitValue(ev.mods) \/ line[p].val \in Halves("mods", EmitValue(ev.mods))
        BY <1>2, <1>6 DEF CutAt
      <4> QED
        BY <2>1, <4>1, HalvesAssumption
    <3>4. 3 < p \/ 3 = p
      BY <1>7, <1>10
    <3> QED
      BY <2>1, <3>1, <3>2, <3>3, <3>4 DEF Or
  <2>4. Or(Find(line, "iw"), 0) = 0
    <3>1. 4 < p => Find(line, "iw") = EmitValue(ev.iw)
      BY <1>1, <1>2, <1>6, <1>7, FindCut
    <3>2. 4 = p => Find(line, "iw") = line[p].val
      BY <1>1, <1>2, <1>6, <1>7, FindCut
    <3>3. 4 = p => line[p].val = 0
      <4>1. 4 = p => line[p].val = EmitValue(ev.iw) \/ line[p].val \in Halves("iw", EmitValue(ev.iw))
        BY <1>2, <1>6 DEF CutAt
      <4> QED
        BY <2>2, <4>1, HalvesAssumption
    <3>4. 4 < p \/ 4 = p \/ 4 > p
      BY <1>7
    <3> QED
      BY <1>9, <2>2, <3>1, <3>2, <3>3, <3>4 DEF Or
  <2> QED
    BY <1>4, <2>3, <2>4
<1> QED
  BY <1>5, <1>12, <1>13 DEF ev, line

\* The line the ledger keeps of a collector with an init record.
LEMMA LedgerLineIs ==
  ASSUME LogInv, NEW i \in InitRecords
  PROVE  LedgerLine(published[i].name) = i
<1> DEFINE c == published[i].name
           inits == {j \in AuditsOf(c) : IsInitRecord(j)}
<1>1. i \in Whole /\ published[i].k = "car" /\ published[i].iw > 0 /\ i \in DOMAIN file /\ i \in DOMAIN published
  BY LinesAre DEF InitRecords
<1>2. i \in inits
  <2>1. i \in Lines("car") /\ Or(Find(file[i], "name"), "") = c /\ Or(Find(file[i], "iw"), 0) = published[i].iw
    BY <1>1, WholeAudit
  <2> QED
    BY <1>1, <2>1 DEF AuditsOf, IsInitRecord
<1>3. ASSUME NEW j \in inits
      PROVE  j = i
  <2> SUFFICES ASSUME j # i
               PROVE  FALSE
    OBVIOUS
  <2>1. j \in DOMAIN file /\ j \in DOMAIN published /\ KindOf(file[j]) = "car" /\ IsInitRecord(j)
        /\ Or(Find(file[j], "name"), "") = c /\ j \in Lines("car")
    BY LinesAre DEF AuditsOf, Lines
  <2>2. CASE j \in Whole
    <3>1. published[j].k = "car"
      BY <2>1, <2>2, WholeAudit
    <3>2. /\ published[j].name = c /\ Or(Find(file[j], "iw"), 0) = published[j].iw
          /\ Or(Find(file[j], "mods"), << >>) = published[j].mods
      BY <2>1, <2>2, <3>1, WholeAudit
    <3>3. published[j].iw = 0 /\ published[j].mods = << >>
      BY <1>1, <2>1, <3>1, <3>2 DEF LogInv, InitsOnce
    <3>4. Or(Find(file[j], "iw"), 0) = 0 /\ Or(Find(file[j], "mods"), << >>) = << >>
      BY <3>2, <3>3
    <3>5. Or(Find(file[j], "iw"), 0) > 0 \/ Or(Find(file[j], "mods"), << >>) # << >>
      BY <2>1 DEF IsInitRecord
    <3> QED
      BY ONLY <3>4, <3>5
  <2>3. CASE j \notin Whole
    <3>1. published[j].k = "car" /\ published[j].name = c /\ ~(published[j].iw = 0 /\ published[j].mods = << >>)
      BY <2>1, <2>3, TornAudit
    <3>2. published[j].iw = 0 /\ published[j].mods = << >>
      BY <1>1, <2>1, <3>1 DEF LogInv, InitsOnce
    <3> QED
      BY <3>1, <3>2
  <2> QED
    BY <2>2, <2>3
<1>4. inits = {i}
  BY <1>2, <1>3
<1>5. i \in Nat
  BY <1>1, LinesAre
<1>6. Max({i}) = i
  <2>1. {i} \in SUBSET Nat /\ {i} # {} /\ \A s \in {i} : s <= i
    BY <1>5
  <2>2. Max({i}) \in {i}
    BY <1>5, <2>1, MaxExists
  <2> QED
    BY <2>2
<1>7. LedgerLine(c) = IF inits = {} THEN Min(AuditsOf(c)) ELSE Max(inits)
  BY DEF LedgerLine
<1> QED
  BY <1>4, <1>6, <1>7

\* A whole file: a collector without an init record costs nothing.
LEMMA LedgerOfNotes ==
  ASSUME LogInv, ~torn, NEW c \in LedgerNames, \A i \in InitRecords : published[i].name # c
  PROVE  Ledger(c).iw = 0
<1> DEFINE inits == {i \in AuditsOf(c) : IsInitRecord(i)}
           at == LedgerLine(c)
<1>1. Whole = DOMAIN file /\ DOMAIN file = 1..Len(file) /\ Len(file) \in Nat
  BY LinesAre
<1>2. AuditsOf(c) \in SUBSET Nat /\ AuditsOf(c) # {} /\ \A i \in AuditsOf(c) : i <= Len(file)
  <2>1. AuditsOf(c) \subseteq 1..Len(file)
    BY <1>1 DEF AuditsOf, Lines
  <2>2. PICK i \in Lines("car") : c = Or(Find(file[i], "name"), "")
    BY DEF LedgerNames
  <2>3. i \in AuditsOf(c)
    BY <2>2 DEF AuditsOf
  <2> QED
    BY <1>1, <2>1, <2>3
<1>3. at \in AuditsOf(c)
  <2>1. CASE inits = {}
    <3>1. at = Min(AuditsOf(c))
      BY <2>1 DEF LedgerLine
    <3> QED
      BY <1>2, <3>1, MinExists
  <2>2. CASE inits # {}
    <3>1. at = Max(inits)
      BY <2>2 DEF LedgerLine
    <3>2. inits \in SUBSET Nat /\ (\A i \in inits : i <= Len(file)) /\ inits \subseteq AuditsOf(c)
      BY <1>2
    <3> HIDE DEF inits, at
    <3> QED
      BY <1>1, <2>2, <3>1, <3>2, MaxExists
  <2> QED
    BY <2>1, <2>2
<1> HIDE DEF at
<1>4. at \in Whole /\ at \in Lines("car") /\ Or(Find(file[at], "name"), "") = c
  BY <1>1, <1>3 DEF AuditsOf, Lines
<1>5. published[at].k = "car"
  BY <1>4, WholeAudit
<1>6. published[at].name = c /\ Or(Find(file[at], "iw"), 0) = published[at].iw /\ published[at].iw \in Nat
  BY <1>4, <1>5, WholeAudit
<1>7. ~(published[at].iw > 0)
  BY <1>4, <1>5, <1>6 DEF InitRecords
<1>8. Ledger(c).iw = Or(Find(file[at], "iw"), 0)
  BY DEF Ledger, at
<1> QED
  BY <1>6, <1>7, <1>8

LEMMA LedgerOfInit ==
  ASSUME LogInv, NEW i \in InitRecords
  PROVE  /\ Ledger(published[i].name).iw = published[i].iw
         /\ Ledger(published[i].name).mods = published[i].mods
         /\ published[i].iw \in Nat
<1>1. LedgerLine(published[i].name) = i
  BY LedgerLineIs
<1>2. i \in Whole /\ published[i].k = "car"
  BY DEF InitRecords
<1>3. /\ Or(Find(file[i], "iw"), 0) = published[i].iw
      /\ Or(Find(file[i], "mods"), << >>) = published[i].mods /\ published[i].iw \in Nat
  BY <1>2, WholeAudit
<1> QED
  BY <1>1, <1>3 DEF Ledger

LEMMA TotalOfInits ==
  ASSUME LogInv, ~torn
  PROVE  InitTotal = SumFunction([i \in InitRecords |-> published[i].iw])
<1> DEFINE cost == [c \in LedgerNames |-> Ledger(c).iw]
           iw == [i \in InitRecords |-> published[i].iw]
           name == [i \in DOMAIN file |-> published[i].name]
           named == {name[i] : i \in InitRecords}
<1>1. /\ Whole = DOMAIN file /\ DOMAIN file = 1..Len(file) /\ Len(file) \in Nat
      /\ DOMAIN published = 1..Len(file)
  BY LinesAre
<1>2. IsFiniteSet(DOMAIN file)
  BY <1>1, FS_Interval
<1>3. InitRecords \subseteq DOMAIN file /\ Lines("car") \subseteq DOMAIN file
  BY <1>1 DEF InitRecords, Lines
<1>4. IsFiniteSet(InitRecords) /\ IsFiniteSet(Lines("car"))
  BY <1>2, <1>3, FS_Subset
<1>5. \A i \in InitRecords : name[i] = published[i].name /\ name[i] \in LedgerNames
  <2> TAKE i \in InitRecords
  <2>1. i \in Whole /\ published[i].k = "car" /\ i \in DOMAIN file
    BY <1>3 DEF InitRecords
  <2>2. i \in Lines("car") /\ Or(Find(file[i], "name"), "") = published[i].name
    BY <2>1, WholeAudit
  <2> QED
    BY <2>1, <2>2 DEF LedgerNames
<1>6. IsFiniteSet(LedgerNames)
  <2> DEFINE read == [i \in DOMAIN file |-> Or(Find(file[i], "name"), "")]
  <2>1. \A i \in Lines("car") : read[i] = Or(Find(file[i], "name"), "")
    BY <1>3
  <2>2. LedgerNames = {read[i] : i \in Lines("car")}
    BY <2>1 DEF LedgerNames
  <2> HIDE DEF read
  <2> QED
    BY <1>4, <2>2, FiniteImage
<1>7. \A i, j \in InitRecords : name[i] = name[j] => i = j
  <2> TAKE i, j \in InitRecords
  <2> SUFFICES ASSUME name[i] = name[j]
               PROVE  i = j
    OBVIOUS
  <2>1. published[i].name = published[j].name
    BY <1>5
  <2>2. LedgerLine(published[i].name) = i /\ LedgerLine(published[j].name) = j
    BY LedgerLineIs
  <2> QED
    BY <2>1, <2>2
<1>8. \A i \in InitRecords : iw[i] \in Nat /\ cost[name[i]] = iw[i]
  <2> TAKE i \in InitRecords
  <2>1. Ledger(published[i].name).iw = published[i].iw /\ published[i].iw \in Nat
    BY LedgerOfInit
  <2> QED
    BY <1>5, <2>1
<1>9. named \in SUBSET LedgerNames
  BY <1>5
<1>10. \A c \in LedgerNames \ named : cost[c] = 0
  <2> TAKE c \in LedgerNames \ named
  <2>1. \A i \in InitRecords : published[i].name # c
    BY <1>5
  <2>2. Ledger(c).iw = 0
    BY <2>1, LedgerOfNotes
  <2> QED
    BY <2>2
<1>11. \A c \in LedgerNames : cost[c] \in Nat
  <2> TAKE c \in LedgerNames
  <2>1. c \in named => cost[c] \in Nat
    BY <1>8
  <2> QED
    BY <1>10, <2>1
<1>12. InitTotal = SumFunctionOnSet(cost, LedgerNames)
  BY DEF InitTotal, SumFunction
<1>13. SumFunction(iw) = SumFunctionOnSet(iw, InitRecords)
  BY DEF SumFunction
<1> HIDE DEF cost, iw, name
<1>14. SumFunctionOnSet(cost, named) = SumFunctionOnSet(iw, InitRecords)
  BY <1>4, <1>7, <1>8, SumOfImage
<1> HIDE DEF named
<1>15. SumFunctionOnSet(cost, LedgerNames) = SumFunctionOnSet(cost, named)
  BY <1>6, <1>9, <1>10, <1>11, SumWithoutZeros
<1> QED
  BY <1>12, <1>13, <1>14, <1>15 DEF iw

\* LedgerShowsInit: what an init cost stays in the ledger whatever notes come
\* before and after it, and the total counts every init once.
THEOREM LogLedgerShowsInit == Spec => []LedgerShowsInit
<1>1. LogInv => LedgerShowsInit
  BY LedgerOfInit, TotalOfInits DEF LedgerShowsInit
<1> QED
  BY <1>1, LogInvariant, PTL

-----------------------------------------------------------------------------
(***************************************************************************)
(* InOrder: its recursion has one solution, by induction on the lines.     *)
(***************************************************************************)
Values(value) == {value[m] : m \in DOMAIN value}

After(before, m, value) == IF m \in DOMAIN value THEN Append(before, value[m]) ELSE before

IsInOrder(g, n, value) == g = [m \in 0..n |-> IF m = 0 THEN << >> ELSE After(g[m - 1], m, value)]

LEMMA InOrderExists ==
  ASSUME NEW n \in Nat, NEW value
  PROVE  \E g \in [0..n -> Seq(Values(value))] : IsInOrder(g, n, value)
<1> DEFINE S == Values(value)
           Good(m) == \E g \in [0..m -> Seq(S)] : IsInOrder(g, m, value)
           Bad == {m \in Nat : ~Good(m)}
<1>1. Good(0)
  <2> DEFINE g == [m \in 0..0 |-> << >>]
  <2>1. g \in [0..0 -> Seq(S)] /\ IsInOrder(g, 0, value)
    BY DEF IsInOrder
  <2> QED
    BY <2>1
<1>2. ASSUME NEW m \in Nat, Good(m)
      PROVE  Good(m + 1)
  <2> PICK g \in [0..m -> Seq(S)] : IsInOrder(g, m, value)
    BY <1>2
  <2> DEFINE h == [k \in 0..(m + 1) |-> IF k = 0 THEN << >> ELSE After(g[k - 1], k, value)]
  <2>1. \A k \in 0..m : k \in 0..(m + 1) /\ h[k] = g[k]
    BY DEF IsInOrder
  <2>2. \A k \in 0..(m + 1) : k # 0 => k - 1 \in 0..m
    OBVIOUS
  <2>3. \A k \in 0..(m + 1) : h[k] \in Seq(S)
    <3> TAKE k \in 0..(m + 1)
    <3>1. CASE k = 0
      BY <3>1
    <3>2. CASE k # 0
      <4>1. g[k - 1] \in Seq(S)
        BY <2>2, <3>2
      <4>2. k \in DOMAIN value => value[k] \in S
        BY DEF Values
      <4>3. After(g[k - 1], k, value) \in Seq(S)
        BY <4>1, <4>2 DEF After
      <4> QED
        BY <3>2, <4>3
    <3> QED
      BY <3>1, <3>2
  <2>4. h \in [0..(m + 1) -> Seq(S)]
    BY <2>3
  <2>5. IsInOrder(h, m + 1, value)
    BY <2>1, <2>2 DEF IsInOrder
  <2> QED
    BY <2>4, <2>5
<1>3. ASSUME NEW m \in Bad
      PROVE  \E k \in Bad : k < m
  <2> HIDE DEF Good
  <2>1. m \in Nat /\ m # 0
    BY <1>1
  <2>2. m - 1 \in Nat /\ (m - 1) + 1 = m /\ m - 1 < m
    BY <2>1
  <2>3. ~Good(m - 1)
    BY <1>2, <2>2
  <2> QED
    BY <2>2, <2>3
<1>4. Bad = {}
  <2>1. Bad \in SUBSET Nat
    OBVIOUS
  <2> HIDE DEF Bad
  <2> QED
    BY <1>3, <2>1, NoLeast
<1> QED
  BY <1>4

LEMMA InOrderUnique ==
  ASSUME NEW n \in Nat, NEW k \in 0..n, NEW value, NEW g, NEW h,
         IsInOrder(g, k, value), IsInOrder(h, n, value)
  PROVE  g[k] = h[k]
<1> DEFINE Bad == {m \in 0..k : g[m] # h[m]}
<1>1. \A m \in 0..k : m \in 0..n /\ m \in Nat
  OBVIOUS
<1>2. ASSUME NEW m \in Bad
      PROVE  \E j \in Bad : j < m
  <2>1. g[0] = << >> /\ h[0] = << >>
    BY DEF IsInOrder
  <2>2. m \in Nat /\ m # 0 /\ m \in 0..k /\ m \in 0..n
    BY <1>1, <2>1
  <2>3. m - 1 \in 0..k /\ m - 1 < m
    BY <2>2
  <2>4. g[m] = After(g[m - 1], m, value) /\ h[m] = After(h[m - 1], m, value)
    BY <2>2 DEF IsInOrder
  <2>5. g[m - 1] # h[m - 1]
    BY <2>4
  <2> QED
    BY <2>3, <2>5
<1>3. Bad = {}
  <2>1. Bad \in SUBSET Nat
    BY <1>1
  <2> HIDE DEF Bad
  <2> QED
    BY <1>2, <2>1, NoLeast
<1> QED
  BY <1>3

SolvesOrder(h, n, value) ==
  /\ h \in [0..n -> Seq(Values(value))] /\ IsInOrder(h, n, value)
  /\ \A k \in 0..n : InOrder(k, value) = h[k]

LEMMA InOrderSolved ==
  ASSUME NEW n \in Nat, NEW value
  PROVE  \E h : SolvesOrder(h, n, value)
<1> PICK h \in [0..n -> Seq(Values(value))] : IsInOrder(h, n, value)
  BY InOrderExists
<1>1. ASSUME NEW k \in 0..n
      PROVE  InOrder(k, value) = h[k]
  <2> DEFINE P(g) == g = [m \in 0..k |->
                            IF m = 0 THEN << >>
                            ELSE IF m \in DOMAIN value THEN Append(g[m - 1], value[m]) ELSE g[m - 1]]
             f == CHOOSE g : P(g)
  <2>1. InOrder(k, value) = f[k]
    BY DEF InOrder
  <2>2. k \in Nat
    OBVIOUS
  <2>3. PICK g \in [0..k -> Seq(Values(value))] : IsInOrder(g, k, value)
    BY <2>2, InOrderExists
  <2>4. P(g)
    BY <2>3 DEF IsInOrder, After
  <2>5. P(f)
    <3> HIDE DEF P
    <3> QED
      BY <2>4
  <2> HIDE DEF f
  <2>6. IsInOrder(f, k, value)
    BY <2>5 DEF IsInOrder, After
  <2>7. f[k] = h[k]
    BY <2>6, InOrderUnique
  <2> QED
    BY <2>1, <2>7
<1> QED
  BY <1>1 DEF SolvesOrder

\* One line more.
LEMMA InOrderNext ==
  ASSUME NEW n \in Nat, NEW value
  PROVE  /\ InOrder(0, value) = << >>
         /\ InOrder(n, value) \in Seq(Values(value))
         /\ InOrder(n + 1, value) = After(InOrder(n, value), n + 1, value)
<1>1. n + 1 \in Nat /\ 0 \in 0..(n + 1) /\ n \in 0..(n + 1) /\ n + 1 \in 0..(n + 1) /\ n + 1 # 0 /\ (n + 1) - 1 = n
  OBVIOUS
<1>2. PICK h : SolvesOrder(h, n + 1, value)
  BY <1>1, InOrderSolved
<1>3. h[0] = << >> /\ h[n + 1] = After(h[n], n + 1, value)
  BY <1>1, <1>2 DEF SolvesOrder, IsInOrder
<1>4. h[n] \in Seq(Values(value))
  BY <1>1, <1>2 DEF SolvesOrder
<1>5. InOrder(0, value) = h[0] /\ InOrder(n, value) = h[n] /\ InOrder(n + 1, value) = h[n + 1]
  BY <1>1, <1>2 DEF SolvesOrder
<1> QED
  BY <1>3, <1>4, <1>5

\* Where two agree on the first n lines, so does what they append.
LEMMA InOrderAgrees ==
  ASSUME NEW n \in Nat, NEW f, NEW g,
         \A i \in 1..n : (i \in DOMAIN f <=> i \in DOMAIN g) /\ (i \in DOMAIN f => f[i] = g[i])
  PROVE  InOrder(n, f) = InOrder(n, g)
<1> DEFINE Bad == {m \in 0..n : InOrder(m, f) # InOrder(m, g)}
<1>1. ASSUME NEW m \in Bad
      PROVE  \E k \in Bad : k < m
  <2>1. InOrder(0, f) = << >>
    BY InOrderNext
  <2>2. InOrder(0, g) = << >>
    BY InOrderNext
  <2>3. m \in 0..n /\ m # 0
    BY <2>1, <2>2
  <2> DEFINE k == m - 1
  <2>4. k \in Nat /\ k \in 0..n /\ k + 1 = m /\ k < m /\ m \in 1..n
    BY <2>3
  <2> HIDE DEF k
  <2>5. InOrder(m, f) = After(InOrder(k, f), m, f)
    BY <2>4, InOrderNext
  <2>6. InOrder(m, g) = After(InOrder(k, g), m, g)
    BY <2>4, InOrderNext
  <2>7. InOrder(k, f) # InOrder(k, g)
    BY <2>4, <2>5, <2>6 DEF After
  <2> QED
    BY <2>4, <2>7
<1>2. Bad = {}
  <2>1. Bad \in SUBSET Nat
    OBVIOUS
  <2> HIDE DEF Bad
  <2> QED
    BY <1>1, <2>1, NoLeast
<1>3. n \in 0..n
  OBVIOUS
<1> QED
  BY <1>2, <1>3

\* What is in the sequence is what the lines had.
LEMMA InOrderHas ==
  ASSUME NEW n \in Nat, NEW value, NEW x
  PROVE  (\E i \in DOMAIN InOrder(n, value) : InOrder(n, value)[i] = x)
           <=> \E m \in 1..n : m \in DOMAIN value /\ value[m] = x
<1> DEFINE Has(m) == \E i \in DOMAIN InOrder(m, value) : InOrder(m, value)[i] = x
           Had(m) == \E k \in 1..m : k \in DOMAIN value /\ value[k] = x
           Bad == {m \in 0..n : ~(Has(m) <=> Had(m))}
<1>1. ASSUME NEW m \in Bad
      PROVE  \E k \in Bad : k < m
  <2>1. InOrder(0, value) = << >>
    BY InOrderNext
  <2>2. ~Has(0) /\ ~Had(0)
    BY <2>1
  <2>3. m \in 0..n /\ m # 0
    BY <2>2
  <2> DEFINE k == m - 1
             old == InOrder(k, value)
  <2>4. k \in Nat /\ k \in 0..n /\ k + 1 = m /\ k < m /\ m \in 1..n
    BY <2>3
  <2>5. \A j \in 1..m : j = m \/ j \in 1..k
    BY <2>4
  <2>6. \A j \in 1..k : j \in 1..m
    BY <2>4
  <2> HIDE DEF k
  <2>7. InOrder(m, value) = After(old, m, value) /\ old \in Seq(Values(value))
    BY <2>4, InOrderNext
  <2>8. Has(k) <=> \E i \in DOMAIN old : old[i] = x
    OBVIOUS
  <2>9. Has(m) <=> Has(k) \/ (m \in DOMAIN value /\ value[m] = x)
    <3>1. CASE m \in DOMAIN value
      <4>1. InOrder(m, value) = Append(old, value[m]) /\ value[m] \in Values(value)
        BY <2>7, <3>1 DEF After, Values
      <4> DEFINE new == InOrder(m, value)
                 last == Len(old) + 1
      <4>2. /\ DOMAIN new = 1..last /\ new[last] = value[m] /\ last \in 1..last
            /\ DOMAIN old = 1..Len(old) /\ Len(old) \in Nat
            /\ \A i \in 1..Len(old) : new[i] = old[i] /\ i \in 1..last
        BY <2>7, <4>1
      <4>3. \A i \in 1..last : i = last \/ i \in 1..Len(old)
        BY <4>2
      <4>4. Has(m) <=> \E i \in 1..last : new[i] = x
        BY <4>2
      <4>5. Has(k) <=> \E i \in 1..Len(old) : old[i] = x
        BY <2>8, <4>2
      <4> HIDE DEF new, last, old, Has
      <4> QED
        BY <3>1, <4>2, <4>3, <4>4, <4>5
    <3>2. CASE m \notin DOMAIN value
      BY <2>7, <3>2 DEF After
    <3> QED
      BY <3>1, <3>2
  <2>10. Had(m) <=> Had(k) \/ (m \in DOMAIN value /\ value[m] = x)
    <3>1. m \in 1..m
      BY <2>4
    <3> QED
      BY <2>5, <2>6, <3>1
  <2> HIDE DEF Has, Had
  <2>11. ~(Has(k) <=> Had(k))
    BY <2>9, <2>10
  <2> QED
    BY <2>4, <2>11
<1>2. Bad = {}
  <2>1. Bad \in SUBSET Nat
    OBVIOUS
  <2> HIDE DEF Bad
  <2> QED
    BY <1>1, <2>1, NoLeast
<1>3. n \in 0..n
  OBVIOUS
<1> QED
  BY <1>2, <1>3

-----------------------------------------------------------------------------
(***************************************************************************)
(* Replay.                                                                 *)
(***************************************************************************)
LEMMA WholeDecodes ==
  ASSUME LogInv, NEW i \in Whole
  PROVE  /\ Parses(file[i])
         /\ Republished(file[i]) <=> IsCarried(published[i])
         /\ IsCarried(published[i]) => Decode(file[i]) = Carried(published[i])
<1> DEFINE ev == published[i]
           line == file[i]
<1>1. /\ i \in DOMAIN file /\ ev \in Events /\ KindOf(line) = ev.k /\ line = Encode(ev)
      /\ ev.k \in Kinds /\ ev.t \in Nat
  <2>1. i \in DOMAIN file /\ ev \in Events /\ KindOf(line) = ev.k
    BY LinesAre, WholeKindAndTime
  <2>2. ev.k \in Kinds /\ ev.t \in 0..MaxTime
    BY <2>1, EventFields
  <2>3. line = Encode(ev)
    BY DEF LogInv, TypeOK
  <2> QED
    BY <2>1, <2>2, <2>3
<1>2. line[1].closed
  <2>1. 1 \in DOMAIN KeyOrder[ev.k]
    BY <1>1, KeyPlaces, KeyPlace
  <2> QED
    BY <1>1, <2>1, EncodeShape
<1>3. Or(Number(line, "t"), 0) = ev.t
  BY WholeKindAndTime DEF TimeOf
<1>4. HasKey(ev.k, "a") => Find(line, "a") = ev.a /\ ev.a # Absent
  <2> SUFFICES ASSUME HasKey(ev.k, "a")
               PROVE  Find(line, "a") = ev.a /\ ev.a # Absent
    OBVIOUS
  <2>1. ev.k \in {"ms", "ai", "ast", "dr"}
    BY <1>1, KindsHave
  <2>2. ev.a \in Cards
    BY <1>1, <2>1, EventFields
  <2>3. ev.a \in Texts
    BY <2>2, NamesAssumption
  <2>4. Find(line, "a") = EmitValue(ev.a)
    BY WholeSays
  <2> QED
    BY <2>3, <2>4, WrittenAsIs
<1> HIDE DEF ev, line
<1>5. CASE ev.k = "ms"
  <2>1. HasKey("ms", "n") /\ HasKey("ms", "a") /\ HasKey("ms", "v")
    BY KindsHave DEF Kinds
  <2>2. Find(line, "n") = ev.n /\ ev.n # Absent
    <3>1. ev.n \in Texts
      BY <1>1, <1>5, SampleFields
    <3>2. Find(line, "n") = EmitValue(ev.n)
      BY <1>5, <2>1, WholeSays DEF ev, line
    <3> QED
      BY <3>1, <3>2, WrittenAsIs
  <2>3. Find(line, "v") = IF ev.v = NaN THEN Null ELSE ev.v
    <3>1. Find(line, "v") = EmitValue(ev.v)
      BY <1>5, <2>1, WholeSays DEF ev, line
    <3>2. EmitValue(ev.v) = IF ev.v = NaN THEN Null ELSE ev.v
      BY <1>1, <1>5, SampleFields
    <3> QED
      BY <3>1, <3>2
  <2>4. ev.v # NaN => ev.v # Null /\ ev.v # Absent
    <3>1. ev.v # NaN => ev.v \in Nat
      BY <1>1, <1>5, SampleFields
    <3> QED
      BY <3>1, WrittenAsIs
  <2>5. Or(Number(line, "v"), Missing) = IF ev.v = NaN THEN Missing ELSE ev.v
    BY <2>3, <2>4 DEF Number, Or
  <2>6. Parses(line)
    BY <1>1, <1>2, <1>4, <1>5, <2>1, <2>2 DEF Parses
  <2>7. Republished(line) /\ IsCarried(ev)
    BY <1>1, <1>5, <2>6 DEF Republished, IsCarried
  <2>8. Decode(line) = Carried(ev)
    BY <1>1, <1>3, <1>4, <1>5, <2>1, <2>2, <2>5 DEF Decode, DecodeMetric, Carried
  <2> QED
    BY <2>6, <2>7, <2>8 DEF ev, line
<1>6. CASE ev.k = "ast"
  <2>1. HasKey("ast", "a") /\ HasKey("ast", "to")
    BY KindsHave DEF Kinds
  <2>2. ev.to = "Idle"
    BY <1>1, <1>6, EventFields
  <2>3. Find(line, "to") = "Idle"
    <3>1. ev.to \in Texts
      BY <2>2 DEF Texts
    <3>2. Find(line, "to") = EmitValue(ev.to)
      BY <1>6, <2>1, WholeSays DEF ev, line
    <3> QED
      BY <2>2, <3>1, <3>2, WrittenAsIs
  <2>4. Parses(line)
    BY <1>1, <1>2, <1>4, <1>6, <2>1 DEF Parses
  <2>5. Republished(line) /\ IsCarried(ev)
    BY <1>1, <1>6, <2>4 DEF Republished, IsCarried
  <2>6. Decode(line) = Carried(ev)
    BY <1>1, <1>3, <1>4, <1>6, <2>1, <2>2, <2>3 DEF Decode, DecodeTransition, Carried, AdapterStates
  <2> QED
    BY <2>4, <2>5, <2>6 DEF ev, line
<1>7. CASE ev.k = "ai"
  <2>1. HasKey("ai", "a")
    BY KindsHave DEF Kinds
  <2>2. Parses(line)
    BY <1>1, <1>2, <1>4, <1>7, <2>1 DEF Parses
  <2>3. Republished(line) /\ IsCarried(ev)
    BY <1>1, <1>7, <2>2 DEF Republished, IsCarried
  <2>4. Decode(line) = Carried(ev)
    BY <1>1, <1>3, <1>4, <1>7, <2>1 DEF Decode, DecodeIdentity, Carried
  <2> QED
    BY <2>2, <2>3, <2>4 DEF ev, line
<1>8. CASE ev.k \in {"dr", "drf", "car"}
  BY <1>1, <1>2, <1>8 DEF Parses, Republished, IsCarried, ev, line
<1> QED
  BY <1>1, <1>5, <1>6, <1>7, <1>8 DEF Kinds

\* Replay puts on the bus what the whole lines carry, and then at most what the
\* torn one does.
Decoded == [i \in {j \in DOMAIN file : Republished(file[j])} |-> Decode(file[i])]
Published == [i \in {j \in Whole : IsCarried(published[j])} |-> Carried(published[i])]

LEMMA WholeReplayed ==
  ASSUME LogInv
  PROVE  InOrder(WholeLines, Decoded) = InOrder(WholeLines, Published)
<1>1. WholeLines \in Nat /\ Whole \subseteq DOMAIN file
  BY LinesAre
<1>2. ASSUME NEW i \in 1..WholeLines
      PROVE  (i \in DOMAIN Decoded <=> i \in DOMAIN Published) /\ (i \in DOMAIN Decoded => Decoded[i] = Published[i])
  <2>1. i \in Whole /\ i \in DOMAIN file
    BY <1>1 DEF Whole
  <2>2. Republished(file[i]) <=> IsCarried(published[i])
    BY <2>1, WholeDecodes
  <2>3. IsCarried(published[i]) => Decode(file[i]) = Carried(published[i])
    BY <2>1, WholeDecodes
  <2> QED
    BY <2>1, <2>2, <2>3 DEF Decoded, Published
<1> QED
  BY <1>1, <1>2, InOrderAgrees

LEMMA ReplayEvents ==
  ASSUME LogInv
  PROVE  LET events == InOrder(Len(file), Decoded)
             expected == InOrder(WholeLines, Published)
         IN  /\ Len(events) - Len(expected) \in IF torn THEN {0, 1} ELSE {0}
             /\ SubSeq(events, 1, Len(expected)) = expected
             /\ ~torn => events = expected
<1> DEFINE events == InOrder(Len(file), Decoded)
           expected == InOrder(WholeLines, Published)
           n == WholeLines
           S == Values(Decoded)
<1>1. /\ n \in Nat /\ Len(file) \in Nat
      /\ ~torn => n = Len(file)
      /\ torn => n = Len(file) - 1
  BY LinesAre
<1>2. expected = InOrder(n, Decoded)
  BY WholeReplayed
<1>3. expected \in Seq(S)
  BY <1>1, <1>2, InOrderNext
<1>4. SubSeq(expected, 1, Len(expected)) = expected /\ Len(expected) \in Nat
  BY <1>3
<1>5. CASE ~torn
  <2>1. events = expected
    BY <1>1, <1>2, <1>5
  <2> QED
    BY <1>4, <1>5, <2>1
<1>6. CASE torn
  <2>1. Len(file) = n + 1
    BY <1>1, <1>6
  <2>2. events = After(expected, n + 1, Decoded)
    BY <1>1, <1>2, <2>1, InOrderNext
  <2>3. CASE n + 1 \notin DOMAIN Decoded
    <3>1. events = expected
      BY <2>2, <2>3 DEF After
    <3> QED
      BY <1>4, <1>6, <3>1
  <2>4. CASE n + 1 \in DOMAIN Decoded
    <3> DEFINE x == Decoded[n + 1]
    <3>1. events = Append(expected, x) /\ x \in S
      BY <2>2, <2>4 DEF After, Values
    <3> HIDE DEF expected, events, x, S
    <3>2. Len(events) = Len(expected) + 1
      BY <1>3, <3>1
    <3>3. SubSeq(Append(expected, x), 1, Len(expected)) = expected
      BY <1>3, <3>1
    <3>4. SubSeq(events, 1, Len(expected)) = expected
      BY <3>1, <3>3
    <3>5. Len(events) - Len(expected) = 1
      BY <1>4, <3>2
    <3> QED
      BY <1>6, <3>4, <3>5 DEF events, expected
  <2> QED
    BY <2>3, <2>4
<1> QED
  BY <1>5, <1>6

LEMMA ReplayedKinds ==
  ASSUME LogInv, ~torn, NEW kind \in {"ms", "ast", "ai"}
  PROVE  (\E i \in DOMAIN Replay.events : Replay.events[i].k = kind)
           <=> kind \in {published[i].k : i \in Whole}
<1> DEFINE events == Replay.events
<1>1. events = InOrder(WholeLines, Published) /\ WholeLines \in Nat
  BY ReplayEvents, LinesAre DEF Replay, Decoded
<1>2. \A i \in DOMAIN Published : i \in Whole /\ Published[i] = Carried(published[i])
                                /\ Published[i].k = published[i].k /\ IsCarried(published[i])
  BY DEF Published, Carried, IsCarried
<1> HIDE DEF events
<1>3. ASSUME NEW i \in DOMAIN events, events[i].k = kind
      PROVE  kind \in {published[j].k : j \in Whole}
  <2> DEFINE x == events[i]
  <2>1. \E j \in DOMAIN InOrder(WholeLines, Published) : InOrder(WholeLines, Published)[j] = x
    BY <1>1
  <2> HIDE DEF x
  <2>3. (\E j \in DOMAIN InOrder(WholeLines, Published) : InOrder(WholeLines, Published)[j] = x)
           <=> \E m \in 1..WholeLines : m \in DOMAIN Published /\ Published[m] = x
    BY <1>1, InOrderHas
  <2>2. \E m \in 1..WholeLines : m \in DOMAIN Published /\ Published[m] = x
    BY <2>1, <2>3
  <2> PICK m \in 1..WholeLines : m \in DOMAIN Published /\ Published[m] = x
    BY <2>2
  <2> QED
    BY <1>2, <1>3 DEF x
<1>4. ASSUME NEW m \in Whole, published[m].k = kind
      PROVE  \E i \in DOMAIN events : events[i].k = kind
  <2> DEFINE x == Published[m]
  <2>1. m \in 1..WholeLines /\ m \in DOMAIN Published /\ x.k = kind
    <3>1. m \in DOMAIN Published
      BY <1>4 DEF Published, IsCarried
    <3> QED
      BY <1>2, <1>4, <3>1 DEF Whole
  <2> HIDE DEF x
  <2>2. \E j \in 1..WholeLines : j \in DOMAIN Published /\ Published[j] = x
    BY <2>1 DEF x
  <2>3. \E j \in DOMAIN InOrder(WholeLines, Published) : InOrder(WholeLines, Published)[j] = x
    BY <1>1, <2>2, InOrderHas
  <2> QED
    BY <1>1, <2>1, <2>3
<1> QED
  BY <1>3, <1>4 DEF events

LEMMA ReplayShown == ASSUME LogInv PROVE ReplayFaithful
<1>1. Replay.events = InOrder(Len(file), Decoded) /\ Replay.total = Len(file)
      /\ Replay.failed = Cardinality({i \in DOMAIN file : ~Parses(file[i])})
  BY DEF Replay, Decoded
<1>2. ASSUME ~torn
      PROVE  Replay.total = Len(published) /\ Replay.failed = 0
  <2>1. Whole = DOMAIN file /\ Len(published) = Len(file)
    BY <1>2, LinesAre
  <2>2. {i \in DOMAIN file : ~Parses(file[i])} = {}
    BY <2>1, WholeDecodes
  <2>3. Cardinality({i \in DOMAIN file : ~Parses(file[i])}) = 0
    BY <2>2, FS_EmptySet
  <2> QED
    BY <1>1, <2>1, <2>3
<1>3. ASSUME ~torn
      PROVE  DryRunAccepted <=> {"ms", "ast", "ai"} \subseteq {published[i].k : i \in Whole}
  <2>1. \A kind \in {"ms", "ast", "ai"} :
          (\E i \in DOMAIN Replay.events : Replay.events[i].k = kind)
            <=> kind \in {published[i].k : i \in Whole}
    BY <1>3, ReplayedKinds
  <2>2. DryRunAccepted <=> \A kind \in {"ms", "ast", "ai"} :
                             \E i \in DOMAIN Replay.events : Replay.events[i].k = kind
    BY <1>2, <1>3 DEF DryRunAccepted
  <2> QED
    BY <2>1, <2>2
<1>4. InOrder(WholeLines, Published) =
        LET carried == [i \in {j \in Whole : IsCarried(published[j])} |-> Carried(published[i])]
        IN  InOrder(WholeLines, carried)
  BY DEF Published
<1> QED
  BY <1>1, <1>2, <1>3, <1>4, ReplayEvents DEF ReplayFaithful, Published

\* ReplayFaithful: the bus gets what the whole lines carry, in their order, and
\* at most one event more; a whole file has no failed line, and a dry run is
\* accepted exactly when a sample, a transition and an identity were published.
THEOREM LogReplayFaithful == Spec => []ReplayFaithful
<1>1. LogInv => ReplayFaithful
  BY ReplayShown
<1> QED
  BY <1>1, LogInvariant, PTL

==============================================================================
