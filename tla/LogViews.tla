------------------------------- MODULE LogViews -------------------------------
(***************************************************************************)
(* What the readers of events.jsonl make of it: replay_reader and the      *)
(* tools summarize, adapters, disagreements and self.  The writer encodes  *)
(* every event as one line, but its 64 KiB buffer goes to the disk at any  *)
(* byte, so the file of a killed run, or of one still running, ends inside *)
(* a line.  No reader checks that a line is whole: each looks for the keys *)
(* it wants, takes half a number for a number and half a name for a name.  *)
(*                                                                         *)
(* An event is a record whose fields are the line's keys; a line is the    *)
(* sequence of its key/value pairs, reduced to the keys the readers use.   *)
(***************************************************************************)
EXTENDS Integers, Sequences, FiniteSets, FiniteSetsExt, Functions

CONSTANTS
  Cards,            \* adapter ids
  Counters, Gauges, \* IGCL activity counters (ns); the other metrics
  Sources,          \* sources of a gauge
  CounterValues, GaugeValues,  \* numbers a sample may carry
  NaN, Missing,     \* a double NaN; the value of a replayed sample without a number
  HeaderMetrics,    \* what the driver fingerprint samples before the first poll
  Rules,            \* rules that report
  Header,           \* set of the possible headers: sequences of events
  Boot,             \* time of the first tick, in quarters of a second
  MaxTime,          \* bound on the time
  MaxBody,          \* bound on the events after the header
  Halves(_, _),     \* what is left of a key's value when its line is cut inside it
  Null, Absent      \* the JSON null; the result of looking for a missing key

\* A cut inside a timestamp, an integer, leaves it whole or less of it, and then
\* older than the first tick: the machine has been up for longer than a ninth of
\* the run's length.
ASSUME TimeAssumption ==
  /\ Boot \in Nat \ {0} /\ MaxTime \in Nat /\ Boot <= MaxTime
  /\ \A t \in 0..MaxTime : \A h \in Halves("t", t) : h \in 0..t /\ (h = t \/ h < Boot)

\* What a cut leaves of a value may be larger than it: a double is printed in
\* its shortest form, and 4.9e-05 without its exponent is 4.9.
ASSUME NumberAssumption ==
  \A v \in CounterValues \cup GaugeValues : v \in Nat /\ Halves("v", v) \subseteq Nat
ASSUME BodyAssumption == MaxBody \in Nat

VARIABLES
  todo,       \* what is left of the header
  file,       \* the lines std::getline yields
  torn,       \* the last of them is cut
  published,  \* history variable: the event of each line
  now,        \* time stamp of the tick
  clock       \* the latest time the run has reached

vars == <<todo, file, torn, published, now, clock>>

-----------------------------------------------------------------------------
(***************************************************************************)
(* Lines.                                                                  *)
(***************************************************************************)
KeyOrder ==
  [ms  |-> <<"k", "n", "a", "v", "s", "t">>,
   ai  |-> <<"k", "a", "t">>,
   ast |-> <<"k", "a", "to", "t">>,
   dr  |-> <<"k", "rule", "a", "t">>,
   seb |-> <<"k", "prev", "new", "cause", "t">>,
   drf |-> <<"k", "win", "t">>,
   car |-> <<"k", "name", "mods", "iw", "note", "t">>]

\* The texts of a line: any, among them the kinds and the names used below.
Texts == STRING \cup DOMAIN KeyOrder \cup {"IGCL", "Idle"}

\* Names are texts; what stands for no number or no value is none.
ASSUME NamesAssumption ==
  /\ Cards \cup Counters \cup Gauges \cup Sources \cup HeaderMetrics \cup Rules \subseteq Texts
  /\ HeaderMetrics \cap (Counters \cup Gauges) = {}
  /\ \A x \in {NaN, Missing, Null, Absent} : x \notin Texts \cup Nat \cup Seq(Texts)
  /\ Null # Absent

\* Half a kind is another kind only where "drf" is cut, half of nothing is nothing.
ASSUME HalvesAssumption ==
  /\ \A kind \in DOMAIN KeyOrder : \A h \in Halves("k", kind) \cap DOMAIN KeyOrder :
       h = kind \/ (h = "dr" /\ kind = "drf")
  /\ Halves("iw", 0) \subseteq {0} /\ Halves("mods", << >>) \subseteq {<< >>}

\* What is published before the first poll: identities, the fingerprint with the
\* samples it is made of, the transitions and reports that those set off, and the
\* audit records of the inits with the notes that inits publish themselves.
HeaderEvents ==
  [k : {"ai"}, a : Cards, t : 0..(Boot - 1)]
    \cup [k : {"ms"}, n : HeaderMetrics, a : Cards, v : Nat, s : Texts, t : 0..(Boot - 1)]
    \cup [k : {"ast"}, a : Cards, to : {"Idle"}, t : 0..(Boot - 1)]
    \cup [k : {"dr"}, rule : Rules, a : Cards, t : 1..(Boot - 1)]
    \cup [k : {"drf"}, win : Texts, t : 0..(Boot - 1)]
    \cup [k : {"car"}, name : Texts, mods : Seq(Texts), iw : Nat, note : Texts, t : 0..(Boot - 1)]

\* A collector has one init; its notes have no init data.
ASSUME HeaderAssumption ==
  \A h \in Header :
    /\ h \in Seq(HeaderEvents)
    /\ \A i, j \in DOMAIN h :
         i # j /\ h[i].k = "car" /\ h[j].k = "car" /\ h[i].name = h[j].name /\ h[i].iw > 0
           => h[j].iw = 0 /\ h[j].mods = << >>

\* emit_value: a NaN becomes null (so does ValueMissing), a number stays.
EmitValue(v) == IF v = NaN THEN Null ELSE v

Field(key, val, closed) == [key |-> key, val |-> val, closed |-> closed]

\* The compact::encode_* functions.
Encode(ev) ==
  LET keys == KeyOrder[ev.k]
  IN  [i \in DOMAIN keys |-> Field(keys[i], EmitValue(ev[keys[i]]), TRUE)]

\* The ends a line may have in the file: between two fields, inside one, or
\* before the quote or brace that closes it.
Cuts(line) ==
  {SubSeq(line, 1, i) : i \in 1..(Len(line) - 1)} \cup
  UNION {{Append(SubSeq(line, 1, i - 1), Field(line[i].key, h, FALSE)) :
            h \in IF line[i].val = Null THEN {Null} ELSE Halves(line[i].key, line[i].val)} :
           i \in DOMAIN line}

\* The lines that are whole.
WholeLines == Len(file) - IF torn THEN 1 ELSE 0
Whole == 1..WholeLines

Find(line, key) ==
  IF \E i \in DOMAIN line : line[i].key = key
    THEN line[CHOOSE i \in DOMAIN line : line[i].key = key].val
    ELSE Absent

Or(val, default) == IF val = Absent THEN default ELSE val

\* find_double and find_int: neither null nor a missing key is a number.
Number(line, key) == IF Find(line, key) = Null THEN Absent ELSE Find(line, key)

KindOf(line) == Find(line, "k")
Lines(kind) == {i \in DOMAIN file : KindOf(file[i]) = kind}
TimeOf(i) == Or(Number(file[i], "t"), 0)

-----------------------------------------------------------------------------
(***************************************************************************)
(* replay_reader.  It wants the closing quote of the kind, and does not    *)
(* restore source, domain, unit or confidence.                             *)
(***************************************************************************)
\* Mutant of Parses: a sample without a number is a line that failed.
ParsesNumbersOnly(line) ==
  /\ line[1].closed
  /\ CASE KindOf(line) = "ms" -> /\ Find(line, "n") # Absent /\ Find(line, "a") # Absent
                                 /\ Number(line, "v") # Absent
       [] KindOf(line) \in {"ast", "ai"} -> Find(line, "a") # Absent
       [] OTHER -> KindOf(line) \in {"dr", "seb", "drf", "car"}

Parses(line) ==
  /\ line[1].closed
  /\ CASE KindOf(line) = "ms" -> Find(line, "n") # Absent /\ Find(line, "a") # Absent
       [] KindOf(line) \in {"ast", "ai"} -> Find(line, "a") # Absent
       [] OTHER -> KindOf(line) \in {"dr", "seb", "drf", "car"}

\* parse_metric, parse_adapter_state, parse_state_transition, parse_identity.
DecodeMetric(line) ==
  [k |-> "ms", n |-> Find(line, "n"), a |-> Find(line, "a"),
   v |-> Or(Number(line, "v"), Missing), t |-> Or(Number(line, "t"), 0)]

AdapterStates == {"Unknown", "Idle", "Awake", "ActiveCompute", "SuspectedComputeHidden",
                  "PostTDR", "Lost", "Reenumerating"}

DecodeTransition(line) ==
  [k |-> "ast", a |-> Find(line, "a"),
   to |-> IF Find(line, "to") \in AdapterStates THEN Find(line, "to") ELSE "Unknown",
   t |-> Or(Number(line, "t"), 0)]

DecodeIdentity(line) == [k |-> "ai", a |-> Find(line, "a"), t |-> Or(Number(line, "t"), 0)]

Decode(line) ==
  CASE KindOf(line) = "ms" -> DecodeMetric(line)
    [] KindOf(line) = "ast" -> DecodeTransition(line)
    [] OTHER -> DecodeIdentity(line)

Republished(line) == Parses(line) /\ KindOf(line) \in {"ms", "ast", "ai"}

\* One pass over n lines that appends what value has for a line, if anything.
InOrder(n, value) ==
  LET upTo[m \in 0..n] ==
        IF m = 0 THEN << >>
        ELSE IF m \in DOMAIN value THEN Append(upTo[m - 1], value[m]) ELSE upTo[m - 1]
  IN  upTo[n]

\* replay_jsonl: the events it puts on the bus, in order, and its statistics.
Replay ==
  LET decoded == [i \in {j \in DOMAIN file : Republished(file[j])} |-> Decode(file[i])]
  IN  [events |-> InOrder(Len(file), decoded),
       total  |-> Len(file),
       failed |-> Cardinality({i \in DOMAIN file : ~Parses(file[i])})]

\* run_dry's acceptance of the log it has just written.
DryRunAccepted ==
  /\ \A kind \in {"ms", "ast", "ai"} :
       \E i \in DOMAIN Replay.events : Replay.events[i].k = kind
  /\ Replay.failed = 0

-----------------------------------------------------------------------------
(***************************************************************************)
(* summarize and adapters: the samples of a metric, the peak, the state.   *)
(***************************************************************************)
\* is_track_metric, is_peak_metric_name
Tracked == Counters \cup Gauges

SamplesOf(a, n) ==
  {i \in Lines("ms") : /\ Find(file[i], "a") = a /\ Find(file[i], "n") = n /\ n \in Tracked
                       /\ Number(file[i], "v") # Absent}

ValueOf(i) == Find(file[i], "v")

\* Mutant of Peak: the latest value, not the largest.
PeakLatest(a, n) ==
  LET at == Max(SamplesOf(a, n))
  IN  [value |-> ValueOf(at), source |-> Or(Find(file[at], "s"), "")]

\* update_peak: the largest value, and the first source that gave it.
Peak(a, n) ==
  LET samples == SamplesOf(a, n)
      top == Max({ValueOf(i) : i \in samples})
      at == Min({i \in samples : ValueOf(i) = top})
  IN  [value |-> top, source |-> Or(Find(file[at], "s"), "")]

StateRank(s) ==
  CASE s = "Idle" -> 2 [] s \in {"Awake", "SuspectedComputeHidden"} -> 3
    [] s = "ActiveCompute" -> 4 [] s \in {"Reenumerating", "PostTDR"} -> 1 [] OTHER -> 0

AdapterOf(i) == Or(Find(file[i], "a"), "")
TransitionsOf(a) == {i \in Lines("ast") : AdapterOf(i) = a}

\* The highest state an adapter's transitions reached.
HighestRank(a) ==
  Max({0} \cup {StateRank(Or(Find(file[i], "to"), "Unknown")) : i \in TransitionsOf(a)})

\* The adapters said to have advanced past Unknown.
Woken == {a \in {AdapterOf(i) : i \in Lines("ast")} : HighestRank(a) >= 2}

-----------------------------------------------------------------------------
(***************************************************************************)
(* adapters: the activity rate from the first and the last sample.         *)
(***************************************************************************)
\* SeriesAcc of a metric that has samples.
Series(a, n) ==
  LET first == Min(SamplesOf(a, n))
      last == Max(SamplesOf(a, n))
  IN  [n |-> Cardinality(SamplesOf(a, n)), first |-> ValueOf(first), last |-> ValueOf(last),
       firstTime |-> TimeOf(first), lastTime |-> TimeOf(last)]

\* Mutant of RateKnown: the time between the samples is an unsigned difference.
RateKnownUnsigned(a, n) ==
  /\ SamplesOf(a, n) # {} /\ Series(a, n).n >= 2
  /\ (Series(a, n).lastTime - Series(a, n).firstTime) % 100 >= 2

\* At least two samples, half a second apart.
RateKnown(a, n) ==
  /\ SamplesOf(a, n) # {} /\ Series(a, n).n >= 2
  /\ Series(a, n).lastTime - Series(a, n).firstTime >= 2

\* "counter regressed", or "counter advances faster than wall clock".
Unusable(a, n) ==
  /\ RateKnown(a, n)
  /\ LET s == Series(a, n)
         delta == s.last - s.first
     IN  delta < 0 \/ delta > s.lastTime - s.firstTime

-----------------------------------------------------------------------------
(***************************************************************************)
(* disagreements: reports by rule and adapter.                             *)
(***************************************************************************)
GroupOf(i) == [rule |-> Or(Find(file[i], "rule"), "?"), a |-> Or(Find(file[i], "a"), "?")]
Group(g) == {i \in Lines("dr") : GroupOf(i) = g}
Groups == {GroupOf(i) : i \in Lines("dr")}

\* Mutant of Span: from the first report to the last one, in file order.
SpanByPosition(g) ==
  LET d == TimeOf(Min(Group(g))) - TimeOf(Max(Group(g))) IN IF d < 0 THEN -d ELSE d

\* Latest minus first; a report that is not later than the first adds nothing.
Span(g) ==
  LET group == Group(g)
      first == TimeOf(Min(group))
      last == Max({TimeOf(i) : i \in group})
  IN  IF first > 0 /\ last > first THEN last - first ELSE 0

-----------------------------------------------------------------------------
(***************************************************************************)
(* self: the cost ledger and the length of the run.                        *)
(***************************************************************************)
AuditsOf(c) == {i \in Lines("car") : Or(Find(file[i], "name"), "") = c}

\* The audit record of an init has a wall time or modules, a note has neither.
IsInitRecord(i) ==
  Or(Find(file[i], "iw"), 0) > 0 \/ Or(Find(file[i], "mods"), << >>) # << >>

\* Mutant of LedgerLine: the latest record of a collector replaces the others.
LedgerLineLatest(c) == Max(AuditsOf(c))

\* The first record of a collector stays until one with init data replaces it.
LedgerLine(c) ==
  LET inits == {i \in AuditsOf(c) : IsInitRecord(i)}
  IN  IF inits = {} THEN Min(AuditsOf(c)) ELSE Max(inits)

Ledger(c) ==
  LET line == file[LedgerLine(c)]
  IN  [mods |-> Or(Find(line, "mods"), << >>), iw |-> Or(Find(line, "iw"), 0),
       note |-> Or(Find(line, "note"), "")]

LedgerNames == {Or(Find(file[i], "name"), "") : i \in Lines("car")}

\* "init wall time total"
InitTotal == SumFunction([c \in LedgerNames |-> Ledger(c).iw])

Times == {TimeOf(i) : i \in {j \in DOMAIN file : KindOf(file[j]) # Absent}} \ {0}

\* Mutant of Duration: the end is the last line's time stamp.
DurationLastLine ==
  LET last == TimeOf(Len(file)) IN IF Times # {} /\ last > Min(Times) THEN last - Min(Times) ELSE 0

\* Smallest to largest time stamp of any line.
Duration == LET times == Times IN IF times = {} THEN 0 ELSE Max(times) - Min(times)

-----------------------------------------------------------------------------
(***************************************************************************)
(* The writer.                                                             *)
(***************************************************************************)
Init ==
  /\ todo \in Header
  /\ file = << >> /\ torn = FALSE /\ published = << >> /\ now = Boot /\ clock = Boot

Sample(n, a, v, s) == [k |-> "ms", n |-> n, a |-> a, v |-> v, s |-> s, t |-> now]

\* A collector samples a metric once in a tick.
Samples ==
  {ev \in {Sample(n, a, v, "IGCL") : n \in Counters, a \in Cards, v \in CounterValues}
          \cup {Sample(n, a, v, s) : n \in Gauges, a \in Cards, s \in Sources,
                                     v \in GaugeValues \cup {NaN}} :
     \A i \in DOMAIN published : published[i].k = "ms" /\ published[i].t = now =>
       published[i].n # ev.n \/ published[i].s # ev.s \/ published[i].a # ev.a}

Reports == {[k |-> "dr", rule |-> r, a |-> a, t |-> now] : r \in Rules, a \in Cards}

\* The record of a collector the watchdog has disabled: a note and no init data.
IsRetirement(ev) == ev.k = "car" /\ ev.note = "disabled"

\* It is stamped with the end of the poll, later than what the tick's other
\* collectors publish after it.
Retirements ==
  {[k |-> "car", name |-> c, mods |-> << >>, iw |-> 0, note |-> "disabled", t |-> t] :
     c \in {published[i].name : i \in {j \in DOMAIN published : published[j].k = "car"}},
     t \in clock..MaxTime}

\* Mutant of NextEvents: collectors are polled while others are still to be
\* initialised.
NextEventsEarly ==
  (IF todo # << >> THEN {Head(todo)} ELSE Reports) \cup Samples

\* The events that may come next: the header in its order, then what ticks bring.
\* No transition is among them: an adapter's first evidence is its header sample.
NextEvents ==
  IF todo # << >> THEN {Head(todo)}
  ELSE Samples \cup Reports
       \cup {ev \in Retirements : \A i \in DOMAIN published :
               IsRetirement(published[i]) => published[i].name # ev.name}

Body == Cardinality({i \in DOMAIN published : published[i].t >= Boot})

\* An event is published and its line, or what is left of it, is in the file.
Write(ev, line) ==
  /\ published' = Append(published, ev) /\ file' = Append(file, line)
  /\ clock' = IF ev.t > clock THEN ev.t ELSE clock

\* The writer's on_* handlers: one event, one line.
WriteLine ==
  /\ ~torn /\ Body < MaxBody
  /\ \E ev \in NextEvents : Write(ev, Encode(ev))
  /\ todo' = IF todo = << >> THEN << >> ELSE Tail(todo)
  /\ UNCHANGED <<torn, now>>

\* The next tick starts after every poll of this one has ended.
Tick ==
  /\ ~torn /\ todo = << >>
  /\ \E t \in clock..MaxTime : t > now /\ now' = t /\ clock' = t
  /\ UNCHANGED <<todo, file, torn, published>>

\* The file ends inside a line: the process is killed, or the reader is early.
Tear ==
  /\ ~torn /\ Body < MaxBody
  /\ \E ev \in NextEvents : \E line \in Cuts(Encode(ev)) : Write(ev, line)
  /\ torn' = TRUE
  /\ UNCHANGED <<todo, now>>

Next == WriteLine \/ Tick \/ Tear

Spec == Init /\ [][Next]_vars
-----------------------------------------------------------------------------
TypeOK ==
  /\ todo = << >> \/ torn \/ published \o todo \in Header
  /\ Len(file) = Len(published)
  /\ \A i \in Whole : file[i] = Encode(published[i]) /\ published[i].t \in 0..clock
  /\ torn => file[Len(file)] \in Cuts(Encode(published[Len(file)]))
  /\ torn \in BOOLEAN /\ now \in Boot..MaxTime /\ clock \in now..MaxTime

(***************************************************************************)
(* Replay: a whole file gives back every sample, transition and identity,  *)
(* in order and with its time, and counts no failed line; a cut file gives *)
(* all that and at most one event more.  A dry run is accepted exactly     *)
(* when it published one of each.                                          *)
(***************************************************************************)
Carried(ev) ==
  CASE ev.k = "ms" -> [k |-> "ms", n |-> ev.n, a |-> ev.a, t |-> ev.t,
                       v |-> IF ev.v = NaN THEN Missing ELSE ev.v]
    [] ev.k = "ast" -> [k |-> "ast", a |-> ev.a, to |-> ev.to, t |-> ev.t]
    [] OTHER -> [k |-> "ai", a |-> ev.a, t |-> ev.t]

IsCarried(ev) == ev.k \in {"ms", "ast", "ai"}

ReplayFaithful ==
  LET replay == Replay
      events == replay.events
      carried == [i \in {j \in Whole : IsCarried(published[j])} |-> Carried(published[i])]
      expected == InOrder(WholeLines, carried)
  IN  /\ Len(events) - Len(expected) \in IF torn THEN {0, 1} ELSE {0}
      /\ SubSeq(events, 1, Len(expected)) = expected
      /\ ~torn => /\ replay.total = Len(published) /\ replay.failed = 0
                  /\ DryRunAccepted <=>
                       {"ms", "ast", "ai"} \subseteq {published[i].k : i \in Whole}

(***************************************************************************)
(* disagreements: every rule and adapter that reported has a group with    *)
(* the number of its reports and the time they span.  A cut line adds at   *)
(* most one to one group, and never more time than had passed.             *)
(***************************************************************************)
ReportsOf(r, a) ==
  {i \in Whole : published[i].k = "dr" /\ published[i].rule = r /\ published[i].a = a}

GroupsAreReal ==
  /\ \A r \in Rules, a \in Cards :
       LET is == ReportsOf(r, a)
           g == [rule |-> r, a |-> a]
           ts == {published[i].t : i \in Group(g)}
           span == Span(g)
       IN  is # {} =>
             /\ Cardinality(Group(g)) - Cardinality(is) \in IF torn THEN {0, 1} ELSE {0}
             /\ published[Max(is)].t - published[Min(is)].t <= span
             /\ span <= Max(ts) - Min(ts)
  /\ Cardinality(Groups \ {g \in [rule : Rules, a : Cards] : ReportsOf(g.rule, g.a) # {}})
       <= IF torn THEN 1 ELSE 0

(***************************************************************************)
(* adapters: a counter is called unusable only if two of its published     *)
(* samples show it, however the file ends.                                 *)
(***************************************************************************)
SamplesPublished(a, n) ==
  {i \in DOMAIN published : LET ev == published[i] IN ev.k = "ms" /\ ev.a = a /\ ev.n = n}

UnusableIsReal ==
  \A a \in Cards, n \in Counters : Unusable(a, n) =>
    \E i, j \in SamplesPublished(a, n) :
      LET d == published[j].v - published[i].v
      IN  i < j /\ (d < 0 \/ d > published[j].t - published[i].t)

(***************************************************************************)
(* summarize: an adapter advanced past Unknown only by a transition that   *)
(* was published, and no such transition is missed; a peak is the largest  *)
(* whole sample, with a source that gave it, unless what a cut left of a   *)
(* sample of that metric is larger.                                        *)
(***************************************************************************)
PeakIsReal(a, n) ==
  LET whole == {i \in SamplesPublished(a, n) \cap Whole : published[i].v # NaN}
      top == Max({published[i].v : i \in whole})
      peak == Peak(a, n)
  IN  whole # {} =>
        /\ peak.value >= top
        /\ peak.value = top => \E i \in whole : published[i].v = top /\ published[i].s = peak.source
        /\ peak.value > top => torn /\ Len(published) \in SamplesPublished(a, n)

SummaryIsReal ==
  /\ {published[i].a : i \in {j \in Whole : published[j].k = "ast"}} \subseteq Woken
  /\ Woken \subseteq {published[i].a : i \in {j \in DOMAIN published : published[j].k = "ast"}}
  /\ \A a \in Cards, n \in Tracked : PeakIsReal(a, n)

(***************************************************************************)
(* self and summarize: a collector whose init record is in the file keeps  *)
(* that record's cost in the ledger, whatever notes its init wrote before  *)
(* it and the watchdog after it, and the total counts each init once.      *)
(***************************************************************************)
InitRecords == {i \in Whole : published[i].k = "car" /\ published[i].iw > 0}

LedgerShowsInit ==
  /\ \A i \in InitRecords : /\ Ledger(published[i].name).iw = published[i].iw
                            /\ Ledger(published[i].name).mods = published[i].mods
  /\ ~torn => InitTotal = SumFunction([i \in InitRecords |-> published[i].iw])

(***************************************************************************)
(* self: the length of the run, by which sizes and reports are divided, is *)
(* exact for a whole file and never too short for a cut one.               *)
(***************************************************************************)
DurationNotShort ==
  LET ts == {published[i].t : i \in Whole} \ {0}
  IN  ts # {} => /\ Duration >= Max(ts) - Min(ts)
                 /\ ~torn => Duration = Max(ts) - Min(ts)
=============================================================================
