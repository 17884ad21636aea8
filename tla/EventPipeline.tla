---------------------------- MODULE EventPipeline ----------------------------
(***************************************************************************)
(* What one published event does: EventBus fans it out synchronously, in   *)
(* subscription order (main.cc: JsonlWriter, AdapterStateFsm,              *)
(* DisagreementRules), and the later sinks publish transitions and reports *)
(* re-entrantly, from inside their own on_metric.  The writer drops the    *)
(* samples its DeltaFilter takes for repetitions.                          *)
(*                                                                         *)
(* A stream is what one collector emits under one metric name.  The filter *)
(* does not know the source, so two streams may share one key.             *)
(***************************************************************************)
EXTENDS Integers, Sequences, FiniteSets, FiniteSetsExt

CONSTANTS
  Streams,           \* records [adapter, metric, source]
  HeaderStreams,     \* those of the driver fingerprint, published once
  HostAdapter,       \* the empty adapter_id of host-level samples
  Readings,          \* the values a sample may carry
  Finite,            \* the readings that are finite numbers
  Implausible,       \* the finite readings outside every rule's limits
  NaN, Infinity,     \* the readings that are not finite
  Unset,             \* the value of an entry that is not initialized
  EvidenceMetrics,   \* metrics of the domains the FSM takes as evidence
  EnvelopeMetrics,   \* metrics with a unit envelope (volts, hertz, ...)
  CapacityMetrics,   \* totals, usages and budgets of an adapter's memory
  JudgedMetrics,     \* metrics that the IGCL collector judges itself
  MaxPublish,        \* bound on the samples published
  HeartbeatAfter     \* the documented heartbeat interval, in samples of a key

ASSUME StreamsAssumption ==
  /\ \A st \in Streams : DOMAIN st = {"adapter", "metric", "source"}
  /\ HeaderStreams \subseteq Streams
ASSUME ReadingsAssumption ==
  /\ Implausible \subseteq Finite /\ Finite \subseteq Readings
  /\ Readings \subseteq Finite \cup {NaN, Infinity}
  /\ NaN \notin Finite /\ Infinity \notin Finite /\ NaN # Infinity
  /\ Unset \notin Readings \cup {"null"} /\ "null" \notin Finite
ASSUME BoundAssumption == MaxPublish \in Nat /\ HeartbeatAfter \in Nat

KeyOf(st) == [adapter |-> st.adapter, metric |-> st.metric]   \* DeltaFilter::key_of
Keys == {KeyOf(st) : st \in Streams}
Adapters == {st.adapter : st \in Streams} \ {HostAdapter}

None == [value |-> Unset, quality |-> "plain"]   \* nothing under this key yet
Null == "null"                                  \* written for a NaN and an infinity

VARIABLES
  header,        \* header samples that are still to be published
  last,          \* DeltaFilter::last_: key -> what was last let through
  adapterState,  \* AdapterStateFsm::state_
  log,           \* the lines given to the file, in order
  current,       \* history variable: what was last published under each key
  sinceLine,     \* history variable: samples of a key since its last line
  published      \* number of samples published

vars == <<header, last, adapterState, log, current, sinceLine, published>>

-----------------------------------------------------------------------------
(***************************************************************************)
(* The sinks.  A sample is a stream with a reading.  IGCL passes on what   *)
(* the driver gives, the other collectors compute finite numbers.  IGCL    *)
(* degrades its own implausible samples (Low, Stale), but a NaN passes all *)
(* its comparisons: it is neither less nor greater than a limit.           *)
(***************************************************************************)
ReadingsOf(st) == IF st.source = "IGCL" THEN Readings ELSE Finite

Quality(st, r) ==
  IF /\ st.source = "IGCL" /\ st.metric \in JudgedMetrics
     /\ r \in Implausible \cup {Infinity}
    THEN "degraded" ELSE "plain"

\* Mutant of Emitted: the filter remembers what was written, not the value.
EmittedEncoded(st, r) ==
  [value |-> IF r \in Finite THEN r ELSE Null, quality |-> Quality(st, r)]

Emitted(st, r) == [value |-> r, quality |-> Quality(st, r)]

\* Mutant of SameAsLast: flags and confidence are not compared.
SameAsLastValueOnly(k, e) == last[k].value = e.value /\ e.value # NaN

\* same_value and the two comparisons after it: NaN is never equal to NaN.
SameAsLast(k, e) == last[k] = e /\ e.value # NaN

\* Mutant of ShouldEmit: a degraded sample is never taken for a repetition.
ShouldEmitDegraded(st, r) ==
  ~SameAsLast(KeyOf(st), Emitted(st, r)) \/ Quality(st, r) = "degraded"

\* DeltaFilter::should_emit, with suppression on and no FullSnapshot flag.
ShouldEmit(st, r) == ~SameAsLast(KeyOf(st), Emitted(st, r))

\* value_double: a NaN and an infinity become null.
Encode(r) == IF r \in Finite THEN r ELSE Null

\* The field "reading" is history: what the line was written for.
MetricLine(st, r) ==
  [kind |-> "ms", key |-> KeyOf(st), source |-> st.source,
   value |-> Encode(r), quality |-> Quality(st, r), reading |-> r]

WriterLines(st, r) == IF ShouldEmit(st, r) THEN <<MetricLine(st, r)>> ELSE << >>

\* Mutant of IsFirstEvidence: it does not ask for the present state.
IsFirstEvidenceAlways(st, r) ==
  st.adapter # HostAdapter /\ st.metric \in EvidenceMetrics /\ r \in Finite

\* AdapterStateFsm::on_metric: only the first evidence moves Unknown to Idle.
IsFirstEvidence(st, r) ==
  /\ st.adapter # HostAdapter
  /\ adapterState[st.adapter] = "Unknown"
  /\ st.metric \in EvidenceMetrics
  /\ r \in Finite

FsmLines(st, r) ==
  IF IsFirstEvidence(st, r) THEN <<[kind |-> "st", adapter |-> st.adapter]>> ELSE << >>

\* The envelope rules ask for a value inside a unit's limits, where a NaN is not.
OutsideEnvelope(st, r) ==
  st.metric \in EnvelopeMetrics /\ r \in Implausible \cup {NaN, Infinity}

\* The capacity rules: a size may not exceed the adapter's memory.
ExceedsMemory(st, r) == st.metric \in CapacityMetrics /\ r \in Implausible

Offends(st, r) == OutsideEnvelope(st, r) \/ ExceedsMemory(st, r)

RuleLines(st, r) ==
  IF Offends(st, r) THEN <<[kind |-> "dr", key |-> KeyOf(st), source |-> st.source]>>
  ELSE << >>

\* Mutant of FanOut: the rules are subscribed before the writer.
FanOutRulesFirst(st, r) == RuleLines(st, r) \o WriterLines(st, r) \o FsmLines(st, r)

\* EventBus::publish(MetricSample) and the publications it leads to.
FanOut(st, r) == WriterLines(st, r) \o FsmLines(st, r) \o RuleLines(st, r)

-----------------------------------------------------------------------------
Init ==
  /\ header = HeaderStreams
  /\ last = [k \in Keys |-> None]
  /\ adapterState = [a \in Adapters |-> "Unknown"]
  /\ log = << >>
  /\ current = [k \in Keys |-> None]
  /\ sinceLine = [k \in Keys |-> 0]
  /\ published = 0

\* One publish, with everything it leads to.
Deliver(st, r) ==
  /\ log' = log \o FanOut(st, r)
  /\ last' = IF ShouldEmit(st, r) THEN [last EXCEPT ![KeyOf(st)] = Emitted(st, r)] ELSE last
  /\ adapterState' = IF IsFirstEvidence(st, r)
                       THEN [adapterState EXCEPT ![st.adapter] = "Idle"] ELSE adapterState
  /\ current' = [current EXCEPT ![KeyOf(st)] = Emitted(st, r)]
  /\ sinceLine' = [sinceLine EXCEPT ![KeyOf(st)] = IF ShouldEmit(st, r) THEN 0 ELSE @ + 1]

\* publish_driver_fingerprint: what is known of an adapter's memory, 0 if
\* nothing, before any collector is initialized.  The CPU may see more memory
\* than the adapter has of its own, hence more than 100 per cent.
PublishHeader(st, r) ==
  /\ st \in header /\ r \in Finite
  /\ Deliver(st, r)
  /\ header' = header \ {st}
  /\ UNCHANGED published

\* A collector publishes one sample.
Publish(st, r) ==
  /\ header = {} /\ st \notin HeaderStreams /\ r \in ReadingsOf(st)
  /\ published < MaxPublish /\ published' = published + 1
  /\ Deliver(st, r)
  /\ UNCHANGED header

Next == \E st \in Streams, r \in Readings : PublishHeader(st, r) \/ Publish(st, r)

Spec == Init /\ [][Next]_vars
-----------------------------------------------------------------------------
Entries == [value : Readings, quality : {"plain", "degraded"}] \cup {None}

TypeOK ==
  /\ header \subseteq HeaderStreams
  /\ last \in [Keys -> Entries]
  /\ adapterState \in [Adapters -> {"Unknown", "Idle"}]
  /\ \A i \in DOMAIN log : log[i].kind \in {"ms", "st", "dr"}
  /\ current \in [Keys -> Entries]
  /\ sinceLine \in [Keys -> Nat]
  /\ published \in 0..MaxPublish

IsLineOf(k, line) == line.kind = "ms" /\ line.key = k

\* The samples of key k among the lines from..to, and what a reader of them sees.
LinesOf(k, from, to) == {i \in from..to : IsLineOf(k, log[i])}

View(k, from, to) ==
  LET is == LinesOf(k, from, to)
  IN  IF is = {} THEN None
      ELSE LET line == log[Max(is)]
           IN  [value |-> line.value, quality |-> line.quality]

Shown(e) == IF e = None THEN None ELSE [value |-> Encode(e.value), quality |-> e.quality]

(***************************************************************************)
(* A reader of the whole log knows, for every adapter and metric, the      *)
(* value published last, although most samples are never written, and      *)
(* although two collectors may publish under one key.                      *)
(***************************************************************************)
LogShowsCurrent == \A k \in Keys : View(k, 1, Len(log)) = Shown(current[k])

(***************************************************************************)
(* Two lines of one key with no line of it between them were written for   *)
(* different readings or judge them differently: the filter writes nothing *)
(* twice, whoever publishes it.  The exception is a NaN, written at every  *)
(* poll as a null of full confidence without a flag.                       *)
(***************************************************************************)
NoRepeatedLine ==
  \A i, j \in DOMAIN log :
    /\ i < j /\ log[i].kind = "ms" /\ log[j].kind = "ms" /\ log[i].key = log[j].key
    /\ \A m \in (i + 1)..(j - 1) : ~IsLineOf(log[i].key, log[m])
    => \/ log[i].reading # log[j].reading \/ log[i].quality # log[j].quality
       \/ log[i].reading = NaN /\ log[j].quality = "plain"

(***************************************************************************)
(* Wherever the log is cut, a reader who meets a report has already met    *)
(* the offending value as the latest one of its key, also when the sample  *)
(* that raised the report was itself suppressed.                           *)
(***************************************************************************)
ReportsExplained ==
  \A i \in DOMAIN log : log[i].kind = "dr" =>
    LET seen == View(log[i].key, 1, i)
    IN  seen # None /\ (seen.value \in Implausible \/ seen.value = Null)

(***************************************************************************)
(* An adapter is Idle exactly when the log shows evidence for it, and its  *)
(* single transition line comes right after the first such line.           *)
(***************************************************************************)
EvidenceLines(a) ==
  {i \in DOMAIN log : /\ log[i].kind = "ms" /\ log[i].key.adapter = a
                      /\ log[i].key.metric \in EvidenceMetrics /\ log[i].value # Null}

TransitionOnEvidence ==
  \A a \in Adapters :
    /\ adapterState[a] = "Idle" <=> EvidenceLines(a) # {}
    /\ \A i \in DOMAIN log : log[i].kind = "st" /\ log[i].adapter = a =>
         i - 1 \in EvidenceLines(a) /\ \A j \in EvidenceLines(a) : i - 1 <= j
    /\ EvidenceLines(a) # {} => \E i \in DOMAIN log : log[i].kind = "st" /\ log[i].adapter = a

-----------------------------------------------------------------------------
(***************************************************************************)
(* docs/plan.md A.13 and the operational runbook: every metric is written  *)
(* again at the 30 s heartbeat, whether or not it changed.                 *)
(***************************************************************************)
RepeatedAtHeartbeat == \A k \in Keys : sinceLine[k] < HeartbeatAfter

(***************************************************************************)
(* docs/plan.md A.6: an adapter leaves Unknown after the first successful  *)
(* pass of Tier 1, the polled collectors.                                  *)
(***************************************************************************)
IdleOnPolledEvidence ==
  \A a \in Adapters : adapterState[a] = "Idle" =>
    \E i \in EvidenceLines(a) :
      \A st \in HeaderStreams : log[i].key # KeyOf(st)
=============================================================================
