# b70tools: a TLA+ verification project

b70tools observes a two-GPU workstation.  `b70tools run` polls seven collectors
once a second on one thread, sends every sample through an in-process bus to a
delta-suppressing JSONL writer, an adapter state machine and a set of
disagreement rules, and the command-line tools (`verdict`, `summarize`,
`adapters`, ...) read the log, often while it is still being written.  The
program is small and its data is flat.  What is hard to test in it is *time and
omission*: polls that hang, samples that are not written because nothing
changed, sources that fall silent, readers that look at a window of a log from
which unchanged values are missing, files that end inside a line.  That is what
the modules are about.

Paths below are relative to the repository (`src/` of this tree).

## 1. Inventory

| part | source | state it keeps | operations | talks to |
|---|---|---|---|---|
| PollLoop | `src/runtime/poll_loop.cc` | slots with period and statistics, ticks run, options | one `run_until_max_ticks`; stop flag | calls collectors, watchdog, `after_tick` |
| Watchdog | `src/runtime/watchdog.cc` | per collector: consecutive slow polls, disabled | `note_start`, `note_end`, `is_disabled` | called by the loop only; no thread |
| EventBus | `src/bus/event_bus.cc` | list of sinks | `subscribe`, `publish` of seven event kinds | calls sinks synchronously; sinks publish re-entrantly |
| JsonlWriter, DeltaFilter | `src/schema/jsonl_writer.cc`, `delta_filter.cc` | file buffer; last value per (adapter, metric) | one handler per event kind, `flush`, `close` | file |
| compact_format, json_emit | `src/schema/` | none | encode one line | writer |
| AdapterStateFsm | `src/arbitrator/adapter_state_fsm.cc` | state per adapter | `on_metric`, `on_state_transition` | publishes transitions, hears its own |
| DisagreementRules | `src/arbitrator/disagreement_rules.cc` | dedicated VRAM per adapter; tracked IGCL sources | value rules, silence rule, epoch reset (never called) | publishes reports |
| Session | `src/runtime/session.cc` | epoch | `bump_epoch` (no caller in the source) | publishes the boundary |
| run_real | `src/main.cc` | signal flag, the objects above | enumerate, reconcile, audit each `init`, loop, shut down | everything |
| identity | `src/identity/` | none | three enumerations, one reconciliation | run_real |
| library audit | `src/runtime/library_audit.cc` | none | snapshot, compare | run_real |
| collectors | `src/collectors/` | driver handles; PDH engine: previous counters | `init`, `poll`, `shutdown` | publish samples |
| replay_reader | `src/runtime/replay_reader.cc` | none | log line to event | `run_dry` publishes what it reads |
| tools | `src/tools/` | none | `verdict`: two passes and three gates; `summarize`, `adapters`, `disagreements`, `self`: one fold over the log | read the file |
| eval scripts | `eval/scripts/*.ps1` | manifest | call `verdict` before, during and after | exit code |

What makes each part correct, and what is hard about it:

* **Loop and watchdog.**  A collector is retired after exactly three slow polls
  in a row, announced once, never polled again; no other collector pays for it.
  A stop request may come at any moment; a killed process may lose only the
  tick in progress; the run ends.  Hard: asynchronous signal, hanging drivers.
* **Bus, filter, writer.**  The suppressed log loses no information: the last
  line of a key shows the value last published.  Hard: two sources share a key,
  NaN is never equal to itself and passes for plausible, and sinks publish while
  they are being called.
* **FSM and value rules.**  A transition or a report appears where a reader has
  already seen its cause.  Hard: the order rests on subscription order only.
* **Silence rule.**  One report per episode, neither early nor late.  Hard: no
  timer of its own, jittered ticks, `>=` against a multiple of the cadence.
* **Start-up and shutdown.**  Identities bind what belongs together, a collector
  is polled only with what it needs, and everything an init opened is closed
  exactly once.  Hard: seven inits that may each fail at any of several driver
  calls and leave part of their handles open, shut down twice, audited by
  comparing two snapshots of the whole process, either of which may fail, while
  threads that drivers left behind load what they like.
* **PDH engine collector.**  A published utilisation is not more than what ran.
  Hard: it is a difference of two polls, and the sums and the time stamp it is
  taken from may be those of different polls; counter instances come and go with
  processes, and some cannot be read.
* **Replay and tools.**  What a report says is borne out by what was published,
  also when the file of a killed run ends anywhere in a line.  Hard: no reader
  checks that a line is whole, so half a number is a number, larger than the
  whole one if it lost its exponent, and half a name a name; the folds combine
  lines of different kinds, and not all of them in the order of their stamps.
* **Verdict.**  No false alarm, no groundless approval, from a log that omits
  what did not change and grows while it is read twice.

## 2. Modules

| module | models | composed with |
|---|---|---|
| `PollLoop` | loop, watchdog, SIGINT, kill, `after_tick`, `close` | implements `CollectorRetirement` |
| `CollectorRetirement` | what a watchdog promises, without loop or counters | abstract specification |
| `PollLoopProofs` | theorems about `PollLoop` for all constants | extends `PollLoop` |
| `EventPipeline` | bus, filter, writer, FSM, value rules, header samples | |
| `EventPipelineProofs` | theorems about `EventPipeline` for all constants | extends `EventPipeline` |
| `SourceSilence` | silence rule, the loop's clock, the IGCL poll | |
| `SourceSilenceProofs` | theorems about `SourceSilence` for all constants | extends `SourceSilence` |
| `PdhEngine` | processes and engines, and the poll that turns running times into utilisation | |
| `PdhEngineProofs` | theorems about `PdhEngine` for all constants | extends `PdhEngine`, `NumberSets` |
| `LogViews` | writer, file cut in a line, replay, and the folds of four tools | |
| `LogViewsProofs` | theorems about `LogViews` for all constants | extends `LogViews`, `NumberSets` |
| `Verdict` | suppressed log with timestamps, two-pass reader, the gates | |
| `VerdictProofs` | theorems about `Verdict` for all constants | extends `Verdict`, `NumberSets` |
| `Startup` | enumeration, reconciliation, header, audited inits, shutdown, destructors | surrounds `PollLoop`: its `loop` state stands for the whole loop |
| `StartupProofs` | theorems about `Startup`'s handles, identities, audits and types for all constants | extends `Startup`, `NumberSets` |
| `NumberSets` | minimum and maximum of a set of numbers, and sums over finite sets, for the proofs | |
| `MC*` | small instances for the configurations | extend the module they name |

State and actions follow the code.

**PollLoop.**  `pc` is the place of the loop's thread (`top`, `slot`,
`polling`, `sleep`, `done`, `closed`, or `killed`).  `BeginTick`, `LeaveAtTop`,
`SkipSlot`, `PollStart`, `PollReturn`, `EndTick`, `Wake` are the pieces of
`run_until_max_ticks` between the points where a signal can be noticed or the
process killed; `PollReturn` is everything from the return of `poll()` to the
end of the loop body, with `note_end` and the audit record.  `Interrupt` is
`handle_sigint`, `Kill` an outside end of the process, `CloseRun` the shutdown
at the end of `run_real`.  `consecutive` and `disabled` are the watchdog's
entries.  `history`, `lateStarts` only record.  Only whether a poll was slow
matters, so `Elapsed` holds a duration on each side of `>=`.

**EventPipeline.**  `Publish(st, r)` is one `EventBus::publish(MetricSample)`
with all it leads to, synchronously: the lines of the writer, the FSM's
transition, the rules' reports, in the order of subscription.  A sample is a
stream (adapter, metric, source) and a reading; values are abstracted to a
plausible one, an implausible one, NaN and an infinity.  Only IGCL passes on what a
driver gives it, so only its streams carry the last two (`ReadingsOf`); no
collector of `run` publishes a Missing value.  `Quality` stands for flags and
confidence, which IGCL lowers on samples it judges implausible; a NaN is neither
less nor greater than a limit and keeps both.  The rules that ask for a flag
(`check_nan_inf`) are left out, since only the fake collector sets one.
`current`, `sinceLine` and the field `reading` of a line only record what was
published.  `PublishHeader` is one sample of the driver fingerprint, which main.cc
publishes between the identities and the first init, of any size: where the CPU
sees more memory than the adapter has of its own it is more than 110 per cent and
the rules report it.  `Publish` waits until `header` is empty.

**SourceSilence.**  One IGCL source is one (adapter, domain) pair.  A tick reads
the clock once, then the collectors before IGCL publish, each IGCL source
publishes or fails, then the collectors after it publish; every sample sweeps
the tracker.  `age` is the time since `last_seen_ts`, capped at the threshold
because the rule compares it with nothing else.

**Verdict.**  `Tick` is one tick of a run with live flush: a line for each stream
whose value changed.  `PassOne` and `PassTwo` are the two reads of the file.
`Issue` is the chain of gates with the reason it gives; `ExitCode` what the
process returns.  A failed poll publishes nothing, which in a suppressed log is
the same as a value that did not change; a counter may stand still for either
reason.

**PdhEngine.**  `Run`, `Start` and `Exit` are the machine: an engine runs one
process at a time, a process that leaves takes its counter instances along.
`CollectFails`, `FetchFails` and `Poll` are the three ways through
`PdhGpuEngineCollector::poll`; `prev` and `last` are `prev_samples_` and
`last_collect_qpc_ns_`, which move together only in the last of them.  `work`,
`stale` and `settled` record what really ran and what the collector cannot know.

**LogViews.**  An event is a record, a line the sequence of its key/value pairs
in the order `compact_format` writes them (`KeyOrder`).  `HeaderEvents` is what may
be written before the first poll: identities, the fingerprint and its samples, the
transitions and reports these set off, audit records and the notes of inits; a
header is any sequence of them.  `now` is the stamp of a tick's samples, `clock` the
latest time reached: the record of a retirement carries the end of a poll, later
than the lines that follow it in the tick.  `WriteLine` writes the next event of a
run, `Tear` ends the file inside the line written last; the
constant `Halves` says what is left of a value that was cut.  `Find` is the
readers' search for a key, which sees no end of a line.  `Replay` is
`replay_reader`, `Peak` and `Woken` are `summarize`, `Unusable` is `adapters`,
`Groups` is `disagreements`, `Ledger` and `Duration` are `self`.  `InOrder` is
the loop of `replay_jsonl`: one pass that appends what a line gives, if anything.
`published` keeps the event of each line, to compare.

**Startup.**  `found` is what the three APIs returned, `identities` what
`reconcile_identity` makes of it; both are forgotten after the header, when
nothing reads them any more, and the LUIDs remain in `adapters`.  Each
collector's init is a set of outcomes (`D3dkmtInits`, `VulkanInits`, ...), one
for every way through the code: what stays open, which of the handles are not
null, which adapters are bound, the result.  `AuditInit` is one call of
`audit_init`: snapshot, init, snapshot, record.  `open` is what the system holds
for a collector, `held` what the collector believes it holds; a difference
between them would be a double close.  `ShutDown` happens twice, as in the
code.  A thread or a module may appear with an init if its collector is in
`Spawners` or its driver in `Dragged`.  Each audit takes two snapshots of its own;
either may fail, and is then without modules or without threads (`SnapshotsOf`).
A thread that an init left behind may load a module of `Late` during a later init
or between two audits (`LateLoad`).  `broughtBy` and `blind` only record which init
was running when a module came, and whose audit had a failed snapshot.  The command
line is valid.

## 3. Runs

| configuration | expects | question and bounds |
|---|---|---|
| `PollLoop.cfg` | pass | three collectors, periods 1, 2, 1, `--ticks` 0 or 4, every flag, Ctrl-C and kill at any step.  Four ticks give a base-cadence slot its third strike and one tick after it. |
| `PollLoopHang.cfg` | violation | `docs/plan.md` A.16: a stalled poll is left behind.  The code waits for it for ever. |
| `EventPipeline.cfg` | pass | two header samples, then up to four from five streams, two of one key, two of IGCL with four readings: 292,000 states.  Two samples set up a state, the third is suppressed or not, the fourth comes after that. |
| `HeaderIdle.cfg` | violation | `docs/plan.md` A.6: Idle after the first pass of Tier 1, which is polling.  The header alone makes an adapter Idle. |
| `Heartbeat.cfg` | violation | A.13: a line every 30 s.  31 equal samples, one line. |
| `SourceSilence.cfg` | pass | two sources, gaps 0.95, 1.00, 1.05 s, misses counted to four; time unbounded. |
| `PdhEngine.cfg` | pass | four cadences, two processes that come and go, one adapter with two engines and one with none; any poll may fail to collect, to fetch, or to read any of the instances.  Four cadences hold a good poll, a failed one, and one after it whose window and sums differ. |
| `LogViews.cfg` | pass | a header of eight events (identity, a sample with the transition and the report it sets off, fingerprint, a binding note and two inits), three events at up to three times, two sources of one metric, retirements, and a cut at every field and inside every value; half of one number is larger than the number: 142,000 states.  Three events hold a first, a last, and one whose line is cut. |
| `Verdict.cfg` | pass | two rigs (memory seen by PDH; counters of IGCL only), four ticks, window of two ticks, a value on each side of each limit, counters that grow or stand still; the clock starts at 0, so both ways of computing the window occur. |
| `VerdictSpill.cfg` | violation | `verdict.h`: non-local commit is a hard floor.  A constant breach older than the window is not seen. |
| `Startup.cfg` | pass | two LUIDs with one low half, interchangeable (`SYMMETRY`: no property or definition tells them apart, and the properties are invariants and one step's action); up to two records from each API, software adapters, records without LUID, no Vulkan; every outcome of seven inits; a module that two collectors' drivers may bring in, a thread that loads one at any time, snapshots around one init that may fail: 1.8 million states.  Two records are what collisions and shadowing need. |
| `StartupAudit.cfg` | violation | A.12: a collector that fails the audit is disabled.  It is polled. |

The properties, by hazard:

* hanging or slow drivers: `StrikesMatchHistory`, `OneRecordPerDisabled`,
  `NoPollMissed`, `RetirementSpec`, `RunEnds`, `StalledPollIsLeft`;
* stop and kill: `OneLatePollAtMost`, `QuietMeansFlushed`;
* omission: `LogShowsCurrent`, `NoRepeatedLine`,
  `RepeatedAtHeartbeat`, `HealthyMeansNoSpill`;
* order of derived lines: `ReportsExplained`, `TransitionOnEvidence`,
  `IdleOnPolledEvidence`;
* silence: `OneReportPerEpisode`, `NotTooEarly`, `NotTooLate`, `MissIsSettled`;
* differences of two polls: `NeverOverstated`, `ExactWhenSettled`;
* a file cut anywhere: `ReplayFaithful`, `SummaryIsReal`, `UnusableIsReal`,
  `GroupsAreReal`, `LedgerShowsInit`, `DurationNotShort`;
* failing inits: `PolledIsReady`, `PointersValid`, `AllReleased`;
* identity and audit: `IdentitiesSound`, `ModulesAttributed`, `AuditFailureDisables`;
* reading while writing: `BreachIsReal`, `HealthyIsWarranted`, `BusyRigIsJudged`.

Epoch boundaries are in no module: `Session::bump_epoch` has no caller, so what the
writer and the silence rule do at a boundary (`src/schema/jsonl_writer.cc:89-95`,
`src/arbitrator/disagreement_rules.cc:227-231`) never happens in the program.

### Findings

1. *The watchdog cannot leave a stalled poll* (`src/runtime/poll_loop.cc:48`).
   The plan describes a thread; the code measures polls that came back.
2. *There is no heartbeat* (`src/schema/delta_filter.cc:27`).  The interval is
   configured, the test exists, nothing calls it.
3. *An adapter is Idle before the first poll* (`src/runtime/driver_fingerprint.cc:210`).
   The fingerprint publishes memory samples as part of the header; the state
   machine, subscribed before, takes them for evidence.  The plan gives the
   transition to the first pass of Tier 1 evidence, which it defines as polling.  The consequence is that the
   acceptance at the end of `run_real` (`src/main.cc:438-450`: every adapter
   left Unknown) and `summarize`'s "Did adapters wake?" can be met by a run
   that polled nothing.
4. *A steady spill passes the verdict* (`src/tools/verdict.cc:194`): the window
   is taken over a log from which unchanged values are missing.  Finding 2 is
   what would have hidden it: with a heartbeat shorter than the window each
   value would have a line in it.
5. *A failed audit disables nothing* (`src/main.cc:338`).  The record is written,
   the collector is polled.
6. *A NaN of the driver is published with full confidence*
   (`src/collectors/igcl_power_telemetry.cc:242`).  The plan (`docs/plan.md:159`, `:345`)
   has it coerced to Missing with a flag.  The plausibility test compares with `<` and
   `>`, which a NaN never satisfies; no flag is set, `nan_injection` never fires, and
   the metric is written as null at every poll.  `NoRepeatedLine` has to except it.
7. *Ambiguous Vulkan devices and devnodes refuse nothing*
   (`src/identity/reconciler.cc:60`, `:65`).  The plan (`docs/plan.md:94`) says an
   ambiguous binding refuses start-up with a report; only a LUID that DXGI gives
   twice does.  Of two devices with one LUID the last wins, without a note:
   the last disjunct of `IdentitiesSound`.
8. *The asymmetry gate fires by itself* (`src/tools/verdict.cc:361`).  The header
   (`src/tools/verdict.h:45-46`) says that it fires only together with elevated
   non-local commit; the code fails the vram gate on a ratio alone, when the option
   turns it on.  `BreachIsReal` therefore takes an imbalance for a breach of its own.

Findings 6 to 8 are not runs of their own: each is the weaker form in which a passing
run's property holds, and the run reaches it; without that disjunct TLC finds the
property violated.

Smaller things met on the way, stated here only.  The verdict divides the growth
of the activity counter by the time between the first and last line of the *energy*
counter (`src/tools/verdict.cc:279-285`): when the two do not change at the same
ticks the share is not one of its own time.  `HealthyIsWarranted` is therefore
stated with one pair of ticks for the power and another for the activity; with one
pair for both it is false.  Reports are not rate-limited,
because the rules hear the bus and not the writer
(`src/arbitrator/disagreement_rules.cc:110`; `docs/baseline-findings-idle.md:27`
expects otherwise).  The "3 ticks" of silence of `disagreement_rules.h:44` are
two missed polls when a collector polled earlier in the tick triggers the sweep.
`summarize.cc:464` and `self.cc:213` keep a collector's init record, so the
ledger does not show that the watchdog retired it (`docs/operational-runbook.md:91`
looks for it there).

### What a cut file does

`LogViews` states what still holds.  What does not, and no property claims:
`self`'s duration and the span of a run in `adapters` may be too long and
`summarize`'s duration is that of the last line, cut or not, and too short also for
a whole file when a retirement's record, stamped with the end of a poll, is followed
by lines of its tick (`poll_loop.cc:60`); a peak may be what a cut left of a sample,
4.9 of a utilisation of 4.9e-05 (`json_emit.cc:94` prints the shortest form); half an adapter id
is an adapter of its own in the tools' tables; the kind `drf` cut after two
letters is `dr`.  Replay, cut or not, gives a sample neither source nor domain nor
unit, so the rules and the state machine stay silent on a replayed log.

### Fairness

`PollLoop!Spec` assumes weak fairness of the loop thread's own steps: the thread
is scheduled and `sleep_for` returns.  It assumes nothing about drivers; the
specification `SpecPollsReturn` adds that polls return and is stated for
comparison.  `RunEnds` therefore has "or a poll never returns" in it.
`SourceSilence!Spec` assumes that ticks keep happening, which is the same
thread with polls that return.  `Interrupt` and `Kill` are never fair:
nothing makes them happen.  `EventPipeline`, `Verdict`, `Startup`,
`PdhEngine` and `LogViews` state safety only.  Deadlock checking is off for these
five: the bounded number of samples, ticks or events, or the end of the process,
ends the behaviour.

### Assumptions

The named `ASSUME`s of a module are what its runs and theorems rest on.  Those
that say something about the machine:

* `LogViews!TimeAssumption`: half a time stamp is older than the first poll.  A
  time stamp counts nanoseconds since boot, so its first digits are at most a
  tenth of it: it holds when the machine was up for longer than a ninth of the
  run's length.  `NumberAssumption`: what a cut leaves of a number is some number.
* `LogViews!HalvesAssumption`: no kind cut short is another one but `drf`, which
  may become `dr`; half of zero or of an empty list is nothing more.
  `HeaderAssumption`: what is published before the first poll is older than it and
  of the kinds that `run_real` publishes there, in any number and order, and a
  collector has one init record, as `run_real` calls `audit_init` once for each; its
  notes carry no init data.
  `NamesAssumption`: ids, metrics, sources and rules are texts, and what stands for
  a missing value is none.
* `PdhEngine!EnginesAssumption`: an engine belongs to one adapter (its instance name
  carries the LUID) and an adapter has finitely many; `ProcessesAssumption`: so
  has the machine processes.
* `SourceSilence!TimeAssumption`: the gaps between ticks have a shortest and a
  longest.  `CapAssumption`: misses are counted far enough to reach the threshold.
* `Startup!LuidAssumption`: every LUID has a low half, and a record without one
  is told from a LUID.  Nothing says the halves differ.  Three things about
  snapshots are in the module and not in an assumption: a module list is whole or
  empty, though the code would fill at most 1024 entries of it
  (`library_audit.cc:37`) and leave out a module whose name it cannot get (`:48`);
  a thread count is right or 0; and threads that inits leave behind stay.
* `EventPipeline!ReadingsAssumption`: a finite reading is never encoded as null.
* `PdhEngine` takes the tick's time stamp for the time of the collection; the
  code collects after the earlier collectors of the tick, so real windows jitter
  by their duration.  A failed fetch keeps the older sums; the exit of a process
  makes an engine read low.  Both are modelled, not assumed away.

## 4. Proofs

`PollLoopProofs` proves, for any number of collectors, any periods, any tick
limits, any timeout and any durations, under the named assumptions of
`PollLoop` only:

* `TypeCorrect`: `Spec => []TypeOK`.  `TypeOK` is inductive; one step per action.
* `WatchdogCorrect`: `[](StrikesMatchHistory /\ OneRecordPerDisabled)`.
  `StrikesMatchHistory` alone is not inductive: the step in which a poll returns
  needs to know that the poll of a disabled slot cannot be in progress, or its
  counter would pass three and a second record would be written.  The
  invariant is strengthened with that fact (`pc = "polling" => slot \notin
  disabled`).  Only `PollReturn` touches the counters; its case rests on lemmas
  about what appending "slow" or "fast" does to the trailing run of a history.
  `DisabledIsRecordedOnce` is its second half by itself.
* `EveryDuePollHappens`: `[]NoPollMissed`.  The invariant `PollsInv` follows a tick
  from inside: slots behind the loop's position have had the tick's poll, the
  others not yet, and a poll in progress is due.  That one more tick adds a poll
  exactly when the period divides the ticks so far is `OneMoreTick`, which rests
  on `DivisionIsUnique` (quotient and remainder are).
* `LatePollsBounded`: `[]OneLatePollAtMost`.  The strengthening says that a slot
  polled late lies behind the for-loop's position, and that there is none before
  the stop; a new tick, which would start the loop over, needs the flag down.
* `QuietFlushed`: `[]QuietMeansFlushed`, from the types alone and the order of
  `EndTick`.
* `ImplementsRetirement`: `Spec => Retirement!Spec`.  Every `PollReturn` is an
  `Observe` of its slot with its outcome; every other step leaves history,
  `disabled` and `audits` alone.  That the loop's counter reaches three exactly
  when the history ends with three slow polls is `WatchdogCorrect`'s invariant.

`NumberSets` holds what the proofs about tools and counters share.  The library
states induction with the claim as an operator, which the provers cannot be given;
here an induction is about the least number for which a claim fails (`NoLeast`).  So
are solved the recursive definition behind `SumFunctionOnSet` (`SumExists`,
`SumUnique`) and, from that, what adding, dropping or raising a term does to a sum.

`StartupProofs` proves, for any LUIDs, any modules and any outcome of any driver
call:

* `HandlesInvariant`: `[]HandleInv`, the inductive invariant of the next three.
  Handles and pointers agree.  A ready flag is backed by handles until the
  shutdowns; that is not inductive alone, because a second init of the same
  collector could take the handles of its flag away: `FlagsInOrder` says that no
  collector still to be initialised has a flag, and rests on the order naming
  each collector once (`OrderIsInjective`).  One lemma per collector shows that
  every way out of its init is a good one (`GoodOutcome`).
* `NoDanglingPointers` (`PointersValid`), `PolledAreReady` (`PolledIsReady`) and
  `EverythingIsReleased` (`AllReleased`, an action property) follow from it.
* `IdentitiesAreSound`: `[]IdentitiesSound`.  The invariant `FoundInv` says that
  between enumeration and header the identities and notes are those of what was
  found; what they are is a matter of `Match`, the last place that holds a LUID.
  `MatchFinds` gives its meaning; it needs the maximum of a bounded set of
  numbers (`MaxExists`), which the library gives only as the minimum of its
  mirror image under a well-founded order.
* `ModulesAreAttributed`: `[]ModulesAttributed`.  The invariant `AttributionInv`
  says of every audit in the log what the property says at the end.  It needs more:
  what came during a collector's init stays its own when others come
  (`ModulesAreOwned`), which rests on a module being in the process from the moment
  somebody has brought it, and no audit is written twice.  `RecordAttributes` goes
  from the snapshots to the record, a failed one included.  The log must stay a
  sequence, so the enumerations must be finite (`FiniteFound`) and the inits'
  remarks countable (`RemarksAreCounted`).
* `StartupTypeCorrect`: `[]TypeOK`.  That an identity's devnode and device are places
  in what was found rests on `MatchIsPlace`; that `loaded` stays inside `Modules` on
  the shape of `Library`.

`SourceSilenceProofs`, for any sources, gaps and threshold:

* `TypeCorrect` (`TypeOK`) and `ReportsAlternate` (`OneReportPerEpisode`), which is
  inductive with the types.
* `SilenceNotTooEarly` (`NotTooEarly`) and `SilenceNotTooLate` (`NotTooLate`) rest on
  `AgeInv`: the age of a source, below the threshold at which it is capped, lies
  between the missed polls (and the tick in progress) times the shortest gap and
  as many times the longest.  Not too late needs `Swept` too: after the last sample of a
  tick nothing overdue is left unreported; it therefore assumes that some other
  collector publishes (`BeforeIgcl \/ AfterIgcl`), and is false without.

`EventPipelineProofs`, for any streams, readings and rules:

* `TypeCorrect` (`TypeOK`), with the shape of the log's lines (`TypeInv`).
* `WholeLogIsCurrent` (`LogShowsCurrent`) rests on `ViewInv`: the latest line of a key
  shows the reading published last, and what the filter remembers is that reading.
  The property is not inductive alone, because suppressing a sample is right only if
  the filter's entry agrees with the log.
* `NothingTwice` (`NoRepeatedLine`): a line is written only if its sample differs from
  what the filter remembers, which by `ViewInv` is that of the previous line, or is a
  NaN (`WrittenDiffers`).
* `ReportsHaveCause` (`ReportsExplained`): when a rule reports, the writer has seen
  the sample already; `ViewInv` in the middle of the fan-out.
* `IdleHasEvidence` (`TransitionOnEvidence`): `EvidenceInv` adds that the first
  evidence of an adapter is never suppressed (`FirstIsWritten`), so that a
  transition always has a line before it.

`VerdictProofs`, for any streams, levels, limits, window and clock:

* `InvariantHolds`: `[]VInv`.  `Shown` relates the lines of one stream to the values
  it had: a line shows the value at its tick, time stamps grow, a change has a line,
  and the last line up to a tick shows what was in force at it.  The last of these
  would follow from the others only by induction over ticks; as part of the
  invariant it is kept by a tick without a change (`QuietTickShown`) and by one with
  (`ChangeTickShown`).  `WindowInv` says that the window ends where pass 1 stopped
  and that every line beyond it is of a tick pass 1 has not seen.
* `TypeCorrect` (`TypeOK`) needs that invariant: the start of the window is the
  minimum of the stamps or the maximum less its width, and they have both.
* `BreachesAreReal` (`BreachIsReal`), `HealthyRestsOnEvidence`
  (`HealthyIsWarranted`) and `BusyRigsAreJudged` (`BusyRigIsJudged`).  `LastIsInForce`
  is the heart: what pass 2 finds last in the window is what was in force when pass 1
  read the log.  A verdict stays true until the next because ticks are only
  appended (`KeepsView`).

`PdhEngineProofs`, for any adapters, engines and processes, any 100 per cent and
any clock:

* `PdhInvariant`: `[]PdhInv`.  Neither action property follows from the types: the
  difference that is published is one of sums over processes, the bound one of
  work.  `CountersCovered` relates them at every moment: what the live processes have
  on an engine that is not stale is at most what `prev_samples_` knows of it plus its
  work since; `CountersExact` says it is equal while no process comes or goes.
  `Run` keeps them because an engine runs one process (`RunOneEngine`), `Exit`
  because a sum over fewer processes is smaller, a failed fetch because it makes
  stale what worked.  `PdhTypeCorrect` (`TypeOK`) is its first part; that no counter
  is ahead of the clock (`CountersInTime`) is what makes a share of the window at
  most 100 per cent.
* `PdhNeverOverstated` (`NeverOverstated`) and `PdhExactWhenSettled`
  (`ExactWhenSettled`): only `Poll` publishes; an engine's part is at most, or
  exactly, its share of the window, and sums and the limit to 100 per cent preserve
  the order.  Engines are counted by their own instances only, and one that was not
  read adds nothing.

`LogViewsProofs`, for any cards, metrics, numbers, header and length of the run, and for
any way of cutting a value that section 3's assumptions allow:

* `LogInvariant`: `[]LogInv`.  Everything rests on two facts about a line
  (`FindWhole`, `FindCut`): the keys of a whole line have the event's values, and so
  have those of a cut one up to its last key, which may have half its value.  The
  types of `TypeOK` are not enough for what readers combine from several lines:
  `InTime` says that no stamp is later than the time reached (that stamps never go
  back would be false), and `InitsOnce` that a collector's other records are notes; it is
  the assumption about headers carried over the watchdog's notes.  `LogTypeCorrect`
  (`TypeOK`) is its first part.
* `LogReplayFaithful` (`ReplayFaithful`).  `InOrder` is solved as a recursive function
  (`InOrderExists`, `InOrderUnique`) and two of them compared line by line
  (`InOrderAgrees`); what a line decodes to is then a matter of one line
  (`WholeDecodes`).
* `LogGroupsAreReal` (`GroupsAreReal`): a group is its whole reports and possibly the
  last line (`GroupIs`); if that is cut, its stamp is at
  most its event's (`GroupSpan`), so that it cannot make the span longer than that of
  the published stamps, a report of the header among them or not.
* `LogUnusableIsReal` (`UnusableIsReal`): the rate is used only if the last sample is
  half a second later than the first, and half a stamp never is; a
  sample whose number was cut has no stamp at all (`TornSample`).
* `LogSummaryIsReal` (`SummaryIsReal`): `WokenShown` for the states, `PeakShown` for
  the peaks: only the cut line's sample can be read as larger than it was.
* `LogLedgerShowsInit` (`LedgerShowsInit`): the init record replaces the notes before
  it and stays when others follow (`LedgerOfInit`).  The total is a sum over names,
  the claim one over records: `SumWithoutZeros` drops the collectors without a
  record, `SumOfImage` goes from one to the other.
* `LogDurationNotShort` (`DurationNotShort`): the cut line's stamp is absent, half or
  whole, and none of them shortens the span.

The action properties and invariants of all passing runs are proved.  Only
model-checked are the two liveness properties `RunEnds` and `MissIsSettled`:
fairness and ENABLED are out of the prover's reach.  The runs that expect a violation
have nothing to prove.  No module declares a RECURSIVE operator.

## 5. Plan

In order, the most important behaviour first.  All of it is done.

1. `PollLoop`, `CollectorRetirement`, `PollLoopProofs`.
2. `EventPipeline`, `EventPipelineProofs`.
3. `SourceSilence`, `SourceSilenceProofs`.
4. `Verdict`, `NumberSets`, `VerdictProofs`.
5. `Startup`, `StartupProofs`.
6. `PdhEngine`, `PdhEngineProofs`.
7. `LogViews`, `LogViewsProofs`.

What would come next: the gate protocol of `eval/scripts/run-eval.ps1`, which calls
`verdict` around a job; an abstract log that `EventPipeline` and `Verdict` both refine,
so that the reader is checked against the writer's own filter.

## 6. Not modelled

* Driver and Windows API calls, registry reading, printing, JSON escaping and
  number formats, the fake collector, `run_enumerate`, the PowerShell harnesses, UI
  mock-ups and vendored headers.  The limits of the value rules are data and are one
  predicate.
* `Session` and epochs: nothing calls `bump_epoch`.
* Write errors and overlong lines (`src/schema/jsonl_writer.cc:55`, `:65`): the code
  has no handling to check; the line is missing.  A line that is cut is in `LogViews`.
* The one failure flag of the D3DKMT collector for all adapters
  (`d3dkmt_adapter_perfdata.cc:192`) and Ctrl-C before the handler is installed
  (`src/main.cc:371`).  Both are listed as hazards in `PROJECT.json`, with the reason.
* In the tools: counts of degraded samples, minima and means, the fingerprint's
  fields and the overhead budget, which are sums without a condition.

## Running

    tlc -workers 2 -config PollLoop.cfg MCPollLoop
    tlapm PollLoopProofs.tla

and likewise for the other configurations listed in `PROJECT.json`.
