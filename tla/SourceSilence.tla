--------------------------- MODULE SourceSilence ---------------------------
(***************************************************************************)
(* The silence rule of DisagreementRules against the loop's clock.         *)
(*                                                                         *)
(* Every sample of a tick carries the time the tick began.  The rule has   *)
(* no timer: it looks at the tracked IGCL sources whenever any sample      *)
(* arrives, whichever collector published it.  In main.cc's order D3DKMT   *)
(* publishes before IGCL is asked, and host_memory after it.               *)
(*                                                                         *)
(* Time is kept as the age of each source's last sample, capped at the     *)
(* threshold: the rule compares it with nothing else.  The session has one *)
(* epoch: nothing calls bump_epoch, which would clear the tracked sources. *)
(***************************************************************************)
EXTENDS Integers, FiniteSets, FiniteSetsExt, Sequences

CONSTANTS
  KeySeq,        \* the (adapter, domain) pairs of IGCL, in publishing order
  Gaps,          \* the times that may pass between the starts of two ticks
  Threshold,     \* kSilenceThresholdNs
  BeforeIgcl,    \* a collector polled before IGCL publishes in every tick
  AfterIgcl,     \* and one polled after it
  MissedCap      \* bound on the misses counted

Keys == {KeySeq[i] : i \in DOMAIN KeySeq}

ASSUME KeysAssumption ==
  /\ KeySeq \in Seq(Keys)
  /\ \A i, j \in DOMAIN KeySeq : KeySeq[i] = KeySeq[j] => i = j
ASSUME TimeAssumption ==
  /\ Gaps \subseteq Nat \ {0} /\ Threshold \in Nat \ {0}
  /\ \E shortest, longest \in Gaps : \A g \in Gaps : shortest <= g /\ g <= longest
ASSUME OthersAssumption == {BeforeIgcl, AfterIgcl} \subseteq BOOLEAN
ASSUME BoundAssumption == MissedCap \in Nat
\* The misses are counted far enough to reach the threshold.
ASSUME CapAssumption == (MissedCap + 1) * Max(Gaps) >= Threshold

VARIABLES
  phase,       \* the part of the tick the loop is in
  next,        \* position in KeySeq within the IGCL poll
  tracked,     \* keys of source_tracking_
  silent,      \* those whose entry is silent
  age,         \* time since last_seen_ts, capped at Threshold
  missed,      \* history variable: polls of a key without a sample since its last one
  balance,     \* history variable: silent reports minus resumed reports, per key
  noticed      \* history variable: missed[k] when k's silence was reported

vars == <<phase, next, tracked, silent, age, missed, balance, noticed>>

Cap(n, bound) == IF n > bound THEN bound ELSE n

Init ==
  /\ phase = "idle" /\ next = 1
  /\ tracked = {} /\ silent = {}
  /\ age = [k \in Keys |-> 0]
  /\ missed = [k \in Keys |-> 0]
  /\ balance = [k \in Keys |-> 0]
  /\ noticed = [k \in Keys |-> 0]

-----------------------------------------------------------------------------
\* Mutant of Overdue: an entry that is already silent is reported again.
OverdueEverySample(among, ages) == {k \in among : ages[k] > 0 /\ ages[k] >= Threshold}

\* check_for_silence: the entries this sample finds overdue.  A key seen in
\* this very tick has age 0 and is skipped.
Overdue(among, ages) == {k \in among \ silent : ages[k] > 0 /\ ages[k] >= Threshold}

\* emit_source_silent for each of them.
ReportSilent(ks) == noticed' = [k \in Keys |-> IF k \in ks THEN missed[k] ELSE noticed[k]]

\* The loop wakes up, reads the clock once and starts a tick.
BeginTick(gap) ==
  /\ phase = "idle"
  /\ age' = [k \in Keys |-> IF k \in tracked THEN Cap(age[k] + gap, Threshold) ELSE 0]
  /\ phase' = IF BeforeIgcl THEN "before" ELSE "igcl"
  /\ next' = 1
  /\ UNCHANGED <<tracked, silent, missed, balance, noticed>>

\* Mutant of OtherSample: the sample of an untracked source returns early.
OtherSampleUnseen(from, to) ==
  /\ phase = from /\ phase' = to
  /\ UNCHANGED <<next, tracked, silent, age, missed, balance, noticed>>

\* Another collector's sample: it is not tracked, but it sweeps the entries.
OtherSample(from, to) ==
  LET late == Overdue(tracked, age)
  IN  /\ phase = from /\ phase' = to
      /\ silent' = silent \cup late
      /\ balance' = [k \in Keys |-> IF k \in late THEN balance[k] + 1 ELSE balance[k]]
      /\ ReportSilent(late)
      /\ UNCHANGED <<next, tracked, age, missed>>

\* Mutant of IgclSample: last_seen_ts is only moved when an episode ends.
IgclSampleSeenOnce ==
  /\ phase = "igcl" /\ next \in DOMAIN KeySeq
  /\ LET k == KeySeq[next]
         ages == IF k \in silent THEN [age EXCEPT ![k] = 0] ELSE age
         late == Overdue(tracked \cup {k}, ages)
     IN  /\ tracked' = tracked \cup {k}
         /\ age' = ages
         /\ silent' = (silent \ {k}) \cup late
         /\ balance' = [j \in Keys |-> IF j \in late THEN balance[j] + 1
                                       ELSE IF j = k /\ k \in silent THEN balance[j] - 1
                                       ELSE balance[j]]
         /\ ReportSilent(late)
         /\ missed' = [missed EXCEPT ![k] = 0]
  /\ next' = next + 1
  /\ UNCHANGED phase

\* update_source_tracking closes the key's own episode and moves last_seen_ts
\* before check_for_silence sweeps the others.
IgclSample ==
  /\ phase = "igcl" /\ next \in DOMAIN KeySeq
  /\ LET k == KeySeq[next]
         ages == [age EXCEPT ![k] = 0]
         late == Overdue(tracked \cup {k}, ages)
     IN  /\ tracked' = tracked \cup {k}
         /\ age' = ages
         /\ silent' = (silent \ {k}) \cup late
         /\ balance' = [j \in Keys |-> IF j \in late THEN balance[j] + 1
                                       ELSE IF j = k /\ k \in silent THEN balance[j] - 1
                                       ELSE balance[j]]
         /\ ReportSilent(late)
         /\ missed' = [missed EXCEPT ![k] = 0]
  /\ next' = next + 1
  /\ UNCHANGED phase

\* Mutant of IgclMiss: an unsupported item makes the poll skip the next one.
IgclMissSkips ==
  /\ phase = "igcl" /\ next \in DOMAIN KeySeq
  /\ missed' = [missed EXCEPT ![KeySeq[next]] =
                  IF KeySeq[next] \in tracked THEN Cap(@ + 1, MissedCap) ELSE 0]
  /\ next' = next + 2
  /\ UNCHANGED <<phase, tracked, silent, age, balance, noticed>>

\* ctlPowerTelemetryGet fails, or the item is unsupported: `continue`, no sample.
IgclMiss ==
  /\ phase = "igcl" /\ next \in DOMAIN KeySeq
  /\ missed' = [missed EXCEPT ![KeySeq[next]] =
                  IF KeySeq[next] \in tracked THEN Cap(@ + 1, MissedCap) ELSE 0]
  /\ next' = next + 1
  /\ UNCHANGED <<phase, tracked, silent, age, balance, noticed>>

IgclDone ==
  /\ phase = "igcl" /\ next \notin DOMAIN KeySeq
  /\ phase' = IF AfterIgcl THEN "after" ELSE "idle"
  /\ UNCHANGED <<next, tracked, silent, age, missed, balance, noticed>>

Tick ==
  \/ \E gap \in Gaps : BeginTick(gap)
  \/ OtherSample("before", "igcl")
  \/ IgclSample
  \/ IgclMiss
  \/ IgclDone
  \/ OtherSample("after", "idle")

Next == Tick

\* The loop keeps ticking: it is one scheduled thread and its polls return.
Spec == Init /\ [][Next]_vars /\ WF_vars(Tick)
-----------------------------------------------------------------------------
TypeOK ==
  /\ phase \in {"idle", "before", "igcl", "after"}
  /\ next \in 1..(Len(KeySeq) + 1)
  /\ silent \subseteq tracked /\ tracked \subseteq Keys
  /\ age \in [Keys -> 0..Threshold]
  /\ missed \in [Keys -> 0..MissedCap]
  /\ balance \in [Keys -> Int]
  /\ noticed \in [Keys -> 0..MissedCap]

(***************************************************************************)
(* The reports about a key alternate: one "went silent" per episode, and a *)
(* "resumed" for each that ended, whichever collector's sample happens to  *)
(* find the silence.                                                       *)
(***************************************************************************)
OneReportPerEpisode ==
  \A k \in Keys : balance[k] = IF k \in silent THEN 1 ELSE 0

(***************************************************************************)
(* A source is not reported before the polls it missed, plus the tick in   *)
(* progress, can account for the threshold: with gaps of at most a third   *)
(* of it, two polls were missed.                                           *)
(***************************************************************************)
NotTooEarly ==
  \A k \in silent : (noticed[k] + 1) * Max(Gaps) >= Threshold

(***************************************************************************)
(* When a tick ends, every source whose missed polls add up to the         *)
(* threshold has been reported, although nothing calls the rule when no    *)
(* sample arrives.                                                         *)
(***************************************************************************)
NotTooLate ==
  phase = "idle" =>
    \A k \in tracked : missed[k] * Min(Gaps) >= Threshold => k \in silent

(***************************************************************************)
(* A source that misses a poll is reported sooner or later, unless it      *)
(* comes back first.                                                       *)
(***************************************************************************)
MissIsSettled ==
  \A k \in Keys : missed[k] > 0 ~> k \in silent \/ missed[k] = 0

=============================================================================
