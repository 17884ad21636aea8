------------------------------- MODULE Verdict -------------------------------
(***************************************************************************)
(* `b70tools verdict` reading the log that a run is still writing.         *)
(*                                                                         *)
(* The log holds a line only when a value changed (DeltaFilter), and the   *)
(* verdict looks only at the lines of the last seconds of the log.  It     *)
(* reads the file twice: once to find those seconds, once for the values.  *)
(* The writer may flush more ticks between the two passes.                 *)
(*                                                                         *)
(* The log is kept as one sequence of lines per stream, because the        *)
(* verdict never compares the places of two streams' lines.                *)
(***************************************************************************)
EXTENDS Integers, FiniteSets, FiniteSetsExt, Sequences

CONSTANTS
  Cards,         \* adapters with an id
  HealthyCard,   \* opts.healthy_adapter
  Rigs,          \* the sets of streams a rig may publish
  Sides,         \* what a tick chooses for a stream
  Levels,        \* stream -> side -> value of a gauge, or increment of a counter
  Start,         \* what the clock shows when the run begins
  MaxTicks,      \* bound on the ticks of a run
  Window,        \* opts.window_s
  MaxHost,       \* opts.max_host_used_gb
  MinLocal,      \* opts.min_per_card_local_gb
  MaxRatio,      \* opts.max_asymmetry_ratio, 0 when disabled
  MaxNonlocal,   \* opts.max_per_card_nonlocal_gb
  MinWatts,      \* opts.min_card0_avg_w
  MinActivity    \* opts.min_card0_activity_pct

None == -1     \* no value yet; no metric is negative
Counters == {"energy", "activity", "other"}

Host == [metric |-> "host_used", card |-> ""]
Other == [metric |-> "other", card |-> ""]
Local(c) == [metric |-> "local", card |-> c]
Nonlocal(c) == [metric |-> "nonlocal", card |-> c]
Energy == [metric |-> "energy", card |-> HealthyCard]
Activity == [metric |-> "activity", card |-> HealthyCard]
Streams == UNION Rigs

ASSUME StreamsAssumption ==
  Streams \subseteq {Host, Other, Energy, Activity} \cup {Local(c) : c \in Cards}
                    \cup {Nonlocal(c) : c \in Cards}
ASSUME CardsAssumption == IsFiniteSet(Cards)
ASSUME LevelsAssumption == \A st \in Streams, side \in Sides : Levels[st][side] \in Nat
ASSUME ClockAssumption == Start \in Nat /\ MaxTicks \in Nat /\ Window \in Nat
ASSUME LimitsAssumption ==
  {MaxHost, MinLocal, MaxRatio, MaxNonlocal, MinWatts, MinActivity} \subseteq Nat

VARIABLES
  rig,       \* the streams this rig publishes
  log,       \* stream -> its lines, each a value with the time of its tick
  trace,     \* history variable: tick -> the value in force of each stream
  reader,    \* where `verdict` is: "idle" or "between" its two passes
  window,    \* window_start and window_end
  ticksSeen, \* history variable: ticks flushed when pass 1 read the log
  issue      \* what the last verdict said

vars == <<rig, log, trace, reader, window, ticksSeen, issue>>

Now == Start + Len(trace)
ValueAt(st, tick) == IF tick = 0 THEN None ELSE trace[tick][st]
Number(v) == IF v = None THEN 0 ELSE v

-----------------------------------------------------------------------------
(***************************************************************************)
(* The writer.                                                             *)
(***************************************************************************)
\* Counters only grow.  A poll that fails publishes nothing: to the log that is a
\* value that did not change.
Reported(st, side) ==
  IF st.metric \in Counters THEN Number(ValueAt(st, Len(trace))) + Levels[st][side]
  ELSE Levels[st][side]

\* What a tick publishes, given a side for each stream of the rig.
Reading(sides) == [st \in Streams |-> IF st \in rig THEN Reported(st, sides[st]) ELSE None]

\* One tick: every stream that changed gets a line, then the log is flushed.
Tick(reading) ==
  /\ Len(trace) < MaxTicks
  /\ trace' = Append(trace, reading)
  /\ log' = [st \in Streams |->
               IF reading[st] = ValueAt(st, Len(trace)) THEN log[st]
               ELSE Append(log[st], [value |-> reading[st], ts |-> Now + 1])]
  /\ UNCHANGED <<rig, reader, window, ticksSeen, issue>>

-----------------------------------------------------------------------------
(***************************************************************************)
(* The reader.                                                             *)
(***************************************************************************)
Stamps == UNION {{log[st][i].ts : i \in DOMAIN log[st]} : st \in Streams}

\* Mutant of WindowOf: the start is not kept inside the file.
WindowOfUnclamped(stamps) == [first |-> Max(stamps) - Window, last |-> Max(stamps)]

WindowOf(stamps) ==
  LET last == Max(stamps)
  IN  [first |-> IF Window > 0 /\ last > Window THEN last - Window ELSE Min(stamps),
       last |-> last]

LinesOf(st) == IF st \in Streams THEN log[st] ELSE << >>

\* Mutants of InWindow: the end of the window is not tested; its start is left out.
InWindowToEnd(st) == {i \in DOMAIN LinesOf(st) : window.first <= LinesOf(st)[i].ts}
InWindowOpen(st) ==
  {i \in DOMAIN LinesOf(st) : window.first < LinesOf(st)[i].ts /\ LinesOf(st)[i].ts <= window.last}

\* Series::add_clamped_to_window: the lines of a stream that count.
InWindow(st) ==
  {i \in DOMAIN LinesOf(st) : window.first <= LinesOf(st)[i].ts /\ LinesOf(st)[i].ts <= window.last}

Known(st) == InWindow(st) # {}
FirstLine(st) == LinesOf(st)[Min(InWindow(st))]
LastLine(st) == LinesOf(st)[Max(InWindow(st))]
LastOf(st) == LastLine(st).value
Growth(st) == LastOf(st) - FirstLine(st).value

\* The work gate: both counters have two lines.  The time is the energy counter's,
\* for the activity too.
WorkSpan == LastLine(Energy).ts - FirstLine(Energy).ts
WorkKnown ==
  Cardinality(InWindow(Energy)) >= 2 /\ Cardinality(InWindow(Activity)) >= 2 /\ WorkSpan > 0
WorkOk ==
  /\ Growth(Energy) >= MinWatts * WorkSpan
  /\ 100 * Growth(Activity) >= MinActivity * WorkSpan

\* Mutant of VramKnown: one card is enough.
VramKnownOneCard == \E c \in Cards : Known(Local(c))

\* The VRAM gate: local commit of two cards; non_local only of those that have it.
LocalCards == {c \in Cards : Known(Local(c))}
VramKnown == Cardinality(LocalCards) >= 2

\* Enough on each card, not too uneven, nothing spilled.
VramOk ==
  /\ \A c \in LocalCards : LastOf(Local(c)) >= MinLocal
  /\ MaxRatio > 0 /\ (\A c \in LocalCards : LastOf(Local(c)) > 0) =>
       \A c, d \in LocalCards : LastOf(Local(c)) <= MaxRatio * LastOf(Local(d))
  /\ MaxNonlocal > 0 =>
       \A c \in Cards : Known(Nonlocal(c)) => LastOf(Nonlocal(c)) <= MaxNonlocal

\* The order of the gates: the host floor, then VRAM, then the card's work.
Issue ==
  CASE ~Known(Host)                             -> "no_host_samples"
    [] Known(Host) /\ LastOf(Host) > MaxHost    -> "host_ram"
    [] OTHER ->
       IF VramKnown THEN IF VramOk THEN "healthy" ELSE "vram"
       ELSE IF WorkKnown THEN IF WorkOk THEN "healthy" ELSE "card_work"
       ELSE "no_gate"

\* The exit codes of verdict.h.
ExitCode ==
  CASE issue = "healthy" -> 0
    [] issue \in {"host_ram", "vram", "card_work"} -> 2
    [] issue \in {"no_host_samples", "no_gate", "no_timestamps"} -> 3

\* Pass 1 finds no timestamp: exit 3 at once.
NoTimestamps ==
  /\ reader = "idle" /\ Stamps = {}
  /\ issue' = "no_timestamps"
  /\ UNCHANGED <<rig, log, trace, reader, window, ticksSeen>>

\* Pass 1 finds the last timestamp of the log as it is now.
PassOne ==
  /\ reader = "idle" /\ Stamps # {}
  /\ reader' = "between"
  /\ window' = WindowOf(Stamps)
  /\ ticksSeen' = Len(trace)
  /\ issue' = "pending"
  /\ UNCHANGED <<rig, log, trace>>

\* Pass 2 reads the log from its start, with whatever was flushed meanwhile.
PassTwo ==
  /\ reader = "between" /\ reader' = "idle"
  /\ issue' = Issue
  /\ UNCHANGED <<rig, log, trace, window, ticksSeen>>

-----------------------------------------------------------------------------
Init ==
  /\ rig \in Rigs
  /\ log = [st \in Streams |-> << >>]
  /\ trace = << >>
  /\ reader = "idle"
  /\ window = [first |-> 0, last |-> 0]
  /\ ticksSeen = 0
  /\ issue = "pending"

Next == (\E sides \in [rig -> Sides] : Tick(Reading(sides))) \/ NoTimestamps \/ PassOne \/ PassTwo

Spec == Init /\ [][Next]_vars
-----------------------------------------------------------------------------
Issues == {"healthy", "host_ram", "vram", "card_work", "no_host_samples", "no_gate",
           "no_timestamps"}

TypeOK ==
  /\ rig \in Rigs
  /\ trace \in Seq([Streams -> Nat \cup {None}])
  /\ log \in [Streams -> Seq([value : Nat, ts : Nat])]
  /\ reader \in {"idle", "between"}
  /\ window \in [first : Nat, last : Nat]
  /\ ticksSeen \in 0..Len(trace)
  /\ issue \in Issues \cup {"pending"}

\* What was in force when pass 1 read the log.
InForce(st) == IF st \in rig THEN ValueAt(st, ticksSeen) ELSE None
LocalsInForce == {InForce(Local(c)) : c \in Cards} \ {None}

(***************************************************************************)
(* A verdict that a memory limit is breached is true of the values in      *)
(* force when the window was chosen: neither suppressed lines nor ticks    *)
(* written between the two passes can raise a false alarm.                 *)
(* An imbalance of local commit is enough: whatever verdict.h:45-46 says,  *)
(* the asymmetry gate does not wait for elevated non-local commit.         *)
(***************************************************************************)
BreachIsReal ==
  /\ issue = "host_ram" => InForce(Host) > MaxHost
  /\ issue = "vram" =>
       \/ \E v \in LocalsInForce : v < MinLocal
       \/ MaxRatio > 0 /\ \E v, w \in LocalsInForce : v > MaxRatio * w
       \/ \E c \in Cards : InForce(Nonlocal(c)) # None /\ InForce(Nonlocal(c)) > MaxNonlocal

(***************************************************************************)
(* "healthy" is never a guess: the host is within its limit, and either    *)
(* two cards hold a part of the model, or the healthy card drew the power  *)
(* between two ticks of the window and worked, as much as the time between *)
(* these two asks for, between two others.                                 *)
(***************************************************************************)
TicksInWindow == {t \in 1..ticksSeen : window.first <= Start + t /\ Start + t <= window.last}

Grew(st, from, to) == Number(ValueAt(st, to)) - Number(ValueAt(st, from))

DrewPower(from, to) == from < to /\ Grew(Energy, from, to) >= MinWatts * (to - from)

CardWorked ==
  /\ Energy \in rig /\ Activity \in rig
  /\ \E from, to \in TicksInWindow :
       /\ DrewPower(from, to)
       /\ \E f, t \in TicksInWindow :
            f < t /\ 100 * Grew(Activity, f, t) >= MinActivity * (to - from)

HealthyIsWarranted ==
  issue = "healthy" =>
    /\ InForce(Host) # None /\ InForce(Host) <= MaxHost
    /\ \/ Cardinality({c \in Cards : InForce(Local(c)) # None
                                     /\ InForce(Local(c)) >= MinLocal}) >= 2
       \/ CardWorked

(***************************************************************************)
(* A rig whose host memory, and whose cards' memory or whose healthy       *)
(* card's two counters, keep moving inside the window is always judged.    *)
(***************************************************************************)
Moves(st) == {t \in TicksInWindow : st \in rig /\ ValueAt(st, t) # ValueAt(st, t - 1)}
CardsMove == Cardinality({c \in Cards : Moves(Local(c)) # {}}) >= 2
CountersMove == Cardinality(Moves(Energy)) >= 2 /\ Cardinality(Moves(Activity)) >= 2

BusyRigIsJudged ==
  issue # "pending" /\ Moves(Host) # {} /\ (CardsMove \/ CountersMove) => ExitCode # 3

-----------------------------------------------------------------------------
(***************************************************************************)
(* verdict.h: non-local commit is a hard safety floor, and exit code 0     *)
(* says that it is safe to proceed.                                        *)
(***************************************************************************)
HealthyMeansNoSpill ==
  issue = "healthy" =>
    \A c \in Cards : InForce(Nonlocal(c)) # None => InForce(Nonlocal(c)) <= MaxNonlocal
=============================================================================
