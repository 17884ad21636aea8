------------------------------ MODULE PollLoop ------------------------------
(***************************************************************************)
(* The collection loop of `b70tools run`: PollLoop::run_until_max_ticks    *)
(* with the Watchdog it drives, the SIGINT flag it watches and the         *)
(* after_tick hook that main.cc uses to flush the log.                     *)
(*                                                                         *)
(* One thread runs the loop.  A collector is known by its slot: the        *)
(* position add_collector gave it.  The watchdog has no thread of its own: *)
(* it learns how long a poll took only when that poll returns.             *)
(***************************************************************************)
EXTENDS Integers, Sequences

CONSTANTS
  NumSlots,             \* collectors whose init() succeeded
  Period,               \* Period[s]: slot s is polled every Period[s] ticks
  TickChoices,          \* what --ticks may say; 0 means "until Ctrl-C"
  TickBound,            \* bound on the ticks of an unlimited run
  TimeoutNs,            \* Watchdog::timeout_ns_
  Elapsed               \* the durations a poll may take, when it returns

Slots == 1..NumSlots

ASSUME NumSlotsAssumption == NumSlots \in Nat
ASSUME PeriodAssumption == Period \in [Slots -> Nat \ {0}]
ASSUME TicksAssumption == TickChoices \subseteq Nat /\ TickBound \in Nat
ASSUME TimeAssumption == TimeoutNs \in Nat /\ Elapsed \subseteq Nat

VARIABLES
  opts,         \* PollLoop::Options: fixed when the loop is built
  pc,           \* where the loop's thread is
  slot,         \* the slot the for-loop has reached
  ticksRun,     \* ticks_run_
  stop,         \* g_stop_requested
  consecutive,  \* Watchdog: consecutive_slow of each slot
  disabled,     \* Watchdog: slots whose entry is disabled
  pollCalls,    \* stats.poll_calls of each slot
  audits,       \* watchdog audit records published about each slot
  unflushed,    \* slots (0: start-up) with output still in the log's buffer
  history,      \* history variable: how each poll of a slot ended
  lateStarts    \* history variable: polls of a slot begun after the stop

wdVars == <<consecutive, disabled>>
vars == <<opts, pc, slot, ticksRun, stop, consecutive, disabled, pollCalls, audits,
          unflushed, history, lateStarts>>

Strikes == 3
Running == pc \in {"top", "slot", "polling", "sleep"}

(***************************************************************************)
(* The helpers of the loop and of the watchdog.                            *)
(***************************************************************************)
\* Mutant of Due: the first poll comes only after a whole period.
DueLate(s) == (ticksRun + 1) % Period[s] = 0

\* The period test of the for-loop: a slot with period p runs on ticks 0, p, 2p...
Due(s) == ticksRun % Period[s] = 0

\* Watchdog::note_end decides "slow" with >=, not >.
IsSlow(elapsed) == elapsed >= TimeoutNs

\* Mutants of StrikesAfter: a fast poll takes one strike back; it clears none.
StrikesAfterDecay(s, elapsed) == IF IsSlow(elapsed) THEN consecutive[s] + 1 ELSE consecutive[s] - 1
StrikesAfterNoReset(s, elapsed) == IF IsSlow(elapsed) THEN consecutive[s] + 1 ELSE consecutive[s]

\* Watchdog::note_end on consecutive_slow: a fast poll clears the strikes.
StrikesAfter(s, elapsed) == IF IsSlow(elapsed) THEN consecutive[s] + 1 ELSE 0

\* Mutant of DisabledAfter: > in place of >=.
DisabledAfterFour(s, elapsed) ==
  IF IsSlow(elapsed) /\ StrikesAfter(s, elapsed) > Strikes
    THEN disabled \cup {s} ELSE disabled

\* Watchdog::note_end on disabled: set at the third strike, never cleared.
DisabledAfter(s, elapsed) ==
  IF IsSlow(elapsed) /\ StrikesAfter(s, elapsed) >= Strikes
    THEN disabled \cup {s} ELSE disabled

\* The end of a tick: after_tick runs before the loop looks at its limits.
UnflushedAfterTick == IF opts.liveFlush THEN {} ELSE unflushed

ReachedMax(n) == opts.maxTicks # 0 /\ n >= opts.maxTicks

-----------------------------------------------------------------------------
\* run_real: an unlimited run flushes after every tick, a limited one on request.
OptionsFor(ticks, flushEveryTick, noSleep) ==
  [maxTicks |-> ticks, liveFlush |-> ticks = 0 \/ flushEveryTick, sleep |-> ~noSleep]

Init ==
  /\ \E ticks \in TickChoices, flushEveryTick, noSleep \in BOOLEAN :
       opts = OptionsFor(ticks, flushEveryTick, noSleep)
  /\ pc = "top" /\ slot = 1 /\ ticksRun = 0 /\ stop = FALSE
  /\ consecutive = [s \in Slots |-> 0]
  /\ disabled = {}
  /\ pollCalls = [s \in Slots |-> 0]
  /\ audits = [s \in Slots |-> 0]
  /\ unflushed = {0}
  /\ history = [s \in Slots |-> << >>]
  /\ lateStarts = [s \in Slots |-> 0]

\* The while condition and the first stop check, then `now` is read once for
\* the whole tick.  TickBound only caps an unlimited run.
BeginTick ==
  /\ pc = "top" /\ ~stop /\ ~ReachedMax(ticksRun)
  /\ opts.maxTicks = 0 => ticksRun < TickBound
  /\ pc' = "slot" /\ slot' = 1
  /\ UNCHANGED <<opts, ticksRun, stop, wdVars, pollCalls, audits, unflushed, history, lateStarts>>

\* The two ways the loop is left at the top of an iteration.
LeaveAtTop ==
  /\ pc = "top" /\ (stop \/ ReachedMax(ticksRun))
  /\ pc' = "done"
  /\ UNCHANGED <<opts, slot, ticksRun, stop, wdVars, pollCalls, audits, unflushed, history,
                 lateStarts>>

\* Mutant of SkipSlot: the loop does not advance over a slot it skips.
SkipSlotStuck ==
  /\ pc = "slot" /\ slot \in Slots
  /\ ~Due(slot) \/ slot \in disabled
  /\ UNCHANGED vars

\* `continue`: the slot is not due in this tick, or the watchdog disabled it.
SkipSlot ==
  /\ pc = "slot" /\ slot \in Slots
  /\ ~Due(slot) \/ slot \in disabled
  /\ slot' = slot + 1
  /\ UNCHANGED <<opts, pc, ticksRun, stop, wdVars, pollCalls, audits, unflushed, history,
                 lateStarts>>

\* Mutant of PollStart: the watchdog is not asked.
PollStartUnguarded ==
  /\ pc = "slot" /\ slot \in Slots /\ Due(slot)
  /\ pc' = "polling"
  /\ lateStarts' = IF stop THEN [lateStarts EXCEPT ![slot] = @ + 1] ELSE lateStarts
  /\ UNCHANGED <<opts, slot, ticksRun, stop, wdVars, pollCalls, audits, unflushed, history>>

\* note_start (an absent entry and a fresh one are the same) and the call of poll().
PollStart ==
  /\ pc = "slot" /\ slot \in Slots
  /\ Due(slot) /\ slot \notin disabled
  /\ pc' = "polling"
  /\ lateStarts' = IF stop THEN [lateStarts EXCEPT ![slot] = @ + 1] ELSE lateStarts
  /\ UNCHANGED <<opts, slot, ticksRun, stop, wdVars, pollCalls, audits, unflushed, history>>

\* Mutant of PollReturn: a slow poll is retried at once.
PollReturnRetry(elapsed) ==
  /\ pc = "polling"
  /\ pc' = "slot" /\ slot' = IF IsSlow(elapsed) THEN slot ELSE slot + 1
  /\ pollCalls' = [pollCalls EXCEPT ![slot] = @ + 1]
  /\ consecutive' = [consecutive EXCEPT ![slot] = StrikesAfter(slot, elapsed)]
  /\ disabled' = DisabledAfter(slot, elapsed)
  /\ audits' = IF slot \in disabled' THEN [audits EXCEPT ![slot] = @ + 1] ELSE audits
  /\ unflushed' = unflushed \cup {slot}
  /\ history' = [history EXCEPT ![slot] =
                   Append(@, IF IsSlow(elapsed) THEN "slow" ELSE "fast")]
  /\ UNCHANGED <<opts, ticksRun, stop, lateStarts>>

\* poll() returns: statistics, note_end and, on the third strike, one record.
PollReturn(elapsed) ==
  /\ pc = "polling"
  /\ pc' = "slot" /\ slot' = slot + 1
  /\ pollCalls' = [pollCalls EXCEPT ![slot] = @ + 1]
  /\ consecutive' = [consecutive EXCEPT ![slot] = StrikesAfter(slot, elapsed)]
  /\ disabled' = DisabledAfter(slot, elapsed)
  /\ audits' = IF slot \in disabled' THEN [audits EXCEPT ![slot] = @ + 1] ELSE audits
  /\ unflushed' = unflushed \cup {slot}
  /\ history' = [history EXCEPT ![slot] =
                   Append(@, IF IsSlow(elapsed) THEN "slow" ELSE "fast")]
  /\ UNCHANGED <<opts, ticksRun, stop, lateStarts>>

\* Mutant of EndTick: the last tick leaves the loop before after_tick.
EndTickBreaksFirst ==
  /\ pc = "slot" /\ slot = NumSlots + 1
  /\ ticksRun' = ticksRun + 1
  /\ unflushed' = IF ReachedMax(ticksRun + 1) \/ stop THEN unflushed ELSE UnflushedAfterTick
  /\ pc' = IF ReachedMax(ticksRun + 1) \/ stop THEN "done"
           ELSE IF opts.sleep THEN "sleep" ELSE "top"
  /\ UNCHANGED <<opts, slot, stop, wdVars, pollCalls, audits, history, lateStarts>>

\* The tail of an iteration: count, after_tick, the two breaks, then sleep.
EndTick ==
  /\ pc = "slot" /\ slot = NumSlots + 1
  /\ ticksRun' = ticksRun + 1
  /\ unflushed' = UnflushedAfterTick
  /\ pc' = IF ReachedMax(ticksRun + 1) \/ stop THEN "done"
           ELSE IF opts.sleep THEN "sleep" ELSE "top"
  /\ UNCHANGED <<opts, slot, stop, wdVars, pollCalls, audits, history, lateStarts>>

\* sleep_for returns; a stop request does not cut it short.
Wake ==
  /\ pc = "sleep" /\ pc' = "top"
  /\ UNCHANGED <<opts, slot, ticksRun, stop, wdVars, pollCalls, audits, unflushed, history,
                 lateStarts>>

\* The rest of run_real: shutdown of the collectors, then writer.close().
CloseRun ==
  /\ pc = "done" /\ pc' = "closed"
  /\ unflushed' = {}
  /\ UNCHANGED <<opts, slot, ticksRun, stop, wdVars, pollCalls, audits, history, lateStarts>>

\* handle_sigint, on a thread of the runtime, at any moment of the loop.
Interrupt ==
  /\ Running /\ ~stop
  /\ stop' = TRUE
  /\ UNCHANGED <<opts, pc, slot, ticksRun, wdVars, pollCalls, audits, unflushed, history, lateStarts>>

\* The process is ended from outside (Stop-Process, a vendor DLL's crash).
Kill ==
  /\ Running /\ pc' = "killed"
  /\ UNCHANGED <<opts, slot, ticksRun, stop, wdVars, pollCalls, audits, unflushed, history,
                 lateStarts>>

\* The program has exited; nothing more happens.
Exited == pc \in {"closed", "killed"} /\ UNCHANGED vars

\* What the loop's thread does by itself; a poll's return is up to the driver.
LoopStep == BeginTick \/ LeaveAtTop \/ SkipSlot \/ PollStart \/ EndTick \/ Wake \/ CloseRun
PollEnds == \E e \in Elapsed : PollReturn(e)
Next == LoopStep \/ PollEnds \/ Interrupt \/ Kill \/ Exited

\* The thread is scheduled; nothing says that a driver call ever returns.
Spec == Init /\ [][Next]_vars /\ WF_vars(LoopStep)

\* The same, when the drivers answer.
SpecPollsReturn == Spec /\ WF_vars(PollEnds)

-----------------------------------------------------------------------------
Ended == pc \in {"closed", "killed"}

TypeOK ==
  /\ opts \in [maxTicks : Nat, liveFlush : BOOLEAN, sleep : BOOLEAN]
  /\ pc \in {"top", "slot", "polling", "sleep", "done", "closed", "killed"}
  /\ slot \in 1..(NumSlots + 1)
  /\ pc = "polling" => slot \in Slots
  /\ ticksRun \in Nat /\ stop \in BOOLEAN
  /\ consecutive \in [Slots -> Nat]
  /\ disabled \subseteq Slots
  /\ pollCalls \in [Slots -> Nat]
  /\ audits \in [Slots -> Nat]
  /\ unflushed \subseteq {0} \cup Slots
  /\ history \in [Slots -> Seq({"slow", "fast"})]
  /\ lateStarts \in [Slots -> Nat]

(***************************************************************************)
(* The watchdog's counter is the length of the run of slow polls a slot's  *)
(* history ends with, and a slot is disabled exactly while that run has    *)
(* three polls: neither a slow poll of another slot nor an earlier run of  *)
(* its own that a fast poll ended can disable it (Watchdog::note_end).     *)
(***************************************************************************)
CountsTrailingRun(s) ==
  LET h == history[s]
      n == Len(h)
      k == consecutive[s]
  IN  /\ k <= n
      /\ \A i \in 1..n : i > n - k => h[i] = "slow"
      /\ k < n => h[n - k] = "fast"

StrikesMatchHistory ==
  \A s \in Slots :
    /\ CountsTrailingRun(s)
    /\ IF s \in disabled THEN consecutive[s] = Strikes ELSE consecutive[s] < Strikes

(***************************************************************************)
(* The log holds exactly one watchdog record for each disabled collector   *)
(* and none for the others, however many ticks follow the third strike     *)
(* (the second is_disabled test of run_until_max_ticks).                   *)
(***************************************************************************)
OneRecordPerDisabled ==
  \A s \in Slots : audits[s] = IF s \in disabled THEN 1 ELSE 0

(***************************************************************************)
(* Between ticks, a collector that is not disabled has been polled on      *)
(* every tick it was due, 0, p, 2p, ..., and on no other: neither a slow   *)
(* neighbour nor a disabled one costs it a poll.                           *)
(***************************************************************************)
NoPollMissed ==
  pc \in {"top", "sleep", "done"} =>
    \A s \in Slots \ disabled :
      pollCalls[s] = (ticksRun + Period[s] - 1) \div Period[s]

(***************************************************************************)
(* After Ctrl-C each collector is polled at most once more: the request    *)
(* may arrive anywhere, but no tick begins once one of the two checks of   *)
(* the flag, at the top of the loop and after after_tick, has seen it.     *)
(***************************************************************************)
OneLatePollAtMost == \A s \in Slots : lateStarts[s] <= 1

(***************************************************************************)
(* With live flush a process killed between two ticks, or after its last   *)
(* one, loses nothing: whatever was published is past the log's buffer.    *)
(***************************************************************************)
QuietMeansFlushed ==
  /\ opts.liveFlush /\ ticksRun > 0 /\ pc \in {"top", "sleep", "done"} => unflushed = {}
  /\ pc = "closed" => unflushed = {}

(***************************************************************************)
(* A run with --ticks, or one that received Ctrl-C, ends, unless a poll    *)
(* never returns; the bound of an unlimited run plays no part.             *)
(***************************************************************************)
Hung == pc = "polling"
RunEnds == (stop \/ opts.maxTicks # 0) ~> (Ended \/ []Hung)

(***************************************************************************)
(* The loop with its watchdog implements the promise of the abstract       *)
(* specification: retirement after three slow polls in a row, one          *)
(* announcement, no poll afterwards.                                       *)
(***************************************************************************)
Retirement == INSTANCE CollectorRetirement
                WITH Collectors <- Slots, retired <- disabled, announced <- audits
RetirementSpec == Retirement!Spec

(***************************************************************************)
(* docs/plan.md A.16: a watchdog detects a stall, marks the collector      *)
(* degraded and continues with the rest.  The code's watchdog runs on the  *)
(* thread that is stalled.                                                 *)
(***************************************************************************)
StalledPollIsLeft == (pc = "polling") ~> (pc # "polling")
=============================================================================
