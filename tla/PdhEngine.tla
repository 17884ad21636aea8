------------------------------- MODULE PdhEngine -------------------------------
(***************************************************************************)
(* PdhGpuEngineCollector: the utilisation of an adapter from the running   *)
(* times that PDH counts per process and engine.  A poll adds up the       *)
(* processes of each engine, takes the difference to the sums of the last  *)
(* poll that could read them, and divides it by the time since the last    *)
(* poll that collected.  These two polls need not be the same.             *)
(***************************************************************************)
EXTENDS Integers, FiniteSets, FiniteSetsExt, Functions

CONSTANTS
  Adapters,        \* adapters of the run
  EnginesOf,       \* adapter -> its engines of a known family
  Processes,
  Full,            \* 100 per cent
  MaxClock         \* bound on the time, in poll cadences

ASSUME EnginesAssumption ==
  /\ DOMAIN EnginesOf = Adapters
  /\ \A a \in Adapters : IsFiniteSet(EnginesOf[a])
  /\ \A a, b \in Adapters : a # b => EnginesOf[a] \cap EnginesOf[b] = {}
ASSUME ProcessesAssumption == IsFiniteSet(Processes) /\ "none" \notin Processes
ASSUME BoundsAssumption == Full \in Nat \ {0} /\ MaxClock \in Nat \ {0}

Engines == UNION {EnginesOf[a] : a \in Adapters}

VARIABLES
  clock,     \* the tick's time stamp
  due,       \* the collector has not been polled in this tick
  alive,     \* processes with counter instances
  runtime,   \* engine -> process -> running time PDH counts
  prev,      \* prev_samples_: engine -> sum, for the engines that were read
  last,      \* last_collect_qpc_ns_, 0 for none
  pct,       \* what this tick's poll published, per adapter, or Nothing
  work,      \* history variable: time each engine has run since last
  stale,     \* history variable: engines of which prev is not the sum at last
  settled    \* history variable: no process has come or gone since prev was taken

vars == <<clock, due, alive, runtime, prev, last, pct, work, stale, settled>>

NoWork == [e \in Engines |-> 0]
Nothing == [a \in {} |-> 0]

\* init opens the query and primes it.
Init ==
  /\ clock = 1 /\ due = TRUE
  /\ alive \in SUBSET Processes
  /\ runtime \in [Engines -> [Processes -> {0, 1}]]
  /\ prev = [e \in {} |-> 0] /\ last = 0
  /\ pct = Nothing
  /\ work = NoWork /\ stale = Engines /\ settled = TRUE

-----------------------------------------------------------------------------
(***************************************************************************)
(* The machine: an engine runs one process at a time; a process that       *)
(* leaves takes its counter instances along, a new one starts at zero.     *)
(***************************************************************************)
Run ==
  /\ ~due /\ clock < MaxClock
  /\ clock' = clock + 1 /\ due' = TRUE
  /\ \E runs \in [Engines -> alive \cup {"none"}] :
       /\ runtime' = [e \in Engines |-> [p \in Processes |->
                        runtime[e][p] + IF runs[e] = p THEN 1 ELSE 0]]
       /\ work' = [e \in Engines |-> work[e] + IF runs[e] = "none" THEN 0 ELSE 1]
  /\ pct' = Nothing
  /\ UNCHANGED <<alive, prev, last, stale, settled>>

Start(p) ==
  /\ p \notin alive
  /\ alive' = alive \cup {p}
  /\ runtime' = [e \in Engines |-> [runtime[e] EXCEPT ![p] = 0]]
  /\ settled' = FALSE
  /\ UNCHANGED <<clock, due, prev, last, pct, work, stale>>

Exit(p) ==
  /\ p \in alive
  /\ alive' = alive \ {p}
  /\ settled' = FALSE
  /\ UNCHANGED <<clock, due, runtime, prev, last, pct, work, stale>>

-----------------------------------------------------------------------------
(***************************************************************************)
(* The poll.  Each instance is one process on one engine; some instances   *)
(* may carry a bad status and are skipped.                                 *)
(***************************************************************************)
Instances == Engines \X alive

\* The engines that have a readable instance, and the processes of these.
ReadEngines(items) == {item[1] : item \in items}
ReadOn(e, items) == {p \in alive : <<e, p>> \in items}

\* Mutant of Sum: the instances of an engine are not added up.
SumLargest(e, items) == Max({runtime[e][p] : p \in ReadOn(e, items)})

\* accumulate_engine: the instances of one engine added up.
Sum(e, items) == SumFunctionOnSet(runtime[e], ReadOn(e, items))

Window == IF last > 0 /\ clock > last THEN clock - last ELSE 0

AtMostFull(x) == IF x > Full THEN Full ELSE x

\* prev_samples_: an engine that it does not know starts at 0.
Before(e) == IF e \in DOMAIN prev THEN prev[e] ELSE 0

\* The share of the window an engine ran: zero without a window, never
\* negative, at most all of it.
EnginePct(e, items) ==
  LET delta == IF Sum(e, items) >= Before(e) THEN Sum(e, items) - Before(e) ELSE 0
  IN  IF Window = 0 THEN 0 ELSE AtMostFull((delta * Full) \div Window)

\* The engines of the adapter together.
Together(a, items) ==
  SumFunctionOnSet([e \in Engines |-> EnginePct(e, items)], EnginesOf[a] \cap ReadEngines(items))

\* Mutant of Emitted: the sum over the engines is not limited.
EmittedUnclamped(a, items) == Together(a, items)

\* emit_pct: at most 100 per cent.
Emitted(a, items) == AtMostFull(Together(a, items))

\* Mutant of CollectFails: the time of a poll that collected nothing is kept.
CollectFailsMoves ==
  /\ due /\ due' = FALSE
  /\ last' = clock /\ work' = NoWork
  /\ UNCHANGED <<clock, alive, runtime, prev, pct, stale, settled>>

\* PdhCollectQueryData fails: nothing changes, the window grows.
CollectFails ==
  /\ due /\ due' = FALSE
  /\ UNCHANGED <<clock, alive, runtime, prev, last, pct, work, stale, settled>>

\* The formatted array is empty or cannot be read: the window starts here, but
\* the sums are those of an earlier poll.
FetchFails ==
  /\ due /\ due' = FALSE
  /\ last' = clock /\ work' = NoWork
  /\ stale' = stale \cup {e \in Engines : work[e] > 0}
  /\ settled' = settled
  /\ UNCHANGED <<clock, alive, runtime, prev, pct>>

\* A poll that publishes.  No instance may be left: instances of engines of
\* another family keep the array from being empty.
Poll(items) ==
  /\ due /\ due' = FALSE
  /\ pct' = [a \in Adapters |-> Emitted(a, items)]
  /\ prev' = [e \in ReadEngines(items) |-> Sum(e, items)]
  /\ last' = clock /\ work' = NoWork
  /\ stale' = {i[1] : i \in Instances \ items}
  /\ settled' = TRUE
  /\ UNCHANGED <<clock, alive, runtime>>

\* Any number of instances may carry a bad status.
Readable == SUBSET Instances

Next ==
  \/ Run \/ CollectFails \/ FetchFails
  \/ \E p \in Processes : Start(p) \/ Exit(p)
  \/ due /\ \E items \in Readable : Poll(items)

Spec == Init /\ [][Next]_vars
-----------------------------------------------------------------------------
TypeOK ==
  /\ clock \in 1..MaxClock /\ last \in 0..clock /\ due \in BOOLEAN
  /\ alive \subseteq Processes
  /\ runtime \in [Engines -> [Processes -> 0..MaxClock]]
  /\ DOMAIN prev \subseteq Engines /\ \A e \in DOMAIN prev : prev[e] \in Nat
  /\ pct = Nothing \/ pct \in [Adapters -> 0..Full]
  /\ work \in [Engines -> 0..MaxClock] /\ stale \subseteq Engines /\ settled \in BOOLEAN

Publishes == pct = Nothing /\ pct' # Nothing

\* The share of the window an engine really ran, and the most that may be
\* published for it.
Share(e) == IF Window = 0 THEN 0 ELSE (work[e] * Full) \div Window
MostOf(e) == IF e \in stale /\ Window > 0 THEN Full ELSE Share(e)

(***************************************************************************)
(* A published utilisation is never more than the time the adapter's       *)
(* engines ran in its window, whatever polls failed to collect and         *)
(* whatever processes came or went.  The exception are engines with a      *)
(* process that could not be read at the last poll, or with work before a  *)
(* poll that collected and could not be read: their excess is unlimited,   *)
(* up to 100 per cent.                                                     *)
(***************************************************************************)
NeverOverstated ==
  [][Publishes => \A a \in Adapters :
       pct'[a] <= AtMostFull(SumFunctionOnSet([e \in Engines |-> MostOf(e)], EnginesOf[a]))]_vars

(***************************************************************************)
(* It is exact when all instances were read at both ends of the window and *)
(* no process came or went between: the engines' shares added up, at most  *)
(* 100 per cent; an adapter without instances reads 0.                     *)
(***************************************************************************)
ExactWhenSettled ==
  [][Publishes /\ settled /\ stale' = {} =>
       \A a \in Adapters : EnginesOf[a] \cap stale = {} =>
         pct'[a] = AtMostFull(SumFunctionOnSet([e \in Engines |-> Share(e)], EnginesOf[a]))]_vars
=============================================================================
