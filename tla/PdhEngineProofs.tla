---------------------------- MODULE PdhEngineProofs ----------------------------
(***************************************************************************)
(* Proofs about PdhEngine.  What is published is a quotient of sums; the   *)
(* argument is about the sums: the running time that the live processes    *)
(* have on an engine is at most what prev knows of it plus the work since, *)
(* for every engine that is not stale, and equal to it while settled.      *)
(***************************************************************************)
EXTENDS PdhEngine, NumberSets

\* The running time of the live processes on an engine.
OnAlive(e) == SumFunctionOnSet(runtime[e], alive)

\* No counter is ahead of the clock.
CountersInTime ==
  /\ \A e \in Engines : work[e] <= clock /\ \A p \in Processes : runtime[e][p] <= clock
  /\ last > 0 => \A e \in Engines : work[e] <= clock - last

\* The counters of an engine that is not stale show at most its work.
CountersCovered == \A e \in Engines \ stale : OnAlive(e) <= Before(e) + work[e]

\* They show all of it while no process comes or goes.
CountersExact == settled => \A e \in Engines \ stale : OnAlive(e) = Before(e) + work[e]

PdhInv == TypeOK /\ CountersInTime /\ CountersCovered /\ CountersExact

-----------------------------------------------------------------------------
(***************************************************************************)
(* Quotients.                                                              *)
(***************************************************************************)
LEMMA ProductOrdered ==
  ASSUME NEW x \in Nat, NEW y \in Nat, x <= y, NEW m \in Nat
  PROVE  x * m \in Nat /\ y * m \in Nat /\ x * m <= y * m
OBVIOUS

LEMMA QuotientIsNatural ==
  ASSUME NEW x \in Nat, NEW w \in Nat, w > 0
  PROVE  x \div w \in Nat
OBVIOUS

LEMMA QuotientOrdered ==
  ASSUME NEW x \in Nat, NEW y \in Nat, x <= y, NEW w \in Nat, w > 0
  PROVE  x \div w <= y \div w
OBVIOUS

LEMMA QuotientBounded ==
  ASSUME NEW w \in Nat, w > 0, NEW m \in Nat
  PROVE  (w * m) \div w = m
OBVIOUS

LEMMA ShareOrdered ==
  ASSUME NEW x \in Nat, NEW y \in Nat, x <= y, NEW w \in Nat, w > 0
  PROVE  /\ (x * Full) \div w \in Nat /\ (y * Full) \div w \in Nat
         /\ (x * Full) \div w <= (y * Full) \div w
<1>1. Full \in Nat
  BY BoundsAssumption
<1>2. x * Full \in Nat /\ y * Full \in Nat /\ x * Full <= y * Full
  BY <1>1, ProductOrdered
<1> QED
  BY <1>2, QuotientIsNatural, QuotientOrdered

LEMMA ShareAtMostFull ==
  ASSUME NEW x \in Nat, NEW w \in Nat, x <= w, w > 0
  PROVE  (x * Full) \div w <= Full
<1>1. Full \in Nat
  BY BoundsAssumption
<1>2. (x * Full) \div w <= (w * Full) \div w
  BY ShareOrdered
<1>3. (w * Full) \div w = Full
  BY <1>1, QuotientBounded
<1> QED
  BY <1>2, <1>3

-----------------------------------------------------------------------------
(***************************************************************************)
(* The sums of a state.                                                    *)
(***************************************************************************)
LEMMA TermsAreNatural ==
  ASSUME TypeOK
  PROVE  /\ IsFiniteSet(alive)
         /\ \A e \in Engines : \A p \in alive : runtime[e][p] \in Nat
<1>1. IsFiniteSet(alive)
  BY ProcessesAssumption, FS_Subset DEF TypeOK
<1>2. \A e \in Engines : \A p \in Processes : runtime[e][p] \in 0..MaxClock
  BY DEF TypeOK
<1>3. alive \subseteq Processes /\ 0..MaxClock \subseteq Nat
  BY BoundsAssumption DEF TypeOK
<1> QED
  BY <1>1, <1>2, <1>3

LEMMA OnAliveIsNatural ==
  ASSUME TypeOK, NEW e \in Engines
  PROVE  OnAlive(e) \in Nat
BY TermsAreNatural, SumIsNatural DEF OnAlive

LEMMA BeforeIsNatural ==
  ASSUME TypeOK, NEW e \in Engines
  PROVE  Before(e) \in Nat /\ work[e] \in Nat
<1>1. work[e] \in Nat
  BY BoundsAssumption DEF TypeOK
<1>2. Before(e) \in Nat
  BY DEF TypeOK, Before
<1> QED
  BY <1>1, <1>2

\* What a poll adds up is part of the counters of the live processes.
LEMMA SumIsPart ==
  ASSUME TypeOK, NEW e \in Engines, NEW items
  PROVE  Sum(e, items) \in Nat /\ Sum(e, items) <= OnAlive(e)
<1>1. ReadOn(e, items) \in SUBSET alive
  BY DEF ReadOn
<1>2. IsFiniteSet(alive) /\ \A p \in alive : runtime[e][p] \in Nat
  BY TermsAreNatural
<1>3. SumFunctionOnSet(runtime[e], ReadOn(e, items)) <= SumFunctionOnSet(runtime[e], alive)
  BY <1>1, <1>2, SumOfPart
<1>4. IsFiniteSet(ReadOn(e, items)) /\ \A p \in ReadOn(e, items) : runtime[e][p] \in Nat
  BY <1>1, <1>2, FS_Subset
<1>5. SumFunctionOnSet(runtime[e], ReadOn(e, items)) \in Nat
  BY <1>4, SumIsNatural
<1> QED
  BY <1>3, <1>5 DEF Sum, OnAlive

\* All of it when every instance of the engine is readable.
LEMMA SumIsAll ==
  ASSUME NEW e \in Engines, NEW items, \A p \in alive : <<e, p>> \in items
  PROVE  Sum(e, items) = OnAlive(e)
<1>1. ReadOn(e, items) = alive
  BY DEF ReadOn
<1> QED
  BY <1>1 DEF Sum, OnAlive

\* An engine with a readable instance is read.
LEMMA ReadIfInstance ==
  ASSUME NEW e, NEW p, NEW items, <<e, p>> \in items
  PROVE  e \in ReadEngines(items)
<1>1. <<e, p>>[1] = e
  OBVIOUS
<1> QED
  BY <1>1 DEF ReadEngines

LEMMA WindowIsNatural ==
  ASSUME TypeOK
  PROVE  Window \in Nat /\ (Window # 0 => last > 0 /\ Window = clock - last)
BY BoundsAssumption DEF TypeOK, Window

\* What the poll publishes for an engine.
LEMMA EnginePctType ==
  ASSUME TypeOK, NEW e \in Engines, NEW items
  PROVE  EnginePct(e, items) \in Nat /\ EnginePct(e, items) <= Full
<1> DEFINE delta == IF Sum(e, items) >= Before(e) THEN Sum(e, items) - Before(e) ELSE 0
<1>1. delta \in Nat
  BY SumIsPart, BeforeIsNatural
<1>2. Window \in Nat /\ Full \in Nat
  BY WindowIsNatural, BoundsAssumption
<1>3. Window # 0 => (delta * Full) \div Window \in Nat
  BY <1>1, <1>2, ShareOrdered
<1>4. EnginePct(e, items) = IF Window = 0 THEN 0 ELSE AtMostFull((delta * Full) \div Window)
  BY DEF EnginePct
<1> HIDE DEF delta
<1> DEFINE share == (delta * Full) \div Window
<1> HIDE DEF share
<1>5. AtMostFull(share) = IF share > Full THEN Full ELSE share
  BY DEF AtMostFull
<1>6. (Window # 0 => share \in Nat) /\ EnginePct(e, items) = IF Window = 0 THEN 0 ELSE AtMostFull(share)
  BY <1>3, <1>4 DEF share
<1> QED
  BY <1>2, <1>5, <1>6

LEMMA EnginesFinite ==
  ASSUME NEW a \in Adapters
  PROVE  /\ IsFiniteSet(EnginesOf[a]) /\ EnginesOf[a] \subseteq Engines
         /\ \A T \in SUBSET EnginesOf[a] : IsFiniteSet(T)
BY EnginesAssumption, FS_Subset DEF Engines

LEMMA TogetherIsNatural ==
  ASSUME TypeOK, NEW a \in Adapters, NEW items
  PROVE  Together(a, items) \in Nat
<1> DEFINE T == EnginesOf[a] \cap ReadEngines(items)
           F == [e \in Engines |-> EnginePct(e, items)]
<1>1. IsFiniteSet(T) /\ T \subseteq Engines
  BY EnginesFinite
<1>2. \A e \in T : F[e] \in Nat
  BY <1>1, EnginePctType
<1> HIDE DEF T, F
<1>3. SumFunctionOnSet(F, T) \in Nat
  BY <1>1, <1>2, SumIsNatural
<1> QED
  BY <1>3 DEF Together, T, F

LEMMA EmittedType ==
  ASSUME TypeOK, NEW a \in Adapters, NEW items
  PROVE  Emitted(a, items) \in 0..Full
<1>1. Together(a, items) \in Nat /\ Full \in Nat
  BY TogetherIsNatural, BoundsAssumption
<1> QED
  BY <1>1 DEF Emitted, AtMostFull

-----------------------------------------------------------------------------
(***************************************************************************)
(* The invariant, action by action.                                        *)
(***************************************************************************)
LEMMA PdhInit == Init => PdhInv
<1> SUFFICES ASSUME Init
             PROVE  PdhInv
  OBVIOUS
<1>1. TypeOK
  BY BoundsAssumption DEF Init, TypeOK, NoWork, Nothing
<1>2. CountersInTime
  BY DEF Init, CountersInTime, NoWork
<1>3. CountersCovered /\ CountersExact
  BY DEF Init, CountersCovered, CountersExact
<1> QED
  BY <1>1, <1>2, <1>3 DEF PdhInv

\* The counters of an engine after one cadence.
LEMMA RunOneEngine ==
  ASSUME TypeOK, Run, NEW e \in Engines
  PROVE  \/ OnAlive(e)' = OnAlive(e) + 1 /\ work'[e] = work[e] + 1
         \/ OnAlive(e)' = OnAlive(e) /\ work'[e] = work[e]
<1> PICK runs \in [Engines -> alive \cup {"none"}] :
      /\ runtime' = [f \in Engines |-> [p \in Processes |->
                       runtime[f][p] + IF runs[f] = p THEN 1 ELSE 0]]
      /\ work' = [f \in Engines |-> work[f] + IF runs[f] = "none" THEN 0 ELSE 1]
  BY DEF Run
<1>1. alive' = alive /\ alive \subseteq Processes /\ work[e] \in Nat
  BY BeforeIsNatural DEF Run, TypeOK
<1>2. IsFiniteSet(alive) /\ \A p \in alive : runtime[e][p] \in Nat
  BY TermsAreNatural
<1>3. OnAlive(e) \in Nat
  BY OnAliveIsNatural
<1>4. runs[e] \in alive \/ runs[e] = "none"
  OBVIOUS
<1>5. ASSUME NEW r \in alive, runs[e] = r
      PROVE  OnAlive(e)' = OnAlive(e) + 1 /\ work'[e] = work[e] + 1
  <2>1. r # "none"
    BY <1>1, ProcessesAssumption
  <2>2. work'[e] = work[e] + 1
    BY <1>5, <2>1
  <2>3. runtime'[e][r] = runtime[e][r] + 1
    BY <1>1, <1>5
  <2>4. \A p \in alive \ {r} : runtime'[e][p] = runtime[e][p]
    BY <1>1, <1>2, <1>5
  <2>5. SumFunctionOnSet(runtime'[e], alive) = SumFunctionOnSet(runtime[e], alive) + 1
    BY <1>2, <2>3, <2>4, SumOneUp
  <2> QED
    BY <1>1, <2>2, <2>5 DEF OnAlive
<1>6. ASSUME runs[e] = "none"
      PROVE  OnAlive(e)' = OnAlive(e) /\ work'[e] = work[e]
  <2>1. \A p \in alive : p # "none"
    BY <1>1, ProcessesAssumption
  <2>2. \A p \in alive : runtime[e][p] \in Nat /\ runtime[e][p] = runtime'[e][p]
    BY <1>1, <1>2, <1>6, <2>1
  <2>3. SumFunctionOnSet(runtime[e], alive) = SumFunctionOnSet(runtime'[e], alive)
    <3> DEFINE F == runtime[e]
               G == runtime'[e]
    <3>1. \A p \in alive : F[p] \in Nat /\ F[p] = G[p]
      BY <2>2
    <3> HIDE DEF F, G
    <3>2. SumFunctionOnSet(F, alive) = SumFunctionOnSet(G, alive)
      BY <1>2, <3>1, SumOfSame
    <3> QED
      BY <3>2 DEF F, G
  <2>4. work'[e] = work[e]
    BY <1>1, <1>6
  <2> QED
    BY <1>1, <2>3, <2>4 DEF OnAlive
<1> QED
  BY <1>1, <1>3, <1>4, <1>5, <1>6

LEMMA RunKeeps == ASSUME PdhInv, Run PROVE PdhInv'
<1>1. TypeOK /\ CountersInTime /\ CountersCovered /\ CountersExact
  BY DEF PdhInv
<1>2. /\ clock \in Nat /\ clock < MaxClock /\ clock' = clock + 1 /\ last' = last /\ last \in Nat
      /\ last <= clock /\ MaxClock \in Nat
  BY <1>1, BoundsAssumption DEF Run, TypeOK
<1>3. \A e \in Engines : work[e] \in Nat /\ (work'[e] = work[e] \/ work'[e] = work[e] + 1)
  BY <1>1, RunOneEngine, BeforeIsNatural
<1>4. \A e \in Engines : work'[e] \in Nat /\ work'[e] <= clock' /\ (last > 0 => work'[e] <= clock' - last)
  BY <1>1, <1>2, <1>3 DEF CountersInTime
<1>5. work' \in [Engines -> 0..MaxClock]
  <2>1. \A e \in Engines : work'[e] \in 0..MaxClock
    BY <1>2, <1>4
  <2>2. \E runs : work' = [e \in Engines |-> work[e] + IF runs[e] = "none" THEN 0 ELSE 1]
    BY DEF Run
  <2> QED
    BY <2>1, <2>2
<1>6. /\ \A e \in Engines : \A p \in Processes : runtime'[e][p] \in 0..clock'
      /\ runtime' \in [Engines -> [Processes -> 0..MaxClock]]
  <2> PICK runs : runtime' = [e \in Engines |-> [p \in Processes |->
                                runtime[e][p] + IF runs[e] = p THEN 1 ELSE 0]]
    BY DEF Run
  <2>1. \A e \in Engines : \A p \in Processes : runtime[e][p] \in 0..clock
    BY <1>1, <1>2 DEF TypeOK, CountersInTime
  <2>2. \A e \in Engines : \A p \in Processes : runtime'[e][p] \in 0..clock'
    BY <1>2, <2>1
  <2>3. 0..clock' \subseteq 0..MaxClock
    BY <1>2
  <2>4. \A e \in Engines : \A p \in Processes : runtime'[e][p] \in 0..MaxClock
    BY <2>2, <2>3
  <2> QED
    BY <2>2, <2>4
<1>7. TypeOK'
  <2>1. /\ pct' = Nothing /\ due' \in BOOLEAN /\ UNCHANGED <<alive, prev, stale, settled>>
    BY DEF Run
  <2>2. clock' \in 1..MaxClock /\ last' \in 0..clock'
    BY <1>2
  <2> QED
    BY <1>1, <1>5, <1>6, <2>1, <2>2 DEF TypeOK
<1>8. CountersInTime'
  BY <1>2, <1>4, <1>6 DEF CountersInTime
<1>9. \A e \in Engines : /\ OnAlive(e) \in Nat /\ Before(e) \in Nat /\ Before(e)' = Before(e)
                         /\ \/ OnAlive(e)' = OnAlive(e) + 1 /\ work'[e] = work[e] + 1
                            \/ OnAlive(e)' = OnAlive(e) /\ work'[e] = work[e]
  BY <1>1, OnAliveIsNatural, BeforeIsNatural, RunOneEngine DEF Run, Before
<1>10. stale' = stale /\ settled' = settled
  BY DEF Run
<1>11. CountersCovered'
  BY <1>1, <1>3, <1>9, <1>10 DEF CountersCovered
<1>12. CountersExact'
  BY <1>1, <1>3, <1>9, <1>10 DEF CountersExact
<1> QED
  BY <1>7, <1>8, <1>11, <1>12 DEF PdhInv

\* A process that starts has run on no engine.
LEMMA StartKeeps == ASSUME PdhInv, NEW p \in Processes, Start(p) PROVE PdhInv'
<1>1. TypeOK /\ CountersInTime /\ CountersCovered
  BY DEF PdhInv
<1>2. /\ runtime' = [e \in Engines |-> [runtime[e] EXCEPT ![p] = 0]]
      /\ p \notin alive /\ alive' = alive \cup {p} /\ settled' = FALSE
      /\ UNCHANGED <<clock, due, prev, last, pct, work, stale>>
  BY DEF Start
<1>3. \A e \in Engines : /\ runtime'[e] = [runtime[e] EXCEPT ![p] = 0]
                         /\ runtime[e] \in [Processes -> 0..MaxClock]
  BY <1>1, <1>2 DEF TypeOK
<1>4. runtime' \in [Engines -> [Processes -> 0..MaxClock]]
  <2>1. \A e \in Engines : [runtime[e] EXCEPT ![p] = 0] \in [Processes -> 0..MaxClock]
    <3>1. 0 \in 0..MaxClock
      BY BoundsAssumption
    <3> QED
      BY <1>3, <3>1
  <2> QED
    BY <1>2, <2>1
<1>5. TypeOK'
  BY <1>1, <1>2, <1>4 DEF TypeOK
<1>6. CountersInTime'
  <2>1. \A e \in Engines : \A q \in Processes : runtime'[e][q] = IF q = p THEN 0 ELSE runtime[e][q]
    BY <1>3
  <2>2. clock \in Nat
    BY <1>1, BoundsAssumption DEF TypeOK
  <2> QED
    BY <1>1, <1>2, <2>1, <2>2 DEF CountersInTime
<1>7. ASSUME NEW e \in Engines
      PROVE  OnAlive(e)' = OnAlive(e)
  <2>1. /\ \A q \in alive : runtime'[e][q] = runtime[e][q] /\ runtime[e][q] \in Nat
        /\ runtime'[e][p] = 0 /\ IsFiniteSet(alive)
    BY <1>1, <1>2, <1>3, TermsAreNatural DEF TypeOK
  <2>2. SumFunctionOnSet(runtime'[e], alive) = SumFunctionOnSet(runtime[e], alive)
    BY <2>1, SumOfSame
  <2>3. IsFiniteSet(alive') /\ \A q \in alive' : runtime'[e][q] \in Nat
    BY <1>5, TermsAreNatural, <1>2, <2>1, FS_AddElement
  <2>4. p \in alive' /\ alive' \ {p} = alive
    BY <1>2
  <2>5. SumFunctionOnSet(runtime'[e], alive') = runtime'[e][p] + SumFunctionOnSet(runtime'[e], alive' \ {p})
    BY <2>3, <2>4, SumOfOne
  <2>6. SumFunctionOnSet(runtime[e], alive) \in Nat
    BY <2>1, SumIsNatural
  <2> QED
    BY <2>1, <2>2, <2>4, <2>5, <2>6 DEF OnAlive
<1>8. CountersCovered'
  BY <1>1, <1>2, <1>7 DEF CountersCovered, Before
<1> QED
  BY <1>2, <1>5, <1>6, <1>8 DEF PdhInv, CountersExact

\* A process that leaves takes its share of the counters along.
LEMMA ExitKeeps == ASSUME PdhInv, NEW p \in Processes, Exit(p) PROVE PdhInv'
<1>1. TypeOK /\ CountersInTime /\ CountersCovered
  BY DEF PdhInv
<1>2. /\ alive' = alive \ {p} /\ settled' = FALSE
      /\ UNCHANGED <<clock, due, runtime, prev, last, pct, work, stale>>
  BY DEF Exit
<1>3. TypeOK' /\ CountersInTime'
  BY <1>1, <1>2 DEF TypeOK, CountersInTime
<1>4. ASSUME NEW e \in Engines
      PROVE  OnAlive(e)' <= OnAlive(e) /\ OnAlive(e) \in Nat /\ OnAlive(e)' \in Nat
  <2>1. IsFiniteSet(alive) /\ \A q \in alive : runtime[e][q] \in Nat
    BY <1>1, TermsAreNatural
  <2>2. SumFunctionOnSet(runtime[e], alive \ {p}) <= SumFunctionOnSet(runtime[e], alive)
    BY <2>1, SumOfPart
  <2>3. IsFiniteSet(alive \ {p}) /\ \A q \in alive \ {p} : runtime[e][q] \in Nat
    BY <2>1, FS_Subset
  <2>4. /\ SumFunctionOnSet(runtime[e], alive \ {p}) \in Nat
        /\ SumFunctionOnSet(runtime[e], alive) \in Nat
    BY <2>1, <2>3, SumIsNatural
  <2> QED
    BY <1>2, <2>2, <2>4 DEF OnAlive
<1>5. \A e \in Engines : Before(e) \in Nat /\ work[e] \in Nat /\ Before(e)' = Before(e)
  BY <1>1, <1>2, BeforeIsNatural DEF Before
<1>6. CountersCovered'
  BY <1>1, <1>2, <1>4, <1>5 DEF CountersCovered
<1> QED
  BY <1>2, <1>3, <1>6 DEF PdhInv, CountersExact

LEMMA CollectFailsKeeps == ASSUME PdhInv, CollectFails PROVE PdhInv'
<1>1. UNCHANGED <<clock, alive, runtime, prev, last, pct, work, stale, settled>> /\ due' = FALSE
  BY DEF CollectFails
<1>2. \A e : OnAlive(e)' = OnAlive(e) /\ Before(e)' = Before(e)
  BY <1>1 DEF OnAlive, Before
<1> QED
  BY <1>1, <1>2 DEF PdhInv, TypeOK, CountersInTime, CountersCovered, CountersExact

\* The sums stay those of an earlier poll: engines with work since are stale.
LEMMA FetchFailsKeeps == ASSUME PdhInv, FetchFails PROVE PdhInv'
<1>1. TypeOK /\ CountersInTime /\ CountersCovered /\ CountersExact
  BY DEF PdhInv
<1>2. /\ last' = clock /\ work' = NoWork /\ due' = FALSE
      /\ stale' = stale \cup {e \in Engines : work[e] > 0}
      /\ UNCHANGED <<clock, alive, runtime, prev, pct, settled>>
  BY DEF FetchFails
<1>3. clock \in Nat /\ \A e \in Engines : work'[e] = 0 /\ work[e] \in Nat
  BY <1>1, <1>2, BoundsAssumption, BeforeIsNatural DEF NoWork, TypeOK
<1>4. work' \in [Engines -> 0..MaxClock]
  BY <1>2, BoundsAssumption DEF NoWork
<1>5. TypeOK'
  <2>1. last' \in 0..clock' /\ stale' \subseteq Engines
    BY <1>1, <1>2, <1>3 DEF TypeOK
  <2> QED
    BY <1>1, <1>2, <1>4, <2>1 DEF TypeOK
<1>6. CountersInTime'
  BY <1>1, <1>2, <1>3 DEF CountersInTime
<1>7. \A e : OnAlive(e)' = OnAlive(e) /\ Before(e)' = Before(e)
  BY <1>2 DEF OnAlive, Before
<1>8. \A e \in Engines \ stale' : e \in Engines \ stale /\ work[e] = 0 /\ work'[e] = 0
  BY <1>2, <1>3
<1>9. CountersCovered' /\ CountersExact'
  BY <1>1, <1>2, <1>7, <1>8 DEF CountersCovered, CountersExact
<1> QED
  BY <1>5, <1>6, <1>9 DEF PdhInv

\* After a poll that publishes prev holds all the live counters of an engine
\* that is not stale.
LEMMA PollKeeps == ASSUME PdhInv, NEW items \in Readable, Poll(items) PROVE PdhInv'
<1>1. TypeOK /\ CountersInTime
  BY DEF PdhInv
<1>2. /\ pct' = [a \in Adapters |-> Emitted(a, items)]
      /\ prev' = [e \in ReadEngines(items) |-> Sum(e, items)]
      /\ last' = clock /\ work' = NoWork /\ due' = FALSE
      /\ stale' = {i[1] : i \in Instances \ items} /\ settled' = TRUE
      /\ UNCHANGED <<clock, alive, runtime>>
  BY DEF Poll
<1>3. items \subseteq Instances
  BY DEF Readable
<1>4. \A e \in ReadEngines(items) : e \in Engines
  BY <1>3 DEF ReadEngines, Instances
<1>5. clock \in Nat /\ \A e \in Engines : work'[e] = 0
  BY <1>1, <1>2, BoundsAssumption DEF NoWork, TypeOK
<1>6. work' \in [Engines -> 0..MaxClock]
  BY <1>2, BoundsAssumption DEF NoWork
<1>7. TypeOK'
  <2>1. DOMAIN prev' \subseteq Engines /\ \A e \in DOMAIN prev' : prev'[e] \in Nat
    BY <1>1, <1>2, <1>4, SumIsPart
  <2>2. pct' \in [Adapters -> 0..Full]
    BY <1>1, <1>2, EmittedType
  <2>3. last' \in 0..clock'
    BY <1>2, <1>5
  <2>4. stale' \subseteq Engines
    BY <1>2 DEF Instances
  <2> QED
    BY <1>1, <1>2, <1>6, <2>1, <2>2, <2>3, <2>4 DEF TypeOK
<1>8. CountersInTime'
  BY <1>1, <1>2, <1>5 DEF CountersInTime
<1>9. ASSUME NEW e \in Engines \ stale'
      PROVE  OnAlive(e)' = Before(e)'
  <2>1. \A p \in alive : <<e, p>> \in items
    BY <1>2 DEF Instances
  <2>2. Sum(e, items) = OnAlive(e) /\ OnAlive(e)' = OnAlive(e)
    BY <1>2, <2>1, SumIsAll DEF OnAlive
  <2>3. CASE e \in ReadEngines(items)
    BY <1>2, <2>2, <2>3 DEF Before
  <2>4. CASE e \notin ReadEngines(items)
    <3>1. alive = {}
      BY <2>1, <2>4, ReadIfInstance
    <3>2. OnAlive(e) = 0
      BY <3>1, SumOfNone DEF OnAlive
    <3> QED
      BY <1>2, <2>2, <2>4, <3>2 DEF Before
  <2> QED
    BY <2>3, <2>4
<1>10. \A e \in Engines \ stale' : Before(e)' \in Nat /\ work'[e] = 0
  <2>1. \A e \in Engines : OnAlive(e) \in Nat /\ OnAlive(e)' = OnAlive(e)
    BY <1>1, <1>2, OnAliveIsNatural DEF OnAlive
  <2> QED
    BY <1>5, <1>9, <2>1
<1>11. CountersCovered' /\ CountersExact'
  BY <1>9, <1>10 DEF CountersCovered, CountersExact
<1> QED
  BY <1>7, <1>8, <1>11 DEF PdhInv

LEMMA PdhNext == PdhInv /\ [Next]_vars => PdhInv'
<1> SUFFICES ASSUME PdhInv, [Next]_vars
             PROVE  PdhInv'
  OBVIOUS
<1>1. CASE Run
  BY <1>1, RunKeeps
<1>2. CASE CollectFails
  BY <1>2, CollectFailsKeeps
<1>3. CASE FetchFails
  BY <1>3, FetchFailsKeeps
<1>4. CASE \E p \in Processes : Start(p)
  BY <1>4, StartKeeps
<1>5. CASE \E p \in Processes : Exit(p)
  BY <1>5, ExitKeeps
<1>6. CASE \E items \in Readable : Poll(items)
  BY <1>6, PollKeeps
<1>7. CASE UNCHANGED vars
  <2>1. \A e : OnAlive(e)' = OnAlive(e) /\ Before(e)' = Before(e)
    BY <1>7 DEF OnAlive, Before, vars
  <2> QED
    BY <1>7, <2>1 DEF PdhInv, TypeOK, CountersInTime, CountersCovered, CountersExact, vars
<1> QED
  BY <1>1, <1>2, <1>3, <1>4, <1>5, <1>6, <1>7 DEF Next

-----------------------------------------------------------------------------
\* In every reachable state no counter is ahead of the clock, and the counters
\* of the live processes show at most the work since the sums were taken, all
\* of it while settled: accumulate_engine and prev_samples_ for any number of
\* engines, processes, cadences and failed polls.
THEOREM PdhInvariant == Spec => []PdhInv
<1> QED
  BY PdhInit, PdhNext, PTL DEF Spec

\* Every published utilisation is between 0 and 100 per cent, and the sums are
\* naturals of known engines (emit_pct, prev_samples_).
THEOREM PdhTypeCorrect == Spec => []TypeOK
<1>1. PdhInv => TypeOK
  BY DEF PdhInv
<1> QED
  BY <1>1, PdhInvariant, PTL

-----------------------------------------------------------------------------
(***************************************************************************)
(* What is published.                                                      *)
(***************************************************************************)
LEMMA OnlyPollPublishes ==
  ASSUME [Next]_vars, Publishes
  PROVE  \E items \in Readable : Poll(items)
BY DEF Next, Publishes, Run, CollectFails, FetchFails, Start, Exit, vars

LEMMA ShareIsNatural ==
  ASSUME TypeOK, NEW e \in Engines
  PROVE  Share(e) \in Nat
<1>1. Window \in Nat /\ work[e] \in Nat
  BY WindowIsNatural, BeforeIsNatural
<1>2. Window # 0 => (work[e] * Full) \div Window \in Nat
  BY <1>1, ShareOrdered
<1> QED
  BY <1>2 DEF Share

\* Of an engine that is not stale no more is published than it ran.
LEMMA EnginePctCovered ==
  ASSUME PdhInv, NEW e \in Engines \ stale, NEW items
  PROVE  EnginePct(e, items) <= Share(e)
<1> DEFINE delta == IF Sum(e, items) >= Before(e) THEN Sum(e, items) - Before(e) ELSE 0
           share == (delta * Full) \div Window
           whole == (work[e] * Full) \div Window
<1>1. TypeOK /\ OnAlive(e) <= Before(e) + work[e]
  BY DEF PdhInv, CountersCovered
<1>2. Sum(e, items) \in Nat /\ Sum(e, items) <= OnAlive(e) /\ OnAlive(e) \in Nat
  BY <1>1, SumIsPart, OnAliveIsNatural
<1>3. Before(e) \in Nat /\ work[e] \in Nat /\ Window \in Nat
  BY <1>1, BeforeIsNatural, WindowIsNatural
<1>4. delta \in Nat /\ delta <= work[e]
  BY <1>1, <1>2, <1>3
<1>5. EnginePct(e, items) = IF Window = 0 THEN 0 ELSE AtMostFull(share)
  BY DEF EnginePct
<1>6. Share(e) = IF Window = 0 THEN 0 ELSE whole
  BY DEF Share
<1> HIDE DEF delta
<1>7. Window # 0 => share \in Nat /\ whole \in Nat /\ share <= whole
  BY <1>3, <1>4, ShareOrdered
<1> HIDE DEF share, whole
<1>8. AtMostFull(share) = (IF share > Full THEN Full ELSE share) /\ Full \in Nat
  BY BoundsAssumption DEF AtMostFull
<1> QED
  BY <1>5, <1>6, <1>7, <1>8

LEMMA EnginePctAtMost ==
  ASSUME PdhInv, NEW e \in Engines, NEW items
  PROVE  /\ EnginePct(e, items) \in Nat /\ MostOf(e) \in Nat
         /\ EnginePct(e, items) <= MostOf(e)
<1>1. TypeOK
  BY DEF PdhInv
<1>2. EnginePct(e, items) \in Nat /\ EnginePct(e, items) <= Full /\ Full \in Nat /\ Share(e) \in Nat
  BY <1>1, EnginePctType, ShareIsNatural, BoundsAssumption
<1>3. Window \in Nat /\ (Window = 0 => EnginePct(e, items) = 0)
  BY <1>1, WindowIsNatural DEF EnginePct
<1>4. e \notin stale => EnginePct(e, items) <= Share(e)
  BY EnginePctCovered
<1> QED
  BY <1>2, <1>3, <1>4 DEF MostOf

LEMMA NeverOverstatedStep ==
  ASSUME PdhInv, [Next]_vars, Publishes, NEW a \in Adapters
  PROVE  pct'[a] <= AtMostFull(SumFunctionOnSet([e \in Engines |-> MostOf(e)], EnginesOf[a]))
<1> DEFINE S == EnginesOf[a]
           G == [e \in Engines |-> MostOf(e)]
<1> PICK items \in Readable : Poll(items)
  BY OnlyPollPublishes
<1> DEFINE T == S \cap ReadEngines(items)
           F == [e \in Engines |-> EnginePct(e, items)]
<1>1. pct'[a] = AtMostFull(SumFunctionOnSet(F, T))
  BY DEF Poll, Emitted, Together
<1>2. IsFiniteSet(S) /\ S \subseteq Engines /\ IsFiniteSet(T) /\ T \in SUBSET S
  BY EnginesFinite
<1>3. \A e \in S : F[e] \in Nat /\ G[e] \in Nat /\ F[e] <= G[e]
  BY <1>2, EnginePctAtMost
<1> HIDE DEF S, T, F, G
<1>4. SumFunctionOnSet(F, T) <= SumFunctionOnSet(F, S)
  BY <1>2, <1>3, SumOfPart
<1>5. SumFunctionOnSet(F, S) <= SumFunctionOnSet(G, S)
  BY <1>2, <1>3, SumIsMonotone
<1>6. \A e \in T : F[e] \in Nat
  BY <1>2, <1>3
<1>7. SumFunctionOnSet(F, T) \in Nat /\ SumFunctionOnSet(F, S) \in Nat /\ SumFunctionOnSet(G, S) \in Nat
  BY <1>2, <1>3, <1>6, SumIsNatural
<1>8. Full \in Nat
  BY BoundsAssumption
<1>9. AtMostFull(SumFunctionOnSet(F, T)) <= AtMostFull(SumFunctionOnSet(G, S))
  BY <1>4, <1>5, <1>7, <1>8 DEF AtMostFull
<1> QED
  BY <1>1, <1>9 DEF G, S

\* Whatever polls fail and whatever processes come and go, no adapter is
\* published busier than its engines were in the window, apart from the stale
\* ones (PdhGpuEngineCollector::poll).
THEOREM PdhNeverOverstated == Spec => NeverOverstated
<1> DEFINE Holds == Publishes => \A a \in Adapters :
             pct'[a] <= AtMostFull(SumFunctionOnSet([e \in Engines |-> MostOf(e)], EnginesOf[a]))
<1>1. PdhInv /\ [Next]_vars => Holds
  BY NeverOverstatedStep
<1>2. PdhInv /\ [Next]_vars => [Holds]_vars
  BY <1>1
<1> HIDE DEF Holds
<1>3. Spec => [][Holds]_vars
  BY <1>2, PdhInvariant, PTL DEF Spec
<1> QED
  BY <1>3 DEF NeverOverstated, Holds

-----------------------------------------------------------------------------
\* What is read in full of an engine while settled is what it ran.
LEMMA EnginePctExact ==
  ASSUME PdhInv, settled, NEW e \in Engines \ stale, NEW items,
         \A p \in alive : <<e, p>> \in items
  PROVE  EnginePct(e, items) = Share(e)
<1> DEFINE delta == IF Sum(e, items) >= Before(e) THEN Sum(e, items) - Before(e) ELSE 0
<1>1. TypeOK /\ CountersInTime /\ OnAlive(e) = Before(e) + work[e]
  BY DEF PdhInv, CountersExact
<1>2. Sum(e, items) = OnAlive(e)
  BY SumIsAll
<1>3. Before(e) \in Nat /\ work[e] \in Nat /\ Window \in Nat /\ Full \in Nat
  BY <1>1, BeforeIsNatural, WindowIsNatural, BoundsAssumption
<1>4. delta = work[e]
  BY <1>1, <1>2, <1>3
<1>5. EnginePct(e, items) = IF Window = 0 THEN 0 ELSE AtMostFull((work[e] * Full) \div Window)
  BY <1>4 DEF EnginePct
<1>6. Window # 0 => work[e] <= Window
  BY <1>1, WindowIsNatural DEF CountersInTime
<1> HIDE DEF delta
<1>7. Window # 0 => (work[e] * Full) \div Window \in Nat /\ (work[e] * Full) \div Window <= Full
  BY <1>3, <1>6, ShareAtMostFull, ShareOrdered
<1> DEFINE share == (work[e] * Full) \div Window
<1> HIDE DEF share
<1>8. AtMostFull(share) = IF share > Full THEN Full ELSE share
  BY DEF AtMostFull
<1>9. Window # 0 => AtMostFull(share) = share
  BY <1>3, <1>7, <1>8 DEF share
<1> QED
  BY <1>5, <1>9 DEF Share, share

LEMMA ExactStep ==
  ASSUME PdhInv, [Next]_vars, Publishes, settled, stale' = {},
         NEW a \in Adapters, EnginesOf[a] \cap stale = {}
  PROVE  pct'[a] = AtMostFull(SumFunctionOnSet([e \in Engines |-> Share(e)], EnginesOf[a]))
<1> DEFINE S == EnginesOf[a]
           G == [e \in Engines |-> Share(e)]
<1> PICK items \in Readable : Poll(items)
  BY OnlyPollPublishes
<1> DEFINE T == S \cap ReadEngines(items)
           F == [e \in Engines |-> EnginePct(e, items)]
<1>1. pct'[a] = AtMostFull(SumFunctionOnSet(F, T))
  BY DEF Poll, Emitted, Together
<1>2. IsFiniteSet(S) /\ S \subseteq Engines
  BY EnginesFinite
<1>3. Instances \subseteq items
  BY DEF Poll
<1>4. \A e \in Engines : \A p \in alive : <<e, p>> \in items
  BY <1>3 DEF Instances
<1>5. \A e \in S : F[e] = G[e] /\ G[e] \in Nat
  <2>1. \A e \in S : e \in Engines \ stale
    BY <1>2
  <2>2. \A e \in S : EnginePct(e, items) = Share(e)
    BY <1>4, <2>1, EnginePctExact
  <2>3. \A e \in S : Share(e) \in Nat
    BY <1>2, ShareIsNatural DEF PdhInv
  <2> QED
    BY <1>2, <2>2, <2>3
<1>6. SumFunctionOnSet(F, T) = SumFunctionOnSet(G, S)
  <2>1. CASE alive # {}
    <3>1. T = S
      <4> PICK p \in alive : TRUE
        BY <2>1
      <4>1. \A e \in S : e \in ReadEngines(items)
        BY <1>2, <1>4, ReadIfInstance
      <4> QED
        BY <4>1
    <3> HIDE DEF S, T, F, G
    <3> QED
      BY <1>2, <1>5, <3>1, SumOfSame
  <2>2. CASE alive = {}
    <3>1. items = {}
      BY <2>2 DEF Readable, Instances
    <3>2. T = {}
      BY <3>1 DEF ReadEngines
    <3>3. ASSUME NEW e \in Engines
          PROVE  EnginePct(e, items) = 0
      <4>1. Sum(e, items) = 0
        <5>1. ReadOn(e, items) = {}
          BY <3>1 DEF ReadOn
        <5> QED
          BY <5>1, SumOfNone DEF Sum
      <4>2. Before(e) \in Nat /\ Window \in Nat /\ Full \in Nat
        BY BeforeIsNatural, WindowIsNatural, BoundsAssumption DEF PdhInv
      <4>3. EnginePct(e, items) = IF Window = 0 THEN 0 ELSE AtMostFull((0 * Full) \div Window)
        BY <4>1, <4>2 DEF EnginePct
      <4>4. 0 * Full = 0 /\ (Window # 0 => 0 \div Window = 0)
        BY <4>2
      <4>5. AtMostFull(0) = 0
        BY <4>2 DEF AtMostFull
      <4> QED
        BY <4>3, <4>4, <4>5
    <3>4. \A e \in S : G[e] = 0
      BY <1>2, <1>5, <3>3
    <3>5. SumFunctionOnSet(G, S) = 0
      <4> HIDE DEF S, G
      <4> QED
        BY <1>2, <3>4, SumOfZeros
    <3>6. SumFunctionOnSet(F, T) = 0
      <4> HIDE DEF F, T
      <4> QED
        BY <3>2, SumOfNone
    <3> QED
      BY <3>5, <3>6
  <2> QED
    BY <2>1, <2>2
<1> HIDE DEF F, T
<1> QED
  BY <1>1, <1>6

\* A window in which every instance was read at both ends and no process came
\* or went is published as it was (PdhGpuEngineCollector::poll).
THEOREM PdhExactWhenSettled == Spec => ExactWhenSettled
<1> DEFINE Holds == Publishes /\ settled /\ stale' = {} =>
             \A a \in Adapters : EnginesOf[a] \cap stale = {} =>
               pct'[a] = AtMostFull(SumFunctionOnSet([e \in Engines |-> Share(e)], EnginesOf[a]))
<1>1. PdhInv /\ [Next]_vars => Holds
  BY ExactStep
<1>2. PdhInv /\ [Next]_vars => [Holds]_vars
  BY <1>1
<1> HIDE DEF Holds
<1>3. Spec => [][Holds]_vars
  BY <1>2, PdhInvariant, PTL DEF Spec
<1> QED
  BY <1>3 DEF ExactWhenSettled, Holds

==============================================================================
