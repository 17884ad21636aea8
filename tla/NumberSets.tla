------------------------------ MODULE NumberSets ------------------------------
(***************************************************************************)
(* The largest and the smallest of a set of numbers, and the sum of a      *)
(* function over a finite set.                                             *)
(*                                                                         *)
(* The library's induction theorems take the claim as an operator, which   *)
(* the provers cannot be given.  Here each induction is about the least    *)
(* number for which a claim fails (MinExists).                             *)
(***************************************************************************)
EXTENDS Integers, FiniteSets, FiniteSetsExt, FiniteSetTheorems, WellFoundedInduction, TLAPS

\* A set of numbers has a minimum.
LEMMA MinExists ==
  ASSUME NEW S \in SUBSET Nat, S # {}
  PROVE  Min(S) \in S /\ \A y \in S : Min(S) <= y
<1>1. \E x \in S : \A y \in S : ~(<<y, x>> \in OpToRel(<, Nat))
  BY WFMin, NatLessThanWellFounded
<1> PICK x \in S : \A y \in S : ~(<<y, x>> \in OpToRel(<, Nat))
  BY <1>1
<1>2. \A y \in S : ~(y < x)
  BY DEF OpToRel
<1>3. \A y \in S : x <= y
  <2> TAKE z \in S
  <2>1. x \in Nat /\ z \in Nat /\ ~(z < x)
    BY <1>2
  <2> QED
    BY ONLY <2>1
<1> QED
  BY <1>3 DEF Min

\* What counts down from n to y and not to less than to top is at most top.
LEMMA Mirror ==
  ASSUME NEW n \in Nat, NEW y \in Nat, NEW top \in Nat, ~(n - y < n - top)
  PROVE  y <= top
OBVIOUS

\* A bounded set of numbers has a maximum: its mirror image has a minimum.
LEMMA MaxExists ==
  ASSUME NEW S \in SUBSET Nat, NEW n \in Nat, \A s \in S : s <= n, S # {}
  PROVE  Max(S) \in S /\ \A y \in S : y <= Max(S)
<1> DEFINE T == {n - s : s \in S}
<1>1. T \subseteq Nat /\ T # {}
  <2>1. \A s \in S : n - s \in Nat
    OBVIOUS
  <2> QED
    BY <2>1
<1>2. \E x \in T : \A y \in T : ~(<<y, x>> \in OpToRel(<, Nat))
  BY <1>1, WFMin, NatLessThanWellFounded
<1> PICK x \in T : \A y \in T : ~(<<y, x>> \in OpToRel(<, Nat))
  BY <1>2
<1>3. \A y \in T : ~(y < x)
  BY <1>1 DEF OpToRel
<1> PICK top \in S : x = n - top
  OBVIOUS
<1>4. ASSUME NEW y \in S
      PROVE  y <= top
  <2>1. ~(n - y < n - top)
    BY <1>3
  <2>2. y \in Nat /\ top \in Nat /\ n \in Nat
    OBVIOUS
  <2> QED
    BY <2>1, <2>2, Mirror
<1>5. Max(S) \in S /\ \A y \in S : Max(S) >= y
  <2>1. \E z \in S : \A y \in S : z >= y
    BY <1>4
  <2> QED
    BY <2>1 DEF Max
<1> QED
  BY <1>5

\* Induction: a set of numbers in which each has a smaller one is empty.
LEMMA NoLeast ==
  ASSUME NEW S \in SUBSET Nat, \A n \in S : \E m \in S : m < n
  PROVE  S = {}
<1> SUFFICES ASSUME S # {}
             PROVE  FALSE
  OBVIOUS
<1> DEFINE least == Min(S)
<1>1. least \in S /\ \A k \in S : least <= k
  BY MinExists
<1> HIDE DEF least
<1> PICK k \in S : k < least
  BY <1>1
<1>2. least \in Nat /\ k \in Nat /\ least <= k
  BY <1>1
<1> QED
  BY ONLY <1>2, k < least

-----------------------------------------------------------------------------
(***************************************************************************)
(* SumFunctionOnSet: its recursion has a solution.                         *)
(***************************************************************************)
Chosen(s) == CHOOSE x \in s : TRUE

IsSum(h, F, S) ==
  h = [s \in SUBSET S |-> IF s = {} THEN 0 ELSE F[Chosen(s)] + h[s \ {Chosen(s)}]]

\* Leaving the chosen element out of a finite set makes it smaller.
LEMMA LeaveChosen ==
  ASSUME NEW s, IsFiniteSet(s), s # {}
  PROVE  /\ Chosen(s) \in s /\ IsFiniteSet(s \ {Chosen(s)})
         /\ Cardinality(s) \in Nat /\ Cardinality(s) > 0
         /\ Cardinality(s \ {Chosen(s)}) = Cardinality(s) - 1
<1>1. Chosen(s) \in s
  BY DEF Chosen
<1>2. IsFiniteSet(s \ {Chosen(s)}) /\ Cardinality(s \ {Chosen(s)}) = Cardinality(s) - 1
  BY <1>1, FS_RemoveElement
<1>3. Cardinality(s) \in Nat /\ Cardinality(s) # 0
  BY FS_CardinalityType, FS_EmptySet
<1> QED
  BY <1>1, <1>2, <1>3

LEMMA SumExists ==
  ASSUME NEW S, IsFiniteSet(S), NEW F, \A x \in S : F[x] \in Nat
  PROVE  \E h \in [SUBSET S -> Nat] : IsSum(h, F, S)
<1> DEFINE Small(n) == {s \in SUBSET S : Cardinality(s) <= n}
           Step(h, s) == IF s = {} THEN 0 ELSE F[Chosen(s)] + h[s \ {Chosen(s)}]
           Good(n) == \E h \in [Small(n) -> Nat] : \A s \in Small(n) : h[s] = Step(h, s)
           Bad == {n \in Nat : ~Good(n)}
<1>1. \A s \in SUBSET S : IsFiniteSet(s) /\ Cardinality(s) \in Nat /\ Cardinality(s) <= Cardinality(S)
  BY FS_Subset, FS_CardinalityType
<1>2. \A s \in SUBSET S : s # {} =>
        /\ F[Chosen(s)] \in Nat /\ s \ {Chosen(s)} \in SUBSET S
        /\ Cardinality(s \ {Chosen(s)}) = Cardinality(s) - 1
  BY <1>1, LeaveChosen
<1>3. Good(0)
  <2> DEFINE h == [s \in Small(0) |-> 0]
  <2>1. \A s \in Small(0) : s = {}
    BY <1>1, FS_EmptySet
  <2>2. h \in [Small(0) -> Nat] /\ \A s \in Small(0) : h[s] = Step(h, s)
    BY <2>1
  <2> QED
    BY <2>2
<1>4. ASSUME NEW n \in Nat, Good(n)
      PROVE  Good(n + 1)
  <2> PICK g \in [Small(n) -> Nat] : \A s \in Small(n) : g[s] = Step(g, s)
    BY <1>4
  <2> DEFINE h == [s \in Small(n + 1) |-> Step(g, s)]
  <2>1. \A s \in Small(n + 1) : s # {} => s \ {Chosen(s)} \in Small(n)
    BY <1>1, <1>2
  <2>2. \A s \in Small(n + 1) : Step(g, s) \in Nat
    BY <1>2, <2>1
  <2>3. \A s \in Small(n) : s \in Small(n + 1) /\ h[s] = g[s]
    BY <1>1
  <2>4. \A s \in Small(n + 1) : h[s] = Step(h, s)
    BY <2>1, <2>3
  <2>5. h \in [Small(n + 1) -> Nat]
    BY <2>2
  <2> QED
    BY <2>4, <2>5
<1>5. Bad = {}
  <2> SUFFICES ASSUME Bad # {}
               PROVE  FALSE
    OBVIOUS
  <2> DEFINE m == Min(Bad)
  <2>1. m \in Bad /\ \A k \in Bad : m <= k
    BY MinExists
  <2> HIDE DEF m, Good
  <2>2. m \in Nat /\ m # 0
    BY <1>3, <2>1
  <2>3. m - 1 \in Nat /\ m - 1 \notin Bad
    BY <2>1, <2>2
  <2>4. Good((m - 1) + 1)
    BY <1>4, <2>3
  <2> QED
    BY <2>1, <2>2, <2>4
<1>6. Cardinality(S) \in Nat
  BY FS_CardinalityType
<1>7. Good(Cardinality(S))
  <2> HIDE DEF Good
  <2> QED
    BY <1>5, <1>6
<1>8. Small(Cardinality(S)) = SUBSET S
  BY <1>1
<1> QED
  BY <1>7, <1>8 DEF IsSum

\* Two solutions agree where both are defined.
LEMMA SumUnique ==
  ASSUME NEW S, IsFiniteSet(S), NEW T \in SUBSET S, NEW F, NEW g, NEW h,
         IsSum(g, F, T), IsSum(h, F, S)
  PROVE  g[T] = h[T]
<1> DEFINE Bad == {n \in Nat : \E s \in SUBSET T : Cardinality(s) = n /\ g[s] # h[s]}
<1>1. \A s \in SUBSET T : s \in SUBSET S /\ IsFiniteSet(s) /\ Cardinality(s) \in Nat
  BY FS_Subset, FS_CardinalityType
<1>2. ASSUME NEW n \in Bad
      PROVE  \E m \in Bad : m < n
  <2> PICK s \in SUBSET T : Cardinality(s) = n /\ g[s] # h[s]
    OBVIOUS
  <2>1. g[{}] = 0 /\ h[{}] = 0
    BY DEF IsSum
  <2>2. s # {}
    BY <2>1
  <2> DEFINE r == s \ {Chosen(s)}
  <2>3. /\ r \in SUBSET T /\ n \in Nat /\ n > 0 /\ Cardinality(r) = n - 1
    BY <1>1, <2>2, LeaveChosen
  <2>4. g[s] = F[Chosen(s)] + g[r] /\ h[s] = F[Chosen(s)] + h[r]
    BY <1>1, <2>2 DEF IsSum
  <2>5. g[r] # h[r]
    BY <2>4
  <2> HIDE DEF r
  <2>6. n - 1 \in Bad /\ n - 1 < n
    BY <2>3, <2>5
  <2> QED
    BY <2>6
<1>3. Bad = {}
  <2>1. Bad \in SUBSET Nat
    OBVIOUS
  <2> HIDE DEF Bad
  <2> QED
    BY <1>2, <2>1, NoLeast
<1>4. T \in SUBSET T /\ Cardinality(T) \in Nat
  BY <1>1
<1> QED
  BY <1>3, <1>4

Solves(h, F, S) ==
  /\ h \in [SUBSET S -> Nat] /\ IsSum(h, F, S)
  /\ \A T \in SUBSET S : SumFunctionOnSet(F, T) = h[T]

\* What SumFunctionOnSet is: one solution gives the sums over all subsets.
LEMMA SumSolved ==
  ASSUME NEW S, IsFiniteSet(S), NEW F, \A x \in S : F[x] \in Nat
  PROVE  \E h : Solves(h, F, S)
<1> PICK h \in [SUBSET S -> Nat] : IsSum(h, F, S)
  BY SumExists
<1>1. ASSUME NEW T \in SUBSET S
      PROVE  SumFunctionOnSet(F, T) = h[T]
  <2> DEFINE P(g) == g = [s \in SUBSET T |->
                            IF s = {} THEN 0
                            ELSE F[CHOOSE x \in s : TRUE] + g[s \ {CHOOSE x \in s : TRUE}]]
             f == CHOOSE g : P(g)
  <2>1. SumFunctionOnSet(F, T) = f[T]
    BY DEF SumFunctionOnSet, FoldFunctionOnSet, MapThenFoldSet
  <2>2. IsFiniteSet(T) /\ \A x \in T : F[x] \in Nat
    BY FS_Subset
  <2>3. PICK g \in [SUBSET T -> Nat] : IsSum(g, F, T)
    BY <2>2, SumExists
  <2>4. P(g)
    BY <2>3 DEF IsSum, Chosen
  <2>5. P(f)
    <3> HIDE DEF P
    <3> QED
      BY <2>4
  <2> HIDE DEF f
  <2>6. IsSum(f, F, T)
    BY <2>5 DEF IsSum, Chosen
  <2>7. f[T] = h[T]
    BY <2>6, SumUnique
  <2> QED
    BY <2>1, <2>7
<1> QED
  BY <1>1 DEF Solves

-----------------------------------------------------------------------------
(***************************************************************************)
(* What sums do.                                                           *)
(***************************************************************************)
LEMMA SumOfNone == ASSUME NEW F PROVE SumFunctionOnSet(F, {}) = 0
<1>1. IsFiniteSet({}) /\ \A x \in {} : F[x] \in Nat
  BY FS_EmptySet
<1>2. PICK h : Solves(h, F, {})
  BY <1>1, SumSolved
<1>3. {} \in SUBSET {}
  OBVIOUS
<1> QED
  BY <1>2, <1>3 DEF Solves, IsSum

LEMMA SumIsNatural ==
  ASSUME NEW S, IsFiniteSet(S), NEW F, \A x \in S : F[x] \in Nat
  PROVE  SumFunctionOnSet(F, S) \in Nat
<1> PICK h : Solves(h, F, S)
  BY SumSolved
<1> QED
  BY DEF Solves

LEMMA SumOfChosen ==
  ASSUME NEW S, IsFiniteSet(S), NEW F, \A x \in S : F[x] \in Nat, S # {}
  PROVE  SumFunctionOnSet(F, S) = F[Chosen(S)] + SumFunctionOnSet(F, S \ {Chosen(S)})
<1> PICK h : Solves(h, F, S)
  BY SumSolved
<1>1. h[S] = F[Chosen(S)] + h[S \ {Chosen(S)}]
  BY DEF Solves, IsSum
<1> QED
  BY <1>1 DEF Solves

\* Any element may be taken out, not only the chosen one.
LEMMA SumOfOne ==
  ASSUME NEW S, IsFiniteSet(S), NEW F, \A x \in S : F[x] \in Nat, NEW e \in S
  PROVE  SumFunctionOnSet(F, S) = F[e] + SumFunctionOnSet(F, S \ {e})
<1> DEFINE Sum(s) == SumFunctionOnSet(F, s)
           Fails(s, x) == Sum(s) # F[x] + Sum(s \ {x})
           Bad == {n \in Nat : \E s \in SUBSET S : Cardinality(s) = n /\ \E x \in s : Fails(s, x)}
<1>1. \A s \in SUBSET S : IsFiniteSet(s) /\ Cardinality(s) \in Nat /\ \A x \in s : F[x] \in Nat
  BY FS_Subset, FS_CardinalityType
<1>2. \A s \in SUBSET S : Sum(s) \in Nat
  BY <1>1, SumIsNatural
<1>3. ASSUME NEW n \in Bad
      PROVE  \E m \in Bad : m < n
  <2> PICK s \in SUBSET S : Cardinality(s) = n /\ \E x \in s : Fails(s, x)
    OBVIOUS
  <2> PICK x \in s : Fails(s, x)
    OBVIOUS
  <2> DEFINE c == Chosen(s)
             r == s \ {c}
             q == s \ {x}
  <2>1. IsFiniteSet(s) /\ s # {} /\ n \in Nat
    BY <1>1
  <2>2. c \in s /\ n > 0 /\ Cardinality(r) = n - 1
    BY <2>1, LeaveChosen
  <2>3. Cardinality(q) = n - 1
    BY <2>1, FS_RemoveElement
  <2>4. Sum(s) = F[c] + Sum(r)
    BY <1>1, <2>1, SumOfChosen
  <2>5. x # c
    BY <2>4
  <2>6. x \in r /\ c \in q /\ r \in SUBSET S /\ q \in SUBSET S /\ r \ {x} = q \ {c}
    BY <2>2, <2>5
  <2>7. Fails(r, x) \/ Fails(q, c)
    <3> SUFFICES ASSUME ~Fails(r, x), ~Fails(q, c)
                 PROVE  FALSE
      OBVIOUS
    <3>1. Sum(r) = F[x] + Sum(r \ {x}) /\ Sum(q) = F[c] + Sum(r \ {x})
      BY <2>6
    <3>2. F[x] \in Nat /\ F[c] \in Nat /\ Sum(r \ {x}) \in Nat
      BY <1>1, <1>2, <2>2, <2>6
    <3>3. Sum(s) = F[x] + Sum(q)
      BY <2>4, <3>1, <3>2
    <3> QED
      BY <3>3
  <2> HIDE DEF c, r, q, Fails
  <2>8. n - 1 \in Bad
    BY <2>1, <2>2, <2>3, <2>6, <2>7
  <2> QED
    BY <2>1, <2>8
<1>4. Bad = {}
  <2>1. Bad \in SUBSET Nat
    OBVIOUS
  <2> HIDE DEF Bad
  <2> QED
    BY <1>3, <2>1, NoLeast
<1>5. S \in SUBSET S /\ Cardinality(S) \in Nat
  BY <1>1
<1> QED
  BY <1>4, <1>5

\* Larger terms, larger sum.
LEMMA SumIsMonotone ==
  ASSUME NEW S, IsFiniteSet(S), NEW F, NEW G, \A x \in S : F[x] \in Nat /\ G[x] \in Nat,
         \A x \in S : F[x] <= G[x]
  PROVE  SumFunctionOnSet(F, S) <= SumFunctionOnSet(G, S)
<1> DEFINE Fails(s) == ~(SumFunctionOnSet(F, s) <= SumFunctionOnSet(G, s))
           Bad == {n \in Nat : \E s \in SUBSET S : Cardinality(s) = n /\ Fails(s)}
<1>1. \A s \in SUBSET S : /\ IsFiniteSet(s) /\ Cardinality(s) \in Nat
                          /\ \A x \in s : F[x] \in Nat /\ G[x] \in Nat
  BY FS_Subset, FS_CardinalityType
<1>2. \A s \in SUBSET S : SumFunctionOnSet(F, s) \in Nat /\ SumFunctionOnSet(G, s) \in Nat
  BY <1>1, SumIsNatural
<1>3. ASSUME NEW n \in Bad
      PROVE  \E m \in Bad : m < n
  <2> PICK s \in SUBSET S : Cardinality(s) = n /\ Fails(s)
    OBVIOUS
  <2>1. s # {}
    BY SumOfNone
  <2> DEFINE c == Chosen(s)
             r == s \ {c}
  <2>2. IsFiniteSet(s) /\ n \in Nat /\ r \in SUBSET S
    BY <1>1
  <2>3. c \in s /\ n > 0 /\ Cardinality(r) = n - 1
    BY <2>1, <2>2, LeaveChosen
  <2>4. SumFunctionOnSet(F, s) = F[c] + SumFunctionOnSet(F, r)
    BY <1>1, <2>1, SumOfChosen
  <2>5. SumFunctionOnSet(G, s) = G[c] + SumFunctionOnSet(G, r)
    BY <1>1, <2>1, SumOfChosen
  <2>6. F[c] <= G[c] /\ F[c] \in Nat /\ G[c] \in Nat
    BY <2>3
  <2>7. /\ SumFunctionOnSet(F, r) \in Nat /\ SumFunctionOnSet(G, r) \in Nat
    BY <1>2, <2>2
  <2> HIDE DEF c, r
  <2>8. Fails(r)
    BY <2>4, <2>5, <2>6, <2>7
  <2> HIDE DEF Fails
  <2>9. n - 1 \in Bad
    BY <2>2, <2>3, <2>8
  <2> QED
    BY <2>2, <2>9
<1>4. Bad = {}
  <2>1. Bad \in SUBSET Nat
    OBVIOUS
  <2> HIDE DEF Bad
  <2> QED
    BY <1>3, <2>1, NoLeast
<1>5. S \in SUBSET S /\ Cardinality(S) \in Nat
  BY <1>1
<1> QED
  BY <1>4, <1>5

\* A part of the terms adds up to no more than all of them.
LEMMA SumOfPart ==
  ASSUME NEW S, IsFiniteSet(S), NEW F, \A x \in S : F[x] \in Nat, NEW T \in SUBSET S
  PROVE  SumFunctionOnSet(F, T) <= SumFunctionOnSet(F, S)
<1> DEFINE Sum(s) == SumFunctionOnSet(F, s)
           Fails(s) == ~(Sum(T) <= Sum(s))
           Bad == {n \in Nat : \E s \in SUBSET S : T \subseteq s /\ Cardinality(s) = n /\ Fails(s)}
<1>1. \A s \in SUBSET S : IsFiniteSet(s) /\ Cardinality(s) \in Nat /\ \A x \in s : F[x] \in Nat
  BY FS_Subset, FS_CardinalityType
<1>2. \A s \in SUBSET S : Sum(s) \in Nat
  BY <1>1, SumIsNatural
<1>3. ASSUME NEW n \in Bad
      PROVE  \E m \in Bad : m < n
  <2> PICK s \in SUBSET S : T \subseteq s /\ Cardinality(s) = n /\ Fails(s)
    OBVIOUS
  <2>1. s # T
    BY <1>2
  <2> PICK x \in s : x \notin T
    BY <2>1
  <2> DEFINE r == s \ {x}
  <2>2. IsFiniteSet(s) /\ n \in Nat /\ r \in SUBSET S /\ T \subseteq r
    BY <1>1
  <2>3. Cardinality(r) = n - 1 /\ n # 0
    BY <2>2, FS_RemoveElement, FS_EmptySet
  <2>4. Sum(s) = F[x] + Sum(r)
    BY <1>1, SumOfOne
  <2>5. F[x] \in Nat /\ Sum(r) \in Nat /\ Sum(T) \in Nat
    BY <1>2, <2>2
  <2> HIDE DEF r, Sum
  <2>6. Fails(r)
    BY <2>4, <2>5
  <2> HIDE DEF Fails
  <2>7. n - 1 \in Bad
    BY <2>2, <2>3, <2>6
  <2> QED
    BY <2>2, <2>7
<1>4. Bad = {}
  <2>1. Bad \in SUBSET Nat
    OBVIOUS
  <2> HIDE DEF Bad
  <2> QED
    BY <1>3, <2>1, NoLeast
<1>5. S \in SUBSET S /\ Cardinality(S) \in Nat
  BY <1>1
<1> QED
  BY <1>4, <1>5

\* The same terms have the same sum.
LEMMA SumOfSame ==
  ASSUME NEW S, IsFiniteSet(S), NEW F, NEW G, \A x \in S : F[x] \in Nat /\ F[x] = G[x]
  PROVE  SumFunctionOnSet(F, S) = SumFunctionOnSet(G, S)
<1>1. \A x \in S : F[x] \in Nat /\ G[x] \in Nat /\ F[x] <= G[x] /\ G[x] <= F[x]
  OBVIOUS
<1>2. SumFunctionOnSet(F, S) \in Nat /\ SumFunctionOnSet(G, S) \in Nat
  BY <1>1, SumIsNatural
<1>3. SumFunctionOnSet(F, S) <= SumFunctionOnSet(G, S)
  BY <1>1, SumIsMonotone
<1>4. SumFunctionOnSet(G, S) <= SumFunctionOnSet(F, S)
  BY <1>1, SumIsMonotone
<1> QED
  BY <1>2, <1>3, <1>4

\* A term is at most the sum.
LEMMA SumHasTerm ==
  ASSUME NEW S, IsFiniteSet(S), NEW F, \A x \in S : F[x] \in Nat, NEW e \in S
  PROVE  F[e] <= SumFunctionOnSet(F, S)
<1>1. IsFiniteSet(S \ {e}) /\ \A x \in S \ {e} : F[x] \in Nat
  BY FS_Subset
<1>2. SumFunctionOnSet(F, S \ {e}) \in Nat
  BY <1>1, SumIsNatural
<1>3. SumFunctionOnSet(F, S) = F[e] + SumFunctionOnSet(F, S \ {e})
  BY SumOfOne
<1> QED
  BY <1>2, <1>3

\* The sum of zeros is zero.
LEMMA SumOfZeros ==
  ASSUME NEW S, IsFiniteSet(S), NEW F, \A x \in S : F[x] = 0
  PROVE  SumFunctionOnSet(F, S) = 0
<1> DEFINE Fails(s) == SumFunctionOnSet(F, s) # 0
           Bad == {n \in Nat : \E s \in SUBSET S : Cardinality(s) = n /\ Fails(s)}
<1>1. \A s \in SUBSET S : IsFiniteSet(s) /\ Cardinality(s) \in Nat /\ \A x \in s : F[x] \in Nat
  BY FS_Subset, FS_CardinalityType
<1>2. ASSUME NEW n \in Bad
      PROVE  \E m \in Bad : m < n
  <2> PICK s \in SUBSET S : Cardinality(s) = n /\ Fails(s)
    OBVIOUS
  <2>1. s # {}
    BY SumOfNone
  <2> DEFINE c == Chosen(s)
             r == s \ {c}
  <2>2. IsFiniteSet(s) /\ n \in Nat /\ r \in SUBSET S
    BY <1>1
  <2>3. c \in s /\ n > 0 /\ Cardinality(r) = n - 1
    BY <2>1, <2>2, LeaveChosen
  <2>4. SumFunctionOnSet(F, s) = F[c] + SumFunctionOnSet(F, r)
    BY <1>1, <2>1, SumOfChosen
  <2>5. F[c] = 0
    BY <2>3
  <2> HIDE DEF c, r
  <2>6. Fails(r)
    BY <2>4, <2>5
  <2> HIDE DEF Fails
  <2>7. n - 1 \in Bad
    BY <2>2, <2>3, <2>6
  <2> QED
    BY <2>2, <2>7
<1>3. Bad = {}
  <2>1. Bad \in SUBSET Nat
    OBVIOUS
  <2> HIDE DEF Bad
  <2> QED
    BY <1>2, <2>1, NoLeast
<1>4. S \in SUBSET S /\ Cardinality(S) \in Nat
  BY <1>1
<1> QED
  BY <1>3, <1>4

\* One more in one term is one more in the sum.
LEMMA SumOneUp ==
  ASSUME NEW S, IsFiniteSet(S), NEW F, NEW G, \A x \in S : F[x] \in Nat,
         NEW e \in S, G[e] = F[e] + 1, \A x \in S \ {e} : G[x] = F[x]
  PROVE  SumFunctionOnSet(G, S) = SumFunctionOnSet(F, S) + 1
<1>1. \A x \in S : G[x] \in Nat
  OBVIOUS
<1>2. IsFiniteSet(S \ {e})
  BY FS_Subset
<1>3. SumFunctionOnSet(G, S \ {e}) = SumFunctionOnSet(F, S \ {e})
  BY <1>2, SumOfSame
<1>4. SumFunctionOnSet(F, S \ {e}) \in Nat
  BY <1>2, SumIsNatural
<1>5. SumFunctionOnSet(G, S) = G[e] + SumFunctionOnSet(G, S \ {e})
  BY <1>1, SumOfOne
<1>6. SumFunctionOnSet(F, S) = F[e] + SumFunctionOnSet(F, S \ {e})
  BY SumOfOne
<1>7. F[e] \in Nat
  OBVIOUS
<1> QED
  BY <1>3, <1>4, <1>5, <1>6, <1>7

\* The values of a finite family of numbers have a largest.
LEMMA LargestExists ==
  ASSUME NEW S, IsFiniteSet(S), NEW F, \A x \in S : F[x] \in Nat, S # {}
  PROVE  /\ Max({F[x] : x \in S}) \in {F[x] : x \in S} /\ Max({F[x] : x \in S}) \in Nat
         /\ \A x \in S : F[x] <= Max({F[y] : y \in S})
<1> DEFINE values == {F[x] : x \in S}
           n == SumFunctionOnSet(F, S)
<1>1. n \in Nat
  BY SumIsNatural
<1>2. \A x \in S : F[x] <= n
  BY SumHasTerm
<1>3. values \in SUBSET Nat /\ values # {} /\ \A v \in values : v <= n
  BY <1>2
<1>4. \A x \in S : F[x] \in values
  OBVIOUS
<1> HIDE DEF n, values
<1>5. Max(values) \in values /\ \A v \in values : v <= Max(values)
  BY <1>1, <1>3, MaxExists
<1>6. Max(values) \in Nat
  BY <1>3, <1>5
<1> QED
  BY <1>4, <1>5, <1>6 DEF values

-----------------------------------------------------------------------------
(***************************************************************************)
(* Sums over an image, and leaving out zeros.                              *)
(***************************************************************************)
\* The image of a finite set is finite.
LEMMA FiniteImage ==
  ASSUME NEW S, IsFiniteSet(S), NEW F
  PROVE  IsFiniteSet({F[x] : x \in S})
<1> DEFINE Image(s) == {F[x] : x \in s}
           Fails(s) == ~IsFiniteSet(Image(s))
           Bad == {n \in Nat : \E s \in SUBSET S : Cardinality(s) = n /\ Fails(s)}
<1>1. \A s \in SUBSET S : IsFiniteSet(s) /\ Cardinality(s) \in Nat
  BY FS_Subset, FS_CardinalityType
<1>2. ASSUME NEW n \in Bad
      PROVE  \E m \in Bad : m < n
  <2> PICK s \in SUBSET S : Cardinality(s) = n /\ Fails(s)
    OBVIOUS
  <2>1. s # {}
    <3>1. Image({}) = {}
      OBVIOUS
    <3> QED
      BY <3>1, FS_EmptySet
  <2> DEFINE c == Chosen(s)
             r == s \ {c}
  <2>2. IsFiniteSet(s) /\ n \in Nat /\ r \in SUBSET S
    BY <1>1
  <2>3. c \in s /\ n > 0 /\ Cardinality(r) = n - 1
    BY <2>1, <2>2, LeaveChosen
  <2>4. Image(s) = Image(r) \cup {F[c]}
    BY <2>3
  <2> HIDE DEF c, r, Image
  <2>5. Fails(r)
    BY <2>4, FS_AddElement
  <2> HIDE DEF Fails
  <2>6. n - 1 \in Bad
    BY <2>2, <2>3, <2>5
  <2> QED
    BY <2>2, <2>6
<1>3. Bad = {}
  <2>1. Bad \in SUBSET Nat
    OBVIOUS
  <2> HIDE DEF Bad
  <2> QED
    BY <1>2, <2>1, NoLeast
<1>4. S \in SUBSET S /\ Cardinality(S) \in Nat
  BY <1>1
<1> QED
  BY <1>3, <1>4

\* Terms that are zero may be left out.
LEMMA SumWithoutZeros ==
  ASSUME NEW S, IsFiniteSet(S), NEW F, \A x \in S : F[x] \in Nat, NEW T \in SUBSET S,
         \A x \in S \ T : F[x] = 0
  PROVE  SumFunctionOnSet(F, S) = SumFunctionOnSet(F, T)
<1> DEFINE Sum(s) == SumFunctionOnSet(F, s)
           Fails(s) == Sum(s) # Sum(T)
           Bad == {n \in Nat : \E s \in SUBSET S : T \subseteq s /\ Cardinality(s) = n /\ Fails(s)}
<1>1. \A s \in SUBSET S : IsFiniteSet(s) /\ Cardinality(s) \in Nat /\ \A x \in s : F[x] \in Nat
  BY FS_Subset, FS_CardinalityType
<1>2. \A s \in SUBSET S : Sum(s) \in Nat
  BY <1>1, SumIsNatural
<1>3. ASSUME NEW n \in Bad
      PROVE  \E m \in Bad : m < n
  <2> PICK s \in SUBSET S : T \subseteq s /\ Cardinality(s) = n /\ Fails(s)
    OBVIOUS
  <2>1. s # T
    OBVIOUS
  <2> PICK x \in s : x \notin T
    BY <2>1
  <2> DEFINE r == s \ {x}
  <2>2. IsFiniteSet(s) /\ n \in Nat /\ r \in SUBSET S /\ T \subseteq r
    BY <1>1
  <2>3. Cardinality(r) = n - 1 /\ n # 0
    BY <2>2, FS_RemoveElement, FS_EmptySet
  <2>4. Sum(s) = F[x] + Sum(r)
    BY <1>1, SumOfOne
  <2>5. F[x] = 0 /\ Sum(r) \in Nat
    BY <1>2, <2>2
  <2> HIDE DEF r, Sum
  <2>6. Fails(r)
    BY <2>4, <2>5
  <2> HIDE DEF Fails
  <2>7. n - 1 \in Bad
    BY <2>2, <2>3, <2>6
  <2> QED
    BY <2>2, <2>7
<1>4. Bad = {}
  <2>1. Bad \in SUBSET Nat
    OBVIOUS
  <2> HIDE DEF Bad
  <2> QED
    BY <1>3, <2>1, NoLeast
<1>5. S \in SUBSET S /\ Cardinality(S) \in Nat
  BY <1>1
<1> QED
  BY <1>4, <1>5

\* Terms under other names, one name each, have the same sum.
LEMMA SumOfImage ==
  ASSUME NEW S, IsFiniteSet(S), NEW name, NEW F, NEW G,
         \A x, y \in S : name[x] = name[y] => x = y,
         \A x \in S : F[x] \in Nat /\ G[name[x]] = F[x]
  PROVE  SumFunctionOnSet(G, {name[x] : x \in S}) = SumFunctionOnSet(F, S)
<1> DEFINE Image(s) == {name[x] : x \in s}
           Fails(s) == SumFunctionOnSet(G, Image(s)) # SumFunctionOnSet(F, s)
           Bad == {n \in Nat : \E s \in SUBSET S : Cardinality(s) = n /\ Fails(s)}
<1>1. \A s \in SUBSET S : IsFiniteSet(s) /\ Cardinality(s) \in Nat /\ \A x \in s : F[x] \in Nat
  BY FS_Subset, FS_CardinalityType
<1>2. ASSUME NEW s \in SUBSET S
      PROVE  IsFiniteSet(Image(s)) /\ \A y \in Image(s) : G[y] \in Nat
  BY <1>1, FiniteImage
<1>3. ASSUME NEW n \in Bad
      PROVE  \E m \in Bad : m < n
  <2> PICK s \in SUBSET S : Cardinality(s) = n /\ Fails(s)
    OBVIOUS
  <2>1. s # {}
    <3>1. Image({}) = {}
      OBVIOUS
    <3> QED
      BY <3>1, SumOfNone
  <2> DEFINE c == Chosen(s)
             r == s \ {c}
  <2>2. IsFiniteSet(s) /\ n \in Nat /\ r \in SUBSET S
    BY <1>1
  <2>3. c \in s /\ n > 0 /\ Cardinality(r) = n - 1
    BY <2>1, <2>2, LeaveChosen
  <2>4. SumFunctionOnSet(F, s) = F[c] + SumFunctionOnSet(F, r)
    BY <1>1, <2>1, SumOfChosen
  <2>5. Image(s) \ {name[c]} = Image(r) /\ name[c] \in Image(s) /\ G[name[c]] = F[c]
    BY <2>3
  <2>6. IsFiniteSet(Image(s)) /\ \A y \in Image(s) : G[y] \in Nat
    BY <1>2
  <2> HIDE DEF c, r, Image
  <2>7. SumFunctionOnSet(G, Image(s)) = G[name[c]] + SumFunctionOnSet(G, Image(s) \ {name[c]})
    BY <2>5, <2>6, SumOfOne
  <2>8. Fails(r)
    BY <2>4, <2>5, <2>7
  <2> HIDE DEF Fails
  <2>9. n - 1 \in Bad
    BY <2>2, <2>3, <2>8
  <2> QED
    BY <2>2, <2>9
<1>4. Bad = {}
  <2>1. Bad \in SUBSET Nat
    OBVIOUS
  <2> HIDE DEF Bad
  <2> QED
    BY <1>3, <2>1, NoLeast
<1>5. S \in SUBSET S /\ Cardinality(S) \in Nat
  BY <1>1
<1> QED
  BY <1>4, <1>5

==============================================================================
