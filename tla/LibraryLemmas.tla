---------------------------- MODULE LibraryLemmas ----------------------------
(***************************************************************************)
(* Facts that several proofs need and no library module states: induction  *)
(* over a set of numbers, quotients by a symbol, and what MapThenSumSet of *)
(* FiniteSetsExt adds up to.                                               *)
(***************************************************************************)
EXTENDS Integers, FiniteSetsExt, FiniteSetTheorems, WellFoundedInduction, NaturalsInduction,
        TLAPS

\* The least of some natural numbers.
LEMMA LeastNatural ==
  ASSUME NEW T, T \subseteq Nat, T # {}
  PROVE  \E x \in T : \A y \in T : x <= y
<1>1. PICK k \in T : \A y \in T : ~ (<<y, k>> \in OpToRel(<, Nat))
  BY WFMin, NatLessThanWellFounded
<1>2. \A y \in T : k <= y
  <2>1. \A y \in T : ~ (y < k)
    BY <1>1 DEF OpToRel
  <2>2. QED
    BY <2>1
<1>3. QED
  BY <1>2

\* Induction over the naturals, on the set of those that have a property.
LEMMA CountUp ==
  ASSUME NEW P, 0 \in P, \A n \in Nat : n \in P => n + 1 \in P
  PROVE  Nat \subseteq P
<1> SUFFICES ASSUME Nat \ P # {} PROVE FALSE
  OBVIOUS
<1>1. PICK k \in Nat \ P : \A y \in Nat \ P : k <= y
  BY LeastNatural
<1>2. k # 0 /\ k - 1 \in Nat /\ k - 1 \in P
  BY <1>1
<1>3. QED
  BY <1>2

\* Products and quotients, which the provers know only of literals.
LEMMA ProductsGrow ==
  ASSUME NEW a \in Int, NEW b \in Int, NEW c \in Nat, a <= b
  PROVE  a * c <= b * c /\ a * c \in Int /\ b * c \in Int
<1> DEFINE k == b - a
<1>1. k \in Nat /\ b = a + k
  OBVIOUS
<1> HIDE DEF k
<1>2. k * c \in Nat /\ b * c = a * c + k * c
  BY <1>1
<1>3. a * c \in Int /\ b * c \in Int
  OBVIOUS
<1>4. QED
  BY <1>2, <1>3

LEMMA QuotientBetween ==
  ASSUME NEW n \in Nat, NEW d \in Nat, d > 0, NEW low \in Int, NEW high \in Int,
         low * d <= n, n < (high + 1) * d
  PROVE  n \div d \in Int /\ low <= n \div d /\ n \div d <= high
<1> DEFINE q == n \div d
<1>1. q \in Int /\ q * d <= n /\ n < (q + 1) * d
  BY Z3
<1> HIDE DEF q
<1>2. ASSUME q + 1 <= low PROVE FALSE
  <2>1. (q + 1) * d <= low * d /\ (q + 1) * d \in Int /\ low * d \in Int
    BY <1>1, <1>2, ProductsGrow
  <2>2. QED
    BY <1>1, <2>1
<1>3. ASSUME high + 1 <= q PROVE FALSE
  <2>1. (high + 1) * d <= q * d /\ (high + 1) * d \in Int /\ q * d \in Int
    BY <1>1, <1>3, ProductsGrow
  <2>2. QED
    BY <1>1, <2>1
<1>4. low <= q /\ q <= high
  BY <1>1, <1>2, <1>3
<1>5. QED
  BY <1>1, <1>4 DEF q

-----------------------------------------------------------------------------
(***************************************************************************)
(* Sums.  MapThenSumSet is a recursive function over the subsets of a set: *)
(* such functions are shown to exist for a finite set, and what is said of *)
(* a sum is said of all of them, one element after the other.  The values  *)
(* that are added are given as a function v.                               *)
(***************************************************************************)

\* The element that is added first.
Picked(s) == CHOOSE x \in s : TRUE

\* it[s] is the sum of v over s, for the subsets s of S.
Adds(it, S, v) ==
  it = [s \in SUBSET S |-> IF s = {} THEN 0 ELSE v[Picked(s)] + it[s \ {Picked(s)}]]

\* Taking the picked element out of a finite set leaves one less.
LEMMA PickedOut ==
  ASSUME NEW S, IsFiniteSet(S), NEW s \in SUBSET S
  PROVE  /\ Cardinality(s) \in Nat /\ (Cardinality(s) = 0 <=> s = {})
         /\ s # {} => /\ Picked(s) \in s /\ s \ {Picked(s)} \in SUBSET S
                      /\ Cardinality(s \ {Picked(s)}) = Cardinality(s) - 1
<1>1. IsFiniteSet(s) /\ Cardinality(s) \in Nat
  BY FS_Subset, FS_CardinalityType
<1>2. Cardinality(s) = 0 <=> s = {}
  BY <1>1, FS_EmptySet
<1>3. s # {} => Picked(s) \in s
  BY DEF Picked
<1>4. s # {} => Cardinality(s \ {Picked(s)}) = Cardinality(s) - 1
  BY <1>1, <1>3, FS_RemoveElement
<1>5. QED
  BY <1>1, <1>2, <1>3, <1>4

LEMMA SumExists ==
  ASSUME NEW S, IsFiniteSet(S), NEW v
  PROVE  \E it : Adds(it, S, v)
<1> DEFINE Step(g, s) == IF s = {} THEN 0 ELSE v[Picked(s)] + g[s \ {Picked(s)}]
           UpTo(g, n) == \A s \in SUBSET S : Cardinality(s) <= n => g[s] = Step(g, s)
           P == {n \in Nat : \E g : UpTo(g, n)}
<1>1. 0 \in P
  <2>1. ASSUME NEW s \in SUBSET S, Cardinality(s) <= 0 PROVE s = {}
    <3>1. Cardinality(s) \in Nat /\ (Cardinality(s) = 0 <=> s = {})
      BY PickedOut
    <3>2. QED
      BY <2>1, <3>1
  <2>2. UpTo([s \in SUBSET S |-> 0], 0)
    BY <2>1
  <2>3. QED
    BY <2>2
<1>2. ASSUME NEW n \in Nat, n \in P PROVE n + 1 \in P
  <2>1. PICK g : UpTo(g, n)
    BY <1>2
  <2> DEFINE h == [s \in SUBSET S |-> IF Cardinality(s) <= n THEN g[s] ELSE Step(g, s)]
  <2>2. ASSUME NEW s \in SUBSET S, Cardinality(s) <= n + 1 PROVE h[s] = Step(h, s)
    <3>1. h[s] = Step(g, s)
      BY <2>1
    <3>2. s # {} => h[s \ {Picked(s)}] = g[s \ {Picked(s)}]
      BY <2>2, PickedOut
    <3> HIDE DEF h
    <3>3. QED
      BY <3>1, <3>2
  <2> HIDE DEF h
  <2>3. UpTo(h, n + 1)
    BY <2>2
  <2> HIDE DEF UpTo
  <2>4. QED
    BY <2>3
<1> HIDE DEF P
<1>3. Nat \subseteq P
  BY <1>1, <1>2, CountUp
<1>4. Cardinality(S) \in Nat /\ \A s \in SUBSET S : Cardinality(s) <= Cardinality(S)
  BY FS_CardinalityType, FS_Subset
<1>5. PICK g : UpTo(g, Cardinality(S))
  BY <1>3, <1>4 DEF P
<1> DEFINE it == [s \in SUBSET S |-> g[s]]
<1>6. ASSUME NEW s \in SUBSET S PROVE it[s] = Step(it, s)
  <2>1. g[s] = Step(g, s)
    BY <1>4, <1>5
  <2>2. s \ {Picked(s)} \in SUBSET S
    OBVIOUS
  <2>3. QED
    BY <2>1, <2>2
<1> HIDE DEF it
<1>7. it = [s \in SUBSET S |-> Step(it, s)]
  <2>1. it = [s \in SUBSET S |-> it[s]]
    BY DEF it
  <2>2. QED
    BY <1>6, <2>1
<1>8. QED
  BY <1>7 DEF Adds

\* A sum of natural numbers is one; it is at most as much as the bound of each
\* times their number, and 0 only if they all are.
LEMMA SumIsBounded ==
  ASSUME NEW S, IsFiniteSet(S), NEW v, NEW it, Adds(it, S, v),
         NEW most \in Nat, \A x \in S : v[x] \in 0..most
  PROVE  /\ it[S] \in Nat /\ it[S] <= most * Cardinality(S)
         /\ it[S] = 0 => \A x \in S : v[x] = 0
<1> DEFINE Holds(s) == /\ it[s] \in Nat /\ it[s] <= most * Cardinality(s)
                       /\ it[s] = 0 => \A x \in s : v[x] = 0
           P == {n \in Nat : \A s \in SUBSET S : Cardinality(s) = n => Holds(s)}
<1>1. 0 \in P
  <2>1. \A s \in SUBSET S : Cardinality(s) = 0 => s = {} /\ it[s] = 0
    BY PickedOut DEF Adds
  <2>2. QED
    BY <2>1
<1>2. ASSUME NEW n \in Nat, n \in P PROVE n + 1 \in P
  <2> SUFFICES ASSUME NEW s \in SUBSET S, Cardinality(s) = n + 1 PROVE Holds(s)
    OBVIOUS
  <2> DEFINE r == s \ {Picked(s)}
  <2>1. s # {} /\ Picked(s) \in s /\ r \in SUBSET S /\ Cardinality(r) = n
    BY PickedOut
  <2>2. it[s] = v[Picked(s)] + it[r]
    BY <2>1 DEF Adds
  <2>3. Holds(r)
    BY <1>2, <2>1
  <2>4. v[Picked(s)] \in 0..most
    BY <2>1
  <2>5. it[s] \in Nat /\ it[s] <= most + most * n
    <3> HIDE DEF r
    <3>1. most * n \in Nat
      OBVIOUS
    <3>2. QED
      BY <2>1, <2>2, <2>3, <2>4, <3>1
  <2>6. most * (n + 1) = most + most * n
    OBVIOUS
  <2>7. it[s] = 0 => \A x \in s : v[x] = 0
    <3>1. it[s] = 0 => v[Picked(s)] = 0 /\ it[r] = 0
      BY <2>2, <2>3, <2>4
    <3>2. QED
      BY <2>3, <3>1
  <2>8. QED
    BY <2>5, <2>6, <2>7
<1> HIDE DEF P
<1>3. Nat \subseteq P
  BY <1>1, <1>2, CountUp
<1>4. Cardinality(S) \in P
  BY <1>3, FS_CardinalityType
<1>5. QED
  BY <1>4 DEF P

\* A sum with one term that counts is that term.
LEMMA SumOfOne ==
  ASSUME NEW S, IsFiniteSet(S), NEW v, NEW it, Adds(it, S, v),
         NEW a \in S, v[a] \in Int, \A x \in S \ {a} : v[x] = 0
  PROVE  it[S] = v[a]
<1> DEFINE Holds(s) == it[s] = IF a \in s THEN v[a] ELSE 0
           P == {n \in Nat : \A s \in SUBSET S : Cardinality(s) = n => Holds(s)}
<1>1. 0 \in P
  <2>1. \A s \in SUBSET S : Cardinality(s) = 0 => s = {} /\ it[s] = 0
    BY PickedOut DEF Adds
  <2>2. QED
    BY <2>1
<1>2. ASSUME NEW n \in Nat, n \in P PROVE n + 1 \in P
  <2> SUFFICES ASSUME NEW s \in SUBSET S, Cardinality(s) = n + 1 PROVE Holds(s)
    OBVIOUS
  <2> DEFINE r == s \ {Picked(s)}
  <2>1. s # {} /\ Picked(s) \in s /\ r \in SUBSET S /\ Cardinality(r) = n
    BY PickedOut
  <2>2. it[s] = v[Picked(s)] + it[r]
    BY <2>1 DEF Adds
  <2>3. Holds(r)
    BY <1>2, <2>1
  <2>4. CASE Picked(s) = a
    BY <2>1, <2>2, <2>3, <2>4
  <2>5. CASE Picked(s) # a
    BY <2>1, <2>2, <2>3, <2>5
  <2>6. QED
    BY <2>4, <2>5
<1> HIDE DEF P
<1>3. Nat \subseteq P
  BY <1>1, <1>2, CountUp
<1>4. Cardinality(S) \in P
  BY <1>3, FS_CardinalityType
<1>5. QED
  BY <1>4 DEF P
=============================================================================
