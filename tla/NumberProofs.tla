---------------------------- MODULE NumberProofs ----------------------------
(***************************************************************************)
(* Facts about numbers, for the proofs about other modules: induction over *)
(* sets of natural numbers, remainders and products, and what rounding to  *)
(* a granule gives, for every size and every granule.                      *)
(***************************************************************************)
EXTENDS GranularRound, FiniteSets, FiniteSetTheorems, WellFoundedInduction, TLAPS

-----------------------------------------------------------------------------
(* Induction.  The library's theorems of induction speak of a predicate;   *)
(* these speak of a set.                                                   *)

\* Every set of natural numbers that is not empty has a least element: the intervals
\* that end in its elements are ordered by inclusion, and they are finite.
LEMMA LeastNumber ==
  ASSUME NEW T, T \subseteq Nat, T # {}
  PROVE  \E n \in T : \A m \in T : n <= m
  <1> DEFINE R == StrictSubsetOrdering(Nat)
             U == {0 .. n : n \in T}
  <1>1. IsWellFoundedOn(R, FiniteSubsetsOf(Nat))
    BY FS_StrictSubsetOrderingWellFounded
  <1>2. U \subseteq FiniteSubsetsOf(Nat) /\ U # {}
    <2>1. ASSUME NEW n \in T PROVE 0 .. n \in FiniteSubsetsOf(Nat)
      <3>1. IsFiniteSet(0 .. n)
        BY FS_Interval
      <3>2. QED
        BY <3>1 DEF FiniteSubsetsOf
    <2>2. QED
      BY <2>1
  <1>3. ASSUME NEW m \in Nat, NEW n \in Nat, m < n PROVE <<0 .. m, 0 .. n>> \in R
    <2>1. n \in 0 .. n /\ n \notin 0 .. m
      BY <1>3
    <2>2. 0 .. m \subseteq 0 .. n /\ 0 .. m # 0 .. n
      BY <1>3, <2>1
    <2>3. 0 .. m \in SUBSET Nat /\ 0 .. n \in SUBSET Nat
      OBVIOUS
    <2>4. QED
      BY <2>2, <2>3 DEF StrictSubsetOrdering
  <1> HIDE DEF R
  <1>4. PICK x \in U : \A y \in U : <<y, x>> \notin R
    <2> HIDE DEF U
    <2>1. QED
      BY <1>1, <1>2, WFMin
  <1>5. PICK n \in T : x = 0 .. n
    OBVIOUS
  <1>6. ASSUME NEW m \in T PROVE n <= m
    <2>1. 0 .. m \in U
      OBVIOUS
    <2>2. ~(m < n)
      BY <1>3, <1>4, <1>5, <2>1
    <2>3. QED
      BY <2>2
  <1>7. QED
    BY <1>6

\* A set that has zero and the successors of its elements has every number.
LEMMA NumberInduction ==
  ASSUME NEW S, 0 \in S, \A n \in S \cap Nat : n + 1 \in S
  PROVE  Nat \subseteq S
  <1> SUFFICES ASSUME Nat \ S # {} PROVE FALSE
    OBVIOUS
  <1>1. PICK n \in Nat \ S : \A m \in Nat \ S : n <= m
    BY LeastNumber
  <1>2. n - 1 \in Nat /\ n - 1 \notin Nat \ S
    BY <1>1
  <1>3. QED
    BY <1>2

-----------------------------------------------------------------------------
(* Rounding.                                                               *)

\* Rounding down takes less than a granule away, and nothing from a multiple.
LEMMA RoundDownBounds ==
  ASSUME NEW d \in Nat, NEW g \in Nat \ {0}
  PROVE  /\ GranularRoundDown(d, g) \in Nat
         /\ GranularRoundDown(d, g) <= d
         /\ d < GranularRoundDown(d, g) + g
         /\ GranularRoundDown(d, g) = d \/ d % g # 0
<1>1. /\ d \div g \in Nat
      /\ d % g \in 0 .. g - 1
      /\ d = g * (d \div g) + (d % g)
  OBVIOUS
<1>2. (d \div g) * g = g * (d \div g)
  BY <1>1
<1>3. CASE d < 1
  <2>1. d = 0 /\ GranularRoundDown(d, g) = 0
    BY <1>3 DEF GranularRoundDown
  <2> QED BY <2>1
<1>4. CASE ~(d < 1)
  <2>1. GranularRoundDown(d, g) = (d \div g) * g
    BY <1>4 DEF GranularRoundDown
  <2>2. GranularRoundDown(d, g) + (d % g) = d
    BY <1>1, <1>2, <2>1
  <2>3. GranularRoundDown(d, g) \in Nat
    BY <1>1, <2>1
  <2> QED BY <1>1, <2>2, <2>3
<1> QED BY <1>3, <1>4

\* Rounding up adds at most a granule, and gives a granule at least.
LEMMA RoundUpBounds ==
  ASSUME NEW d \in Nat, NEW g \in Nat \ {0}
  PROVE  /\ GranularRoundUp(d, g) \in Nat
         /\ d <= GranularRoundUp(d, g)
         /\ GranularRoundUp(d, g) <= d + g
         /\ g <= GranularRoundUp(d, g)
<1> DEFINE down == GranularRoundDown(d, g)
<1>1. /\ down \in Nat
      /\ down <= d
      /\ d < down + g
      /\ down = d \/ d % g # 0
  BY RoundDownBounds
<1>2. GranularRoundUp(d, g) = down + IF d = 0 \/ d % g # 0 THEN g ELSE 0
  BY DEF GranularRoundUp
<1>3. CASE d = 0 \/ d % g # 0
  <2> GranularRoundUp(d, g) = down + g
    BY <1>2, <1>3
  <2> HIDE DEF down
  <2> QED BY <1>1
<1>4. CASE ~(d = 0 \/ d % g # 0)
  <2>1. GranularRoundUp(d, g) = d /\ down = d
    BY <1>1, <1>2, <1>4
  <2>2. g <= d
    <3>1. d = g * (d \div g) /\ d \div g \in Nat
      <4> d = g * (d \div g) + (d % g) /\ d \div g \in Nat
        OBVIOUS
      <4> QED BY <1>4
    <3>2. d \div g # 0
      <4> SUFFICES ASSUME d \div g = 0 PROVE FALSE
        OBVIOUS
      <4>1. d = g * 0
        BY <3>1
      <4> QED BY <4>1, <1>4
    <3>3. PICK m \in Nat : d \div g = m + 1
      BY <3>1, <3>2
    <3>4. d = g * m + g
      BY <3>1, <3>3
    <3> QED BY <3>4
  <2> QED BY <2>1, <2>2
<1> QED BY <1>3, <1>4

\* What is rounded to a granule is a number of granules.
LEMMA RoundMultiple ==
  ASSUME NEW d \in Nat, NEW g \in Nat \ {0}
  PROVE  /\ \E k \in Nat : GranularRoundDown(d, g) = k * g
         /\ \E k \in Nat : GranularRoundUp(d, g) = k * g
<1>1. PICK k \in Nat : GranularRoundDown(d, g) = k * g
  <2>1. d \div g \in Nat /\ 0 = 0 * g
    OBVIOUS
  <2> QED BY <2>1 DEF GranularRoundDown
<1>2. k * g \in Nat /\ (k + 1) * g = k * g + g /\ k + 1 \in Nat
  OBVIOUS
<1>3. GranularRoundUp(d, g) = k * g \/ GranularRoundUp(d, g) = (k + 1) * g
  BY <1>1, <1>2 DEF GranularRoundUp
<1> QED BY <1>1, <1>2, <1>3

\* A number of granules leaves no remainder.
LEMMA MultipleMod ==
  ASSUME NEW n \in Nat, NEW g \in Nat \ {0}
  PROVE  (\E k \in Nat : n = k * g) <=> n % g = 0
<1>1. n \div g \in Nat /\ n = g * (n \div g) + (n % g)
  OBVIOUS
<1>2. PICK q \in Nat : n = g * q + (n % g)
  BY <1>1
<1>3. ASSUME n % g = 0 PROVE \E k \in Nat : n = k * g
  <2>1. n = q * g
    BY <1>2, <1>3
  <2> QED BY <2>1
<1>4. ASSUME NEW k \in Nat, n = k * g PROVE n % g = 0
  BY <1>4
<1> QED BY <1>3, <1>4

\* Less than the modulus, a number is its own remainder.
LEMMA SmallMod == ASSUME NEW m \in Nat \ {0}, NEW n \in Nat, n < m PROVE n % m = n
OBVIOUS

LEMMA ModRange == ASSUME NEW m \in Nat \ {0}, NEW n \in Int PROVE n % m \in 0 .. m - 1
OBVIOUS

\* Products keep the order of their factors.
LEMMA ProductBounds ==
  ASSUME NEW a \in Nat, NEW b \in Nat, NEW c \in Nat, NEW d \in Nat, a <= c, b <= d
  PROVE  a * b \in Nat /\ a * b <= c * d
<1>1. PICK x \in Nat, y \in Nat : c = a + x /\ d = b + y
  <2> c - a \in Nat /\ d - b \in Nat /\ c = a + (c - a) /\ d = b + (d - b)
    OBVIOUS
  <2> QED OBVIOUS
<1>2. c * d = a * b + a * y + x * b + x * y
  BY <1>1
<1>3. a * b \in Nat /\ a * y \in Nat /\ x * b \in Nat /\ x * y \in Nat
  OBVIOUS
<1> QED BY <1>2, <1>3
=============================================================================
