------------------------------- MODULE Extrema -------------------------------
(***************************************************************************)
(* Least and greatest elements of sets of integers: what Min and Max of    *)
(* FiniteSetsExt return, and when there is such an element.                *)
(***************************************************************************)
EXTENDS Integers, FiniteSetsExt, WellFoundedInduction, TLAPS

\* What is not above any element is the minimum, and likewise the maximum.
LEMMA MinIs ==
  ASSUME NEW S \in SUBSET Int, NEW m \in S, \A x \in S : m <= x
  PROVE  Min(S) = m
<1>1. \E x \in S : \A y \in S : x <= y
  OBVIOUS
<1>2. Min(S) \in S /\ \A y \in S : Min(S) <= y
  BY <1>1, Zenon DEF Min
<1>3. Min(S) <= m /\ m <= Min(S) /\ Min(S) \in Int /\ m \in Int
  BY <1>2
<1> QED BY <1>3

LEMMA MaxIs ==
  ASSUME NEW S \in SUBSET Int, NEW m \in S, \A x \in S : x <= m
  PROVE  Max(S) = m
<1>1. \E x \in S : \A y \in S : x >= y
  OBVIOUS
<1>2. Max(S) \in S /\ \A y \in S : Max(S) >= y
  BY <1>1, Zenon DEF Max
<1>3. Max(S) >= m /\ Max(S) <= m /\ Max(S) \in Int /\ m \in Int
  BY <1>2
<1> QED BY <1>3

\* A nonempty set of naturals has a least element.
LEMMA HasMin ==
  ASSUME NEW S \in SUBSET Nat, S # {}
  PROVE  \E m \in S : \A x \in S : m <= x
<1>1. IsWellFoundedOn(OpToRel(<, Nat), Nat)
  BY NatLessThanWellFounded
<1>2. PICK m \in S : \A y \in S : ~(<<y, m>> \in OpToRel(<, Nat))
  BY <1>1, WFMin
<1>3. ASSUME NEW y \in S PROVE m <= y
  <2>1. y \in Nat /\ m \in Nat /\ <<y, m>> \in Nat \X Nat
    OBVIOUS
  <2>2. ~(y < m)
    BY <1>2, <2>1 DEF OpToRel
  <2> QED BY <2>1, <2>2
<1> QED BY <1>3

\* A set of integers with an upper bound has a greatest element.
LEMMA HasGreatest ==
  ASSUME NEW n \in Int, NEW S \in SUBSET Int, S # {}, \A x \in S : x <= n
  PROVE  \E m \in S : \A x \in S : x <= m
<1> DEFINE T == {k \in Nat : n - k \in S}
<1>1. PICK s \in S : TRUE
  OBVIOUS
<1>2. n - s \in Nat /\ n - (n - s) = s
  OBVIOUS
<1>3. T \in SUBSET Nat /\ n - s \in T
  BY <1>2
<1>4. PICK k \in T : \A j \in T : k <= j
  BY <1>3, HasMin
<1>5. ASSUME NEW x \in S PROVE x <= n - k
  <2>1. n - x \in Nat /\ n - (n - x) = x
    OBVIOUS
  <2>2. n - x \in T
    BY <2>1
  <2>3. k <= n - x /\ k \in Nat
    BY <1>4, <2>2
  <2> QED BY <2>3
<1> QED BY <1>4, <1>5

\* The last of a nonempty set of places.
LEMMA HasMax ==
  ASSUME NEW n \in Nat, NEW S \in SUBSET (1..n), S # {}
  PROVE  \E m \in S : \A x \in S : x <= m
<1>1. S \in SUBSET Int /\ n \in Int /\ \A x \in S : x <= n
  OBVIOUS
<1> QED BY <1>1, HasGreatest
=============================================================================
