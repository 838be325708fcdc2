----------------------------- MODULE NumberLemmas ---------------------------
(***************************************************************************)
(* Facts about sets of natural numbers that the proofs of several          *)
(* components need.                                                        *)
(***************************************************************************)
EXTENDS Naturals, FiniteSetsExt, WellFoundedInduction, TLAPS

\* Every nonempty set of natural numbers has a least element.
LEMMA LeastNumber ==
  ASSUME NEW S \in SUBSET Nat, S # {}
  PROVE  \E m \in S : \A n \in S : m <= n
<1> DEFINE less == {ss \in Nat \X Nat : ss[1] < ss[2]}
<1>1. IsWellFoundedOn(less, Nat)
  BY NatLessThanWellFounded DEF OpToRel
<1>2. \A m, n \in Nat : n < m => <<n, m>> \in less
  OBVIOUS
<1> HIDE DEF less
<1>3. PICK m \in S : \A n \in S : ~ (<<n, m>> \in less)
  BY <1>1, WFMin
<1>4. \A n \in S : ~(n < m)
  BY <1>2, <1>3
<1>5. QED
  BY <1>4

\* Min is that element.
LEMMA MinIs ==
  ASSUME NEW S \in SUBSET Nat, S # {}
  PROVE  Min(S) \in S /\ \A n \in S : Min(S) <= n
  BY LeastNumber DEF Min

\* Induction, for a set in the place of a predicate.
LEMMA SetInduction ==
  ASSUME NEW S, 0 \in S, \A n \in Nat : n \in S => n + 1 \in S
  PROVE  Nat \subseteq S
<1> SUFFICES ASSUME Nat \ S # {} PROVE FALSE
  OBVIOUS
<1>1. PICK m \in Nat \ S : \A n \in Nat \ S : m <= n
  BY LeastNumber
<1>2. m # 0 /\ m - 1 \in Nat /\ m = (m - 1) + 1
  OBVIOUS
<1>3. m - 1 \in S
  BY <1>1, <1>2
<1>4. QED
  BY <1>2, <1>3

\* Division with remainder.
LEMMA DivMod ==
  ASSUME NEW n \in Nat, NEW s \in Nat \ {0}
  PROVE  n \div s \in Nat /\ n % s \in 0 .. s - 1 /\ n = (n \div s) * s + (n % s)
  OBVIOUS

\* Multiples of a number are ordered as their factors are.
LEMMA MultiplesOrder ==
  ASSUME NEW m \in Nat, NEW n \in Nat, NEW s \in Nat \ {0}, m * s < (n + 1) * s
  PROVE  m <= n
<1> SUFFICES ASSUME m >= n + 1 PROVE FALSE
  OBVIOUS
<1>1. PICK k \in Nat : m = n + 1 + k
  <2>1. m - (n + 1) \in Nat /\ m = n + 1 + (m - (n + 1))
    OBVIOUS
  <2>2. QED
    BY <2>1
<1>2. m * s = (n + 1) * s + k * s
  BY <1>1
<1>3. k * s \in Nat /\ (n + 1) * s \in Nat
  OBVIOUS
<1>4. QED
  BY <1>2, <1>3

\* Rounding up n + s to a multiple of s leaves it below any multiple it is below.
LEMMA RoundUpToMultiple ==
  ASSUME NEW n \in Nat \ {0}, NEW s \in Nat \ {0}, NEW k \in Nat, n + s <= k * s
  PROVE  LET r == ((n + s + s - 1) \div s) * s
         IN  r \in Nat /\ r > s /\ r <= k * s
<1>1. PICK m \in Nat : m = n + s + s - 1
  OBVIOUS
<1>2. PICK q \in Nat, r \in 0 .. s - 1 : q = m \div s /\ m = q * s + r
  BY DivMod
<1>3. PICK x \in Nat : x = q * s
  OBVIOUS
<1>4. x > s
  <2>1. x >= s + n + s - 1 - (s - 1)
    BY <1>1, <1>2, <1>3
  <2>2. QED
    BY <2>1
<1>5. q <= k
  <2>1. x <= m
    BY <1>2, <1>3
  <2>2. m < k * s + s /\ k * s \in Nat
    BY <1>1
  <2>3. (k + 1) * s = k * s + s
    OBVIOUS
  <2>4. q * s < (k + 1) * s
    BY <2>1, <2>2, <2>3, <1>3
  <2>5. QED
    BY <2>4, MultiplesOrder
<1>6. x <= k * s
  BY <1>5, <1>3
<1>7. QED
  BY <1>1, <1>2, <1>3, <1>4, <1>6
=============================================================================
