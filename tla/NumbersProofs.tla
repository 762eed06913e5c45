---------------------------- MODULE NumbersProofs ----------------------------
(***************************************************************************)
(* Least and greatest elements of sets of numbers, induction, and counting *)
(* in sets of numbers: what the proofs about several components rest on.   *)
(***************************************************************************)
EXTENDS SequencesExt, FiniteSetTheorems, WellFoundedInduction, TLAPS

-----------------------------------------------------------------------------
(***************************************************************************)
(* Least elements, and induction with a set in the place of a predicate.   *)
(***************************************************************************)
\* Every set of natural numbers that has elements has a least one.
LEMMA LeastExists ==
  ASSUME NEW S \in SUBSET Nat, S # {}
  PROVE  \E m \in S : \A n \in S : m <= n
<1> DEFINE R == OpToRel(<, Nat)
<1>1. IsWellFoundedOn(R, Nat)
  BY NatLessThanWellFounded, Zenon
<1>2. PICK x \in S : \A y \in S : ~(<<y, x>> \in R)
  BY <1>1, WFMin
<1>3. ASSUME NEW y \in S, y < x PROVE <<y, x>> \in R
  BY <1>3 DEF OpToRel
<1> HIDE DEF R
<1>4. \A y \in S : ~(y < x)
  BY <1>2, <1>3, Zenon
<1> QED
  BY <1>4

\* Min of the community modules is that element, ...
LEMMA MinOf ==
  ASSUME NEW S \in SUBSET Nat, S # {}
  PROVE  Min(S) \in S /\ \A n \in S : Min(S) <= n
<1>1. \E x \in S : \A y \in S : x =< y
  BY LeastExists
<1> QED
  BY <1>1, Zenon DEF Min

\* ... the only one that is not above any other.
LEMMA MinIs ==
  ASSUME NEW S \in SUBSET Nat, NEW m \in S, \A n \in S : m <= n
  PROVE  Min(S) = m
<1> DEFINE g == Min(S)
<1>1. g \in S /\ g <= m /\ m <= g
  BY MinOf
<1> HIDE DEF g
<1>2. g = m
  BY <1>1
<1> QED
  BY <1>2 DEF g

\* Max of a set that has an element above all others is that element.
LEMMA MaxIs ==
  ASSUME NEW S \in SUBSET Nat, NEW m \in S, \A n \in S : n <= m
  PROVE  Max(S) = m
<1>1. \E x \in S : \A y \in S : x >= y
  OBVIOUS
<1>2. Max(S) \in S /\ \A y \in S : Max(S) >= y
  BY <1>1, Zenon DEF Max
<1> DEFINE g == Max(S)
<1>3. g \in S /\ g >= m
  BY <1>2
<1> HIDE DEF g
<1>4. g = m
  BY <1>3
<1> QED
  BY <1>4 DEF g

\* A bounded set that has elements has a greatest one, and that is Max.
LEMMA MaxOf ==
  ASSUME NEW n \in Nat, NEW S \in SUBSET (1..n), S # {}
  PROVE  Max(S) \in S /\ \A k \in S : k <= Max(S)
<1> DEFINE U == {b \in Nat : \A k \in S : k <= b}
<1>1. U \in SUBSET Nat /\ n \in U
  OBVIOUS
<1>2. PICK m \in U : \A b \in U : m <= b
  BY <1>1, LeastExists
<1>3. m \in S
  <2> SUFFICES ASSUME m \notin S PROVE FALSE
    OBVIOUS
  <2>1. \A k \in S : k \in Nat /\ k >= 1 /\ k <= m /\ k # m
    BY <1>2
  <2>2. m \in Nat /\ m >= 1
    <3>1. PICK k \in S : TRUE
      OBVIOUS
    <3>2. k \in Nat /\ k >= 1 /\ k <= m
      BY <2>1
    <3>3. m \in Nat
      BY <1>2
    <3> QED
      BY <3>2, <3>3
  <2>3. m - 1 \in U
    BY <2>1, <2>2
  <2> QED
    BY <1>2, <2>2, <2>3
<1>4. S \in SUBSET Nat /\ \A k \in S : k <= m
  BY <1>2
<1>5. Max(S) = m
  BY <1>3, <1>4, MaxIs
<1> QED
  BY <1>3, <1>4, <1>5

\* What holds at zero and passes from each number to the next holds of all.
LEMMA Induction ==
  ASSUME NEW S \in SUBSET Nat, 0 \in S, \A n \in S : n + 1 \in S
  PROVE  S = Nat
<1> SUFFICES ASSUME Nat \ S # {} PROVE FALSE
  OBVIOUS
<1>1. PICK m \in Nat \ S : \A n \in Nat \ S : m <= n
  BY LeastExists
<1>2. m - 1 \in Nat /\ m - 1 \notin Nat \ S
  BY <1>1
<1> QED
  BY <1>1, <1>2
=============================================================================
