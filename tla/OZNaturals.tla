------------------------------- MODULE OZNaturals -------------------------------
(***************************************************************************)
(* What the proofs of several components use of the naturals.              *)
(***************************************************************************)
EXTENDS Naturals, FiniteSetTheorems, WellFoundedInduction, TLAPS

\* A set of naturals has a least element: the intervals that end in its
\* members are finite sets, and inclusion of finite sets is well founded.
LEMMA LeastNat ==
  ASSUME NEW T \in SUBSET Nat, T # {}
  PROVE  \E n \in T : \A m \in T : n <= m
<1> DEFINE U == {0 .. n : n \in T}
           R == StrictSubsetOrdering(Nat)
<1>1. U \subseteq FiniteSubsetsOf(Nat) /\ U # {}
  <2>1. \A n \in T : IsFiniteSet(0 .. n) /\ (0 .. n) \in SUBSET Nat
    BY FS_Interval
  <2> QED
    BY <2>1 DEF FiniteSubsetsOf
<1>2. IsWellFoundedOn(R, FiniteSubsetsOf(Nat))
  BY FS_StrictSubsetOrderingWellFounded
<1> HIDE DEF U, R
<1>3. PICK x \in U : \A y \in U : ~ (<<y, x>> \in R)
  BY <1>1, <1>2, WFMin
<1>4. PICK n \in T : x = 0 .. n
  BY <1>3 DEF U
<1>5. ASSUME NEW m \in T, m < n PROVE FALSE
  <2>1. (0 .. m) \in U /\ (0 .. m) \in SUBSET Nat /\ (0 .. n) \in SUBSET Nat
    BY DEF U
  <2>2. (0 .. m) \subseteq (0 .. n) /\ n \notin 0 .. m /\ n \in 0 .. n
    BY <1>5
  <2>3. <<0 .. m, 0 .. n>> \in R
    BY <2>1, <2>2 DEF R, StrictSubsetOrdering
  <2> QED
    BY <1>3, <1>4, <2>1, <2>3
<1> QED
  BY <1>5
================================================================================
