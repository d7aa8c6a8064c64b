------------------------------ MODULE Induction ------------------------------
(***************************************************************************)
(* Induction as a statement about sets: what fails somewhere has a least   *)
(* place where it fails.  The theorems of the library that take a          *)
(* predicate as a parameter cannot be instantiated by the provers; these   *)
(* two take the set of the counterexamples instead.                        *)
(***************************************************************************)
EXTENDS Integers, FiniteSetTheorems, NaturalsInduction, WellFoundedInduction, TLAPS

\* A set of natural numbers has a least one.
LEMMA LeastNumber ==
    ASSUME NEW T, T \subseteq Nat, T # {}
    PROVE  \E n \in T : \A m \in T : n <= m
<1> DEFINE R == OpToRel(<, Nat)
<1>1. IsWellFoundedOn(R, Nat)
  BY NatLessThanWellFounded
<1> HIDE DEF R
<1>2. PICK n \in T : \A m \in T : ~(<<m, n>> \in R)
  BY <1>1, WFMin
<1>3. ASSUME NEW m \in T PROVE n <= m
  <2>1. <<m, n>> \notin R /\ m \in Nat /\ n \in Nat
    BY <1>2
  <2>2. ~(m < n)
    BY <2>1 DEF R, OpToRel
  <2> QED BY <2>1, <2>2
<1> QED BY <1>3

\* A family of subsets of a finite set has a member that contains no other.
LEMMA SmallestSubset ==
    ASSUME NEW S, IsFiniteSet(S), NEW T, T \subseteq SUBSET S, T # {}
    PROVE  \E A \in T : \A B \in T : B \subseteq A => B = A
<1> DEFINE R == StrictSubsetOrdering(S)
<1>1. IsWellFoundedOn(R, SUBSET S)
  BY FS_StrictSubsetOrderingWellFounded, FS_FiniteSubsetsOfFinite
<1> HIDE DEF R
<1>2. PICK A \in T : \A B \in T : ~(<<B, A>> \in R)
  BY <1>1, WFMin
<1>3. ASSUME NEW B \in T, B \subseteq A PROVE B = A
  <2>1. <<B, A>> \notin R
    BY <1>2
  <2>2. A \in SUBSET S /\ B \in SUBSET S
    OBVIOUS
  <2> QED BY <1>3, <2>1, <2>2 DEF R, StrictSubsetOrdering
<1> QED BY <1>3

=============================================================================
