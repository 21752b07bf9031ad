------------------------------- MODULE Extrema ------------------------------
(***************************************************************************)
(* Least and greatest members of sets of naturals, from the well-founded   *)
(* order of the naturals: what "the next entry of a call" and "the latest  *)
(* life of an inode" rest on.                                              *)
(***************************************************************************)
EXTENDS Naturals, TLAPS, WellFoundedInduction

\* A set of naturals with a member has a least one.
LEMMA LeastOf ==
  ASSUME NEW S \in SUBSET Nat, S # {}
  PROVE  \E m \in S : \A k \in S : m <= k
<1>1. \E m \in S : \A k \in S : ~(<<k, m>> \in OpToRel(<, Nat))
  BY NatLessThanWellFounded, WFMin
<1>2. \A k, m \in Nat : ~(<<k, m>> \in OpToRel(<, Nat)) => m <= k
  BY DEF OpToRel
<1>. QED  BY <1>1, <1>2

\* And a greatest one if it has a bound.
LEMMA GreatestOf ==
  ASSUME NEW n \in Nat, NEW S \in SUBSET (0 .. n), S # {}
  PROVE  \E m \in S : \A k \in S : k <= m
<1>. DEFINE T == {m \in Nat : \A k \in S : k <= m}
<1>0. \A k \in S : k \in Nat /\ k <= n
  OBVIOUS
<1>1. n \in T /\ T \in SUBSET Nat
  BY <1>0
<1>2. PICK m \in T : \A k \in T : m <= k
  <2>. HIDE DEF T
  <2>. QED  BY <1>1, LeastOf
<1>3. CASE m \in S
  BY <1>3
<1>4. CASE m \notin S
  <2>1. \A k \in S : k < m
    BY <1>0, <1>4
  <2>2. PICK k \in S : TRUE
    OBVIOUS
  <2>3. m # 0
    BY <1>0, <2>1, <2>2
  <2>4. m - 1 \in T
    BY <1>0, <2>1, <2>3
  <2>. QED  BY <1>2, <2>4
<1>. QED  BY <1>3, <1>4

=============================================================================
