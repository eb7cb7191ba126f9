--------------------------- MODULE LeastTheorems ---------------------------
(***************************************************************************)
(* What Min and Max of FiniteSetsExt choose: cursors are moved to the next *)
(* item above or below that can be selected.                               *)
(***************************************************************************)
EXTENDS Integers, FiniteSetsExt, TLAPS, WellFoundedInduction

(* A set of naturals that is not empty has the least element Min chooses.  *)
LEMMA MinIsLeast ==
  ASSUME NEW S \in SUBSET Nat, S # {}
  PROVE  Min(S) \in S /\ \A y \in S : Min(S) <= y
<1> DEFINE R == OpToRel(<, Nat)
<1>1. PICK x \in S : \A y \in S : <<y, x>> \notin R
  <2> HIDE DEF R
  <2>1. IsWellFoundedOn(R, Nat) BY NatLessThanWellFounded DEF R
  <2> QED BY <2>1, WFMin
<1>2. \A y \in S : ~(y < x) BY <1>1 DEF OpToRel
<1>3. \A y \in S : x <= y BY <1>2
<1> QED BY <1>3 DEF Min

(* A set of numbers from 1 to n that is not empty has the greatest element *)
(* Max chooses.                                                            *)
LEMMA MaxIsGreatest ==
  ASSUME NEW n \in Nat, NEW S \in SUBSET (1..n), S # {}
  PROVE  Max(S) \in S
<1> DEFINE T == {n - k : k \in S}
<1>1. T \in SUBSET Nat /\ T # {}
  <2>1. PICK x \in S : TRUE OBVIOUS
  <2>2. n - x \in T OBVIOUS
  <2>3. \A k \in S : n - k \in Nat OBVIOUS
  <2> QED BY <2>2, <2>3
<1>2. PICK x \in S : Min(T) = n - x BY <1>1, MinIsLeast
<1>3. \A y \in S : n - x <= n - y BY <1>1, <1>2, MinIsLeast
<1>4. \A y \in S : x >= y BY <1>3
<1> QED BY <1>4 DEF Max
=============================================================================
