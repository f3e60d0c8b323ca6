--------------------------- MODULE CountingLemmas ---------------------------
(***************************************************************************)
(* Counting the members of a finite set that meet a condition, when one    *)
(* member at a time may start or stop to meet it.  The ledgers' balances   *)
(* count threads in this way.                                              *)
(***************************************************************************)
EXTENDS Integers, FiniteSetTheorems, TLAPS

Weight(x, S) == IF x \in S THEN 1 ELSE 0

LEMMA CountSubset ==
  ASSUME NEW T, IsFiniteSet(T), NEW S \in SUBSET T
  PROVE  IsFiniteSet(S) /\ Cardinality(S) \in Nat
BY FS_Subset, FS_CardinalityType

(* Two subsets that agree but for x.                                       *)
LEMMA CountStep ==
  ASSUME NEW T, IsFiniteSet(T), NEW S \in SUBSET T, NEW R \in SUBSET T, NEW x,
         S \ {x} = R \ {x}
  PROVE  /\ Cardinality(S) \in Nat /\ Cardinality(R) \in Nat
         /\ Cardinality(R) = Cardinality(S) + Weight(x, R) - Weight(x, S)
<1>1. /\ IsFiniteSet(S) /\ Cardinality(S) \in Nat
      /\ IsFiniteSet(R) /\ Cardinality(R) \in Nat
  BY CountSubset
<1>2. Cardinality(S \ {x}) = Cardinality(S) - Weight(x, S)
  <2>1. Cardinality(S \ {x}) = IF x \in S THEN Cardinality(S) - 1 ELSE Cardinality(S)
    BY <1>1, FS_RemoveElement
  <2> QED
    BY <1>1, <2>1 DEF Weight
<1>3. Cardinality(R \ {x}) = Cardinality(R) - Weight(x, R)
  <2>1. Cardinality(R \ {x}) = IF x \in R THEN Cardinality(R) - 1 ELSE Cardinality(R)
    BY <1>1, FS_RemoveElement
  <2> QED
    BY <1>1, <2>1 DEF Weight
<1>4. Cardinality(S \ {x}) = Cardinality(R \ {x})
  OBVIOUS
<1>5. Weight(x, S) \in {0, 1} /\ Weight(x, R) \in {0, 1}
  BY DEF Weight
<1> QED
  BY <1>1, <1>2, <1>3, <1>4, <1>5

(* At most one member: the count is 0 or 1.                                *)
LEMMA CountAtMostOne ==
  ASSUME NEW T, IsFiniteSet(T), NEW S \in SUBSET T,
         \A x, y \in S : x = y
  PROVE  /\ Cardinality(S) \in {0, 1}
         /\ Cardinality(S) = 1 <=> S # {}
<1>1. IsFiniteSet(S)
  BY CountSubset
<1>2. CASE S = {}
  BY <1>2, FS_EmptySet
<1>3. CASE S # {}
  <2>1. PICK x \in S : S = {x}
    BY <1>3
  <2> QED
    BY <1>3, <2>1, FS_Singleton
<1> QED
  BY <1>2, <1>3
=============================================================================
