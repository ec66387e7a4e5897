---------------------------- MODULE DataInduction -----------------------------
(***************************************************************************)
(* Induction on the natural numbers for the proofs about folds and lists.  *)
(* The library's induction theorems are about a predicate, this one about  *)
(* a set: a proof collects the numbers that have the property in a set and *)
(* shows that the set has 0 and is closed under the successor.             *)
(***************************************************************************)
EXTENDS Integers, FiniteSetTheorems, TLAPS

\* A set that has 0 and the successor of each of its numbers has them all.  If m
\* were not in it, k |-> k + 1 would map the numbers up to m that are in it one to
\* one into those but 0, which are one fewer.
LEMMA InductionOnNat ==
  ASSUME NEW S, 0 \in S, \A n \in Nat : n \in S => n + 1 \in S
  PROVE  Nat \subseteq S
<1> SUFFICES ASSUME NEW m \in Nat, m \notin S PROVE FALSE
  OBVIOUS
<1> DEFINE A == {k \in 0..m : k \in S}
           B == A \ {0}
           f == [k \in A |-> k + 1]
<1>1. IsFiniteSet(A) /\ 0 \in A
  <2>1. IsFiniteSet(0..m)
    BY FS_Interval
  <2> QED
    BY <2>1, FS_Subset
<1>2. IsFiniteSet(B) /\ Cardinality(B) = Cardinality(A) - 1
  BY <1>1, FS_RemoveElement
<1>3. f \in [A -> B]
  OBVIOUS
<1>4. \A i, k \in A : f[i] = f[k] => i = k
  OBVIOUS
<1>5. Cardinality(A) \in Nat
  BY <1>1, FS_CardinalityType
<1> HIDE DEF A, B, f
<1> QED
  BY <1>1, <1>2, <1>3, <1>4, <1>5, FS_PigeonHole

\* A set of natural numbers has a least one, the one that Min chooses.
LEMMA LeastNat ==
  ASSUME NEW S \in SUBSET Nat, S # {}
  PROVE  \E x \in S : \A y \in S : x =< y
<1> SUFFICES ASSUME \A x \in S : \E y \in S : y < x PROVE FALSE
  OBVIOUS
<1> DEFINE A == {n \in Nat : \A k \in 0..n : k \notin S}
<1>1. 0 \in A
  OBVIOUS
<1>2. ASSUME NEW n \in Nat, n \in A PROVE n + 1 \in A
  <2>1. n + 1 \notin S
    <3> SUFFICES ASSUME n + 1 \in S PROVE FALSE
      OBVIOUS
    <3>1. PICK y \in S : y < n + 1
      OBVIOUS
    <3> QED
      BY <1>2, <3>1
  <2> QED
    BY <1>2, <2>1
<1>3. Nat \subseteq A
  <2> HIDE DEF A
  <2> QED
    BY <1>1, <1>2, InductionOnNat
<1>4. PICK z \in S : TRUE
  OBVIOUS
<1> QED
  BY <1>3, <1>4

===============================================================================
