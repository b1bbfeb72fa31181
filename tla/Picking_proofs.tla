---------------------------- MODULE Picking_proofs ----------------------------
(***************************************************************************)
(* What Picked returns, for every sequence and every set of positions, and *)
(* the least element of a set of numbers, by which an argument goes down a *)
(* sequence to the first element of a kind.                                *)
(***************************************************************************)
EXTENDS Picking, SequencesExt, FunctionTheorems, SequenceTheorems, FiniteSetTheorems, WellFoundedInduction, TLAPS

\* A set of natural numbers that is not empty has a least element.
LEMMA Least ==
  ASSUME NEW T \in SUBSET Nat, T # {}
  PROVE  \E x \in T : \A y \in T : x <= y
PROOF
  <1> DEFINE R == {ss \in Nat \X Nat : ss[1] < ss[2]}
  <1>1. IsWellFoundedOn(R, Nat)
    BY NatLessThanWellFounded DEF OpToRel
  <1>2. PICK x \in T : \A y \in T : ~(<<y, x>> \in R)
    <2> HIDE DEF R
    <2> QED BY <1>1, WFMin
  <1>3. \A y \in T : ~(y < x)
    BY <1>2
  <1> QED BY <1>3

\* What is picked are the elements at the given positions, in increasing order.
LEMMA PickedPositions ==
  ASSUME NEW S, NEW s \in Seq(S), NEW at \in SUBSET DOMAIN s
  PROVE  /\ Cardinality(at) \in Nat
         /\ Picked(s, at) \in Seq(S)
         /\ Len(Picked(s, at)) = Cardinality(at)
         /\ \E pos \in [1..Cardinality(at) -> at] :
              /\ \A k \in 1..Cardinality(at) : Picked(s, at)[k] = s[pos[k]]
              /\ \A i \in at : \E k \in 1..Cardinality(at) : pos[k] = i
              /\ \A j, k \in 1..Cardinality(at) : j < k => pos[j] < pos[k]
PROOF
  <1> DEFINE n == Cardinality(at)
             Rank(i) == Cardinality({j \in at : j <= i})
             rank == [i \in at |-> Rank(i)]
             pos == [k \in 1..n |-> CHOOSE i \in at : Rank(i) = k]
  <1>1. Len(s) \in Nat /\ DOMAIN s = 1..Len(s) /\ at \subseteq 1..Len(s)
    BY LenProperties
  <1>2. IsFiniteSet(at) /\ n \in Nat
    <2>1. IsFiniteSet(1..Len(s))
      BY <1>1, FS_Interval
    <2>2. IsFiniteSet(at)
      BY <1>1, <2>1, FS_Subset
    <2> QED BY <2>2, FS_CardinalityType
  <1>3. \A i \in at : Rank(i) \in 1..n
    <2> TAKE i \in at
    <2> DEFINE T == {j \in at : j <= i}
    <2>1. IsFiniteSet(T) /\ Cardinality(T) <= n
      BY <1>2, FS_Subset
    <2>2. Cardinality(T) \in Nat /\ Cardinality(T) # 0
      <3>1. i \in T
        BY <1>1
      <3> HIDE DEF T
      <3> QED BY <2>1, <3>1, FS_CardinalityType, FS_EmptySet
    <2> QED BY <2>1, <2>2, <1>2
  <1>4. \A i, j \in at : i < j => Rank(i) < Rank(j)
    <2> TAKE i, j \in at
    <2> HAVE i < j
    <2> DEFINE T == {k \in at : k <= i}
               U == {k \in at : k <= j}
    <2>1. IsFiniteSet(U) /\ T \subseteq U /\ T # U
      <3>1. IsFiniteSet(U)
        BY <1>2, FS_Subset
      <3>2. j \in U /\ j \notin T /\ T \subseteq U
        BY <1>1
      <3> QED BY <3>1, <3>2
    <2>2. Cardinality(T) <= Cardinality(U) /\ Cardinality(T) # Cardinality(U)
      <3> HIDE DEF T, U
      <3> QED BY <2>1, FS_Subset
    <2> QED BY <2>2, <1>3
  <1> HIDE DEF Rank
  <1>5. rank \in Injection(at, 1..n)
    BY <1>1, <1>3, <1>4 DEF Injection, IsInjective
  <1>6. \A k \in 1..n : \E i \in at : Rank(i) = k
    <2>1. IsFiniteSet(1..n) /\ Cardinality(1..n) = n
      BY <1>2, FS_Interval
    <2>2. rank \in Surjection(at, 1..n)
      <3> HIDE DEF rank, n
      <3>1. Cardinality(at) = Cardinality(1..n)
        BY <2>1 DEF n
      <3> QED BY <1>5, <2>1, <3>1, FS_Injection
    <2> QED BY <2>2 DEF Surjection
  <1>7. \A k \in 1..n : pos[k] \in at /\ Rank(pos[k]) = k
    BY <1>6
  <1>8. pos \in [1..n -> at]
    BY <1>7
  <1>9. \A i \in at : pos[Rank(i)] = i
    BY <1>1, <1>3, <1>4, <1>7
  <1>10. \A j, k \in 1..n : j < k => pos[j] < pos[k]
    <2> TAKE j, k \in 1..n
    <2> HAVE j < k
    <2>1. /\ pos[j] \in at /\ pos[k] \in at /\ Rank(pos[j]) = j /\ Rank(pos[k]) = k
          /\ pos[j] \in Nat /\ pos[k] \in Nat
      BY <1>1, <1>7
    <2>2. CASE pos[k] < pos[j]
      BY <1>2, <1>4, <2>1, <2>2
    <2>3. CASE pos[k] = pos[j]
      BY <1>2, <2>1, <2>3
    <2> QED BY <2>1, <2>2, <2>3
  <1>11. Picked(s, at) = [k \in 1..n |-> s[pos[k]]]
    BY DEF Picked, Rank
  <1> HIDE DEF pos
  <1>12. \A k \in 1..n : s[pos[k]] \in S
    BY <1>1, <1>8, ElementOfSeq
  <1>13. Picked(s, at) \in Seq(S) /\ Len(Picked(s, at)) = n
    BY <1>2, <1>11, <1>12
  <1> QED
    BY <1>2, <1>3, <1>8, <1>9, <1>10, <1>11, <1>13

\* What is picked is what stands at the positions.
LEMMA PickedElements ==
  ASSUME NEW S, NEW s \in Seq(S), NEW at \in SUBSET DOMAIN s
  PROVE  /\ Picked(s, at) \in Seq(S)
         /\ ToSet(Picked(s, at)) = {s[i] : i \in at}
PROOF
  <1>1. PICK pos \in [1..Cardinality(at) -> at] :
          /\ \A k \in 1..Cardinality(at) : Picked(s, at)[k] = s[pos[k]]
          /\ \A i \in at : \E k \in 1..Cardinality(at) : pos[k] = i
    BY PickedPositions
  <1>2. Picked(s, at) \in Seq(S) /\ DOMAIN Picked(s, at) = 1..Cardinality(at)
    BY PickedPositions, LenProperties
  <1> QED
    BY <1>1, <1>2 DEF ToSet

\* A concatenation has the elements of both sequences.
LEMMA ToSetConcat ==
  ASSUME NEW S, NEW s \in Seq(S), NEW t \in Seq(S)
  PROVE  s \o t \in Seq(S) /\ ToSet(s \o t) = ToSet(s) \cup ToSet(t)
PROOF
  <1>1. /\ s \o t \in Seq(S) /\ Len(s) \in Nat /\ Len(t) \in Nat
        /\ DOMAIN s = 1..Len(s) /\ DOMAIN t = 1..Len(t)
        /\ DOMAIN (s \o t) = 1..(Len(s) + Len(t))
    BY ConcatProperties, LenProperties
  <1>2. \A i \in 1..Len(s) : (s \o t)[i] = s[i] /\ i \in 1..(Len(s) + Len(t))
    BY <1>1, ConcatProperties
  <1>3. \A i \in 1..Len(t) : (s \o t)[Len(s) + i] = t[i] /\ Len(s) + i \in 1..(Len(s) + Len(t))
    BY <1>1, ConcatProperties
  <1>4. ASSUME NEW i \in 1..(Len(s) + Len(t)) PROVE (s \o t)[i] \in ToSet(s) \cup ToSet(t)
    <2>1. CASE i <= Len(s)
      BY <1>1, <1>2, <2>1 DEF ToSet
    <2>2. CASE i > Len(s)
      <3>1. i - Len(s) \in 1..Len(t) /\ Len(s) + (i - Len(s)) = i
        BY <1>1, <2>2
      <3> QED BY <1>1, <1>3, <3>1 DEF ToSet
    <2> QED BY <1>1, <2>1, <2>2
  <1>5. ToSet(s) \cup ToSet(t) \subseteq ToSet(s \o t)
    BY <1>1, <1>2, <1>3 DEF ToSet
  <1>6. ToSet(s \o t) = {(s \o t)[i] : i \in 1..(Len(s) + Len(t))}
    BY <1>1 DEF ToSet
  <1> QED
    BY <1>1, <1>4, <1>5, <1>6

\* A finite set in some order has the elements of the set.
LEMMA SetToSeqElements ==
  ASSUME NEW S, IsFiniteSet(S)
  PROVE  /\ Cardinality(S) \in Nat
         /\ SetToSeq(S) \in [1..Cardinality(S) -> S]
         /\ SetToSeq(S) \in Seq(S)
         /\ \A i \in S : \E k \in 1..Cardinality(S) : SetToSeq(S)[k] = i
         /\ ToSet(SetToSeq(S)) = S
PROOF
  <1> DEFINE n == Cardinality(S)
             all == SetToSeq(S)
  <1>1. n \in Nat /\ ExistsBijection(1..n, S) /\ IsFiniteSet(1..n) /\ Cardinality(1..n) = n
    BY FS_CardinalityType, FS_Interval
  <1>2. all \in [1..n -> S] /\ IsInjective(all)
    <2>1. \E f \in [1..n -> S] : IsInjective(f)
      BY <1>1 DEF ExistsBijection, Bijection, Injection
    <2> QED BY <2>1 DEF SetToSeq
  <1>3. \A i \in S : \E k \in 1..n : all[k] = i
    <2>1. all \in Injection(1..n, S)
      BY <1>2 DEF Injection
    <2>2. all \in Surjection(1..n, S)
      <3> HIDE DEF all, n
      <3> QED BY <1>1, <2>1, FS_Injection DEF n
    <2> QED BY <2>2 DEF Surjection
  <1> HIDE DEF all
  <1>4. all \in Seq(S) /\ DOMAIN all = 1..n
    BY <1>1, <1>2
  <1> QED
    BY <1>1, <1>2, <1>3, <1>4 DEF ToSet, all
=============================================================================
