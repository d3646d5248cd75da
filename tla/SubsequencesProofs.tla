------------------------- MODULE SubsequencesProofs -------------------------
(***************************************************************************)
(* Lemmas about the part of a sequence at a finite set of positions: each   *)
(* of them has a place in it, each place has one of them, and the order of  *)
(* the sequence is kept.                                                     *)
(***************************************************************************)
EXTENDS Subsequences, FiniteSetTheorems, TLAPS

(* The positions up to i are finitely many, and a rank is a number.          *)
LEMMA RankType ==
  ASSUME NEW idx \in SUBSET Nat, IsFiniteSet(idx), NEW i \in Nat
  PROVE  Rank(i, idx) \in 0..Cardinality(idx)
<1>1. {j \in idx : j <= i} \in SUBSET idx
  OBVIOUS
<1> QED
  BY <1>1, FS_Subset, FS_CardinalityType DEF Rank

(* A later position has a higher rank: the ranks of idx differ.               *)
LEMMA RankGrows ==
  ASSUME NEW idx \in SUBSET Nat, IsFiniteSet(idx), NEW i \in Nat, NEW j \in idx, i < j
  PROVE  Rank(i, idx) < Rank(j, idx)
<1> DEFINE low == {k \in idx : k <= i}
<1> DEFINE high == {k \in idx : k <= j}
<1>1. j \in Nat /\ j <= j /\ ~(j <= i) /\ \A k \in idx : k <= i => k <= j
  OBVIOUS
<1>2. low \in SUBSET high /\ high \in SUBSET idx
  BY <1>1
<1>3. j \in high /\ j \notin low
  BY <1>1
<1> HIDE DEF low, high
<1>4. IsFiniteSet(high) /\ IsFiniteSet(low)
  BY <1>2, FS_Subset
<1>5. Cardinality(high) \in Nat /\ Cardinality(low) \in Nat
  BY <1>4, FS_CardinalityType
<1>6. Cardinality(low) <= Cardinality(high) /\ Cardinality(low) # Cardinality(high)
  BY <1>2, <1>3, <1>4, FS_Subset
<1>7. Cardinality(low) < Cardinality(high)
  BY <1>5, <1>6
<1> QED
  BY <1>7 DEF Rank, low, high

\* The rank of one of the positions is one of their numbers.
LEMMA RankMember ==
  ASSUME NEW idx \in SUBSET Nat, IsFiniteSet(idx), NEW i \in idx
  PROVE  Rank(i, idx) \in 1..Cardinality(idx)
<1> DEFINE low == {k \in idx : k <= i}
<1>1. low \in SUBSET idx /\ i \in low
  OBVIOUS
<1>2. IsFiniteSet(low) /\ low # {} /\ Cardinality(low) \in Nat
  BY <1>1, FS_Subset, FS_CardinalityType
<1>3. Cardinality(low) # 0
  BY <1>2, FS_EmptySet
<1> QED
  BY <1>2, <1>3, RankType DEF Rank

(* Every number up to the size of idx is the rank of one of its positions.    *)
LEMMA RankOnto ==
  ASSUME NEW idx \in SUBSET Nat, IsFiniteSet(idx), NEW n \in 1..Cardinality(idx)
  PROVE  \E i \in idx : Rank(i, idx) = n
<1> DEFINE T == 1..Cardinality(idx)
<1> DEFINE f == [i \in idx |-> Rank(i, idx)]
<1>1. Cardinality(idx) \in Nat
  BY FS_CardinalityType
<1>2. IsFiniteSet(T) /\ Cardinality(T) = Cardinality(idx)
  BY <1>1, FS_Interval
<1>3. f \in [idx -> T]
  BY RankMember
<1>4. \A i, j \in idx : f[i] = f[j] => i = j
  <2>1. SUFFICES ASSUME NEW i \in idx, NEW j \in idx, i < j
                 PROVE  Rank(i, idx) # Rank(j, idx)
    OBVIOUS
  <2>2. Rank(i, idx) \in Nat /\ Rank(j, idx) \in Nat
    BY RankType
  <2> QED
    BY <2>1, <2>2, RankGrows
<1>5. f \in Injection(idx, T)
  BY <1>3, <1>4 DEF Injection, IsInjective
<1>6. f \in Surjection(idx, T)
  BY <1>2, <1>5, FS_Injection
<1> QED
  BY <1>6 DEF Surjection

(* What stands at a place of the part stands at a position of idx.            *)
LEMMA PickFrom ==
  ASSUME NEW s, NEW idx \in SUBSET Nat, IsFiniteSet(idx), NEW n \in 1..Cardinality(idx)
  PROVE  \E i \in idx : Rank(i, idx) = n /\ Pick(s, idx)[n] = s[i]
<1> DEFINE i == CHOOSE k \in idx : Rank(k, idx) = n
<1>1. i \in idx /\ Rank(i, idx) = n
  BY RankOnto
<1>2. Pick(s, idx)[n] = s[i]
  BY DEF Pick
<1> QED
  BY <1>1, <1>2

(* And every position of idx has its place.                                    *)
LEMMA PickHolds ==
  ASSUME NEW s, NEW idx \in SUBSET Nat, IsFiniteSet(idx), NEW i \in idx
  PROVE  Rank(i, idx) \in 1..Cardinality(idx) /\ Pick(s, idx)[Rank(i, idx)] = s[i]
<1>1. Rank(i, idx) \in 1..Cardinality(idx)
  BY RankMember
<1>2. PICK k \in idx : Rank(k, idx) = Rank(i, idx) /\ Pick(s, idx)[Rank(i, idx)] = s[k]
  BY <1>1, PickFrom
<1>3. Rank(i, idx) \in Nat /\ Rank(k, idx) \in Nat
  BY RankType
<1>4. ~(i < k) /\ ~(k < i)
  BY <1>2, <1>3, RankGrows
<1> QED
  BY <1>1, <1>2, <1>4

(* The part is a sequence of as many elements as there are positions.          *)
LEMMA PickLen ==
  ASSUME NEW S, NEW s \in Seq(S), NEW idx \in SUBSET DOMAIN s
  PROVE  /\ IsFiniteSet(idx) /\ Cardinality(idx) \in Nat
         /\ Pick(s, idx) \in Seq(S) /\ Len(Pick(s, idx)) = Cardinality(idx)
<1>1. IsFiniteSet(DOMAIN s) /\ idx \in SUBSET Nat
  BY FS_Interval
<1>2. IsFiniteSet(idx) /\ Cardinality(idx) \in Nat
  BY <1>1, FS_Subset, FS_CardinalityType
<1>3. \A n \in 1..Cardinality(idx) : Pick(s, idx)[n] \in S
  BY <1>1, <1>2, PickFrom
<1>4. Pick(s, idx) \in [1..Cardinality(idx) -> S]
  BY <1>3 DEF Pick
<1> QED
  BY <1>2, <1>4

=============================================================================
