--------------------------- MODULE SubsequenceProofs ---------------------------
(***************************************************************************)
(* Lemmas on numbers, ranks and kept items that the proofs of several       *)
(* components need.  Induction over data is done with LeastNat: among the   *)
(* numbers for which a claim fails there would be a least one.              *)
(***************************************************************************)
EXTENDS Subsequences, FiniteSetTheorems, WellFoundedInduction, TLAPS

(* Every nonempty set of naturals has a least element: what induction over      *)
(* data needs.                                                              *)
LEMMA LeastNat ==
    ASSUME NEW T \in SUBSET Nat, T # {}
    PROVE  \E m \in T : \A k \in T : m <= k
<1> DEFINE R == {ss \in Nat \X Nat : ss[1] < ss[2]}
<1>1. IsWellFoundedOn(OpToRel(<, Nat), Nat)
  BY NatLessThanWellFounded
<1>2. OpToRel(<, Nat) = R
  BY Zenon DEF OpToRel
<1>3. IsWellFoundedOn(R, Nat)
  BY <1>1, <1>2, Zenon
<1> HIDE DEF R
<1>4. PICK x \in T : \A y \in T : ~ (<<y, x>> \in R)
  BY <1>3, WFMin, Zenon
<1>5. ASSUME NEW y \in T PROVE x <= y
  <2>1. ~ (<<y, x>> \in R)
    BY <1>4
  <2>2. <<y, x>> \in Nat \X Nat /\ <<y, x>>[1] = y /\ <<y, x>>[2] = x
    OBVIOUS
  <2>3. ~ (y < x)
    BY <2>1, <2>2 DEF R
  <2> QED
    BY <2>3
<1> QED
  BY <1>5

(* The rank counts the positions one by one.                                    *)
LEMMA RankStep ==
    ASSUME NEW n \in Nat, NEW K \in SUBSET (1..n)
    PROVE  /\ Rank(K, 0) = 0
           /\ \A i \in 0..n : Rank(K, i) \in Nat
           /\ \A i \in 1..n : Rank(K, i) = Rank(K, i - 1) + IF i \in K THEN 1 ELSE 0
           /\ Rank(K, n) = Cardinality(K) /\ Cardinality(K) \in Nat /\ IsFiniteSet(K)
<1> DEFINE UpTo(i) == {j \in K : j <= i}
<1>1. IsFiniteSet(K) /\ Cardinality(K) \in Nat
  <2>1. IsFiniteSet(1..n)
    BY FS_Interval
  <2> HIDE DEF UpTo
  <2> QED
    BY <2>1, FS_Subset, FS_CardinalityType
<1>2. \A i : Rank(K, i) = Cardinality(UpTo(i))
  BY Zenon DEF Rank
<1>3. UpTo(0) = {} /\ UpTo(n) = K /\ \A i : UpTo(i) \subseteq K
  <2>1. \A j \in K : j \in Nat /\ j <= n /\ ~(j <= 0)
    OBVIOUS
  <2> QED
    BY <2>1, Zenon
<1>4. ASSUME NEW i \in 1..n
      PROVE  /\ i - 1 \in 0..n
             /\ i \in K => UpTo(i) = UpTo(i - 1) \cup {i} /\ i \notin UpTo(i - 1)
             /\ i \notin K => UpTo(i) = UpTo(i - 1)
  <2>1. \A j \in K : (j <= i <=> (j <= i - 1 \/ j = i)) /\ (j <= i - 1 => j # i)
    OBVIOUS
  <2>2. i - 1 \in 0..n /\ i <= i
    OBVIOUS
  <2>3. i \in K => UpTo(i) = UpTo(i - 1) \cup {i} /\ i \notin UpTo(i - 1)
    BY <2>1, <2>2
  <2>4. i \notin K => UpTo(i) = UpTo(i - 1)
    BY <2>1
  <2> QED
    BY <2>2, <2>3, <2>4
<1> HIDE DEF UpTo
<1>5. \A i : IsFiniteSet(UpTo(i))
  BY <1>1, <1>3, FS_Subset
<1>6. \A i : Rank(K, i) \in Nat
  BY <1>2, <1>5, FS_CardinalityType
<1>7. Rank(K, 0) = 0
  BY <1>2, <1>3, FS_EmptySet
<1>8. ASSUME NEW i \in 1..n
      PROVE  Rank(K, i) = Rank(K, i - 1) + IF i \in K THEN 1 ELSE 0
  <2>1. CASE i \in K
    <3>1. Cardinality(UpTo(i)) = Cardinality(UpTo(i - 1)) + 1
      BY <1>4, <1>5, <2>1, FS_AddElement
    <3> QED
      BY <1>2, <2>1, <3>1
  <2>2. CASE i \notin K
    <3>1. Rank(K, i) = Rank(K, i - 1)
      BY <1>2, <1>4, <2>2
    <3> QED
      BY <1>6, <2>2, <3>1
  <2> QED
    BY <2>1, <2>2
<1> QED
  BY <1>1, <1>2, <1>3, <1>6, <1>7, <1>8

(* The rank grows, strictly at each of the positions.                           *)
LEMMA RankOrder ==
    ASSUME NEW n \in Nat, NEW K \in SUBSET (1..n), NEW i \in 0..n, NEW j \in 0..n, i < j
    PROVE  Rank(K, i) <= Rank(K, j) /\ (j \in K => Rank(K, i) < Rank(K, j))
<1> DEFINE Bad == {m \in Nat : i <= m /\ m <= n /\ ~(Rank(K, i) <= Rank(K, m))}
<1>1. \A m \in 0..n : Rank(K, m) \in Nat
  BY RankStep
<1>2. \A m \in 1..n : Rank(K, m) = Rank(K, m - 1) + IF m \in K THEN 1 ELSE 0
  BY RankStep
<1>3. Bad = {}
  <2> SUFFICES ASSUME Bad # {} PROVE FALSE
    OBVIOUS
  <2>1. PICK m \in Bad : \A k \in Bad : m <= k
    <3>1. Bad \in SUBSET Nat
      OBVIOUS
    <3> HIDE DEF Bad
    <3> QED
      BY <3>1, LeastNat
  <2>2. m \in Nat /\ i <= m /\ m <= n /\ ~(Rank(K, i) <= Rank(K, m))
    OBVIOUS
  <2>3. m # i
    BY <1>1, <2>2
  <2>4. m \in 1..n /\ m - 1 \in 0..n /\ m - 1 \in Nat /\ i <= m - 1 /\ m - 1 <= n /\ ~(m <= m - 1)
    BY <2>2, <2>3
  <2>5. m - 1 \notin Bad
    <3> HIDE DEF Bad
    <3> QED
      BY <2>1, <2>4
  <2>6. Rank(K, i) <= Rank(K, m - 1)
    BY <2>4, <2>5
  <2>7. Rank(K, m - 1) <= Rank(K, m)
    BY <1>1, <1>2, <2>4
  <2> HIDE DEF Bad
  <2> QED
    BY <1>1, <2>2, <2>4, <2>6, <2>7
<1>4. \A m \in Nat : i <= m /\ m <= n => Rank(K, i) <= Rank(K, m)
  BY <1>3
<1> HIDE DEF Bad
<1>5. j \in 1..n /\ j - 1 \in 0..n /\ i <= j - 1 /\ j - 1 \in Nat /\ j - 1 <= n /\ j \in Nat /\ i <= j /\ j <= n
  OBVIOUS
<1>6. Rank(K, i) <= Rank(K, j) /\ Rank(K, i) <= Rank(K, j - 1)
  BY <1>4, <1>5
<1> QED
  BY <1>1, <1>2, <1>5, <1>6

(* Every rank up to the number of positions is the rank of one of them.         *)
LEMMA RankOnto ==
    ASSUME NEW n \in Nat, NEW K \in SUBSET (1..n), NEW k \in 1..Cardinality(K)
    PROVE  \E i \in K : Rank(K, i) = k
<1> DEFINE Reached == {i \in Nat : i <= n /\ k <= Rank(K, i)}
<1>1. /\ Rank(K, 0) = 0 /\ \A m \in 0..n : Rank(K, m) \in Nat
      /\ Rank(K, n) = Cardinality(K) /\ Cardinality(K) \in Nat
  BY RankStep
<1>2. \A m \in 1..n : Rank(K, m) = Rank(K, m - 1) + IF m \in K THEN 1 ELSE 0
  BY RankStep
<1>3. n \in Reached
  BY <1>1
<1>4. PICK i \in Reached : \A m \in Reached : i <= m
  <2>1. Reached \in SUBSET Nat
    OBVIOUS
  <2> HIDE DEF Reached
  <2> QED
    BY <1>3, <2>1, LeastNat
<1>5. i \in Nat /\ i <= n /\ k <= Rank(K, i)
  OBVIOUS
<1>6. i \in 1..n /\ i - 1 \in 0..n /\ i - 1 \in Nat /\ i - 1 <= n /\ ~(i <= i - 1) /\ i \in 0..n
  <2>1. i # 0
    BY <1>1, <1>5
  <2> QED
    BY <1>5, <2>1
<1>7. i - 1 \notin Reached
  <2> HIDE DEF Reached
  <2> QED
    BY <1>4, <1>6
<1>8. ~(k <= Rank(K, i - 1))
  BY <1>6, <1>7
<1> HIDE DEF Reached
<1>9. k \in Nat
  BY <1>1
<1>10. i \in K /\ Rank(K, i) = k
  BY <1>1, <1>2, <1>5, <1>6, <1>8, <1>9
<1> QED
  BY <1>10

(* Different positions have different ranks, which the kept items have too.     *)
LEMMA RankAt ==
    ASSUME NEW n \in Nat, NEW K \in SUBSET (1..n), NEW i \in K
    PROVE  /\ Rank(K, i) \in 1..Cardinality(K)
           /\ \A j \in K : Rank(K, j) = Rank(K, i) => j = i
<1>1. i \in 0..n /\ n \in 0..n /\ 0 \in 0..n /\ 0 < i
  OBVIOUS
<1>2. \A m \in 0..n : Rank(K, m) \in Nat
  BY RankStep
<1>3. Rank(K, 0) = 0 /\ Rank(K, n) = Cardinality(K)
  BY RankStep
<1>4. 0 < Rank(K, i)
  BY <1>1, <1>3, RankOrder
<1>5. Rank(K, i) <= Rank(K, n)
  <2>1. CASE i = n
    BY <1>1, <1>2, <2>1
  <2>2. CASE i # n
    <3>1. i < n
      BY <2>2
    <3> QED
      BY <1>1, <3>1, RankOrder
  <2> QED
    BY <2>1, <2>2
<1>6. ASSUME NEW j \in K, Rank(K, j) = Rank(K, i) PROVE j = i
  <2>1. j \in 0..n
    OBVIOUS
  <2>2. ~(i < j)
    <3> SUFFICES ASSUME i < j PROVE FALSE
      OBVIOUS
    <3>1. Rank(K, i) < Rank(K, j)
      BY <1>1, <2>1, RankOrder
    <3> QED
      BY <1>1, <1>2, <1>6, <3>1
  <2>3. ~(j < i)
    <3> SUFFICES ASSUME j < i PROVE FALSE
      OBVIOUS
    <3>1. Rank(K, j) < Rank(K, i)
      BY <1>1, <2>1, RankOrder
    <3> QED
      BY <1>1, <1>2, <1>6, <3>1
  <2> QED
    BY <2>2, <2>3
<1> QED
  BY <1>1, <1>2, <1>3, <1>4, <1>5, <1>6

(* The item at a position is kept at its rank.                                  *)
LEMMA KeepRank ==
    ASSUME NEW n \in Nat, NEW K \in SUBSET (1..n), NEW seq, NEW i \in K
    PROVE  Keep(seq, K)[Rank(K, i)] = seq[i]
<1> DEFINE at(k) == CHOOSE j \in K : Rank(K, j) = k
<1>1. Keep(seq, K) = [k \in 1..Cardinality(K) |-> seq[at(k)]]
  BY Zenon DEF Keep
<1>2. at(Rank(K, i)) \in K /\ Rank(K, at(Rank(K, i))) = Rank(K, i)
  BY Zenon
<1> HIDE DEF at
<1>3. at(Rank(K, i)) = i
  BY <1>2, RankAt
<1>4. Rank(K, i) \in 1..Cardinality(K)
  BY RankAt
<1> QED
  BY <1>1, <1>3, <1>4

(* The kept items are those at the positions, in their order.                   *)
LEMMA KeepAt ==
    ASSUME NEW n \in Nat, NEW K \in SUBSET (1..n), NEW seq
    PROVE  /\ Cardinality(K) \in Nat /\ DOMAIN Keep(seq, K) = 1..Cardinality(K)
           /\ Keep(seq, K) = [k \in 1..Cardinality(K) |-> Keep(seq, K)[k]]
           /\ \A k \in 1..Cardinality(K) :
                 \E i \in K : Rank(K, i) = k /\ Keep(seq, K)[k] = seq[i]
<1> DEFINE at(k) == CHOOSE i \in K : Rank(K, i) = k
<1>1. Keep(seq, K) = [k \in 1..Cardinality(K) |-> seq[at(k)]]
  BY Zenon DEF Keep
<1>2. ASSUME NEW k \in 1..Cardinality(K) PROVE at(k) \in K /\ Rank(K, at(k)) = k
  <2>1. \E i \in K : Rank(K, i) = k
    BY RankOnto
  <2> QED
    BY <2>1, Zenon
<1>3. Cardinality(K) \in Nat
  BY RankStep
<1> HIDE DEF at
<1>4. \A k \in 1..Cardinality(K) : Keep(seq, K)[k] = seq[at(k)]
  BY <1>1
<1> QED
  BY <1>1, <1>2, <1>3, <1>4

(* Keep makes a sequence of the items it is asked to keep.                      *)
LEMMA KeepShape ==
    ASSUME NEW S, NEW seq \in Seq(S), NEW K \in SUBSET (DOMAIN seq)
    PROVE  /\ Keep(seq, K) \in Seq(S)
           /\ \A k \in DOMAIN Keep(seq, K) : \E i \in K : Keep(seq, K)[k] = seq[i]
<1>1. PICK n \in Nat : DOMAIN seq = 1..n /\ \A i \in 1..n : seq[i] \in S
  OBVIOUS
<1>2. PICK c \in Nat : c = Cardinality(K)
  BY <1>1, RankStep
<1>3. Keep(seq, K) = [k \in 1..c |-> Keep(seq, K)[k]] /\ DOMAIN Keep(seq, K) = 1..c
  BY <1>1, <1>2, KeepAt
<1>4. \A k \in 1..c : \E i \in K : Keep(seq, K)[k] = seq[i]
  BY <1>1, <1>2, KeepAt
<1>5. \A k \in 1..c : Keep(seq, K)[k] \in S
  BY <1>1, <1>4
<1> QED
  BY <1>3, <1>4, <1>5

(* A sequence of which everything is kept is the same.                          *)
LEMMA KeepAll ==
    ASSUME NEW S, NEW seq \in Seq(S)
    PROVE  Keep(seq, DOMAIN seq) = seq
<1>1. PICK n \in Nat : DOMAIN seq = 1..n /\ seq = [i \in 1..n |-> seq[i]]
  OBVIOUS
<1> DEFINE Bad == {m \in Nat : m <= n /\ Rank(1..n, m) # m}
<1>2. Bad = {}
  <2> SUFFICES ASSUME Bad # {} PROVE FALSE
    OBVIOUS
  <2>1. PICK m \in Bad : \A k \in Bad : m <= k
    <3>1. Bad \in SUBSET Nat
      OBVIOUS
    <3> HIDE DEF Bad
    <3> QED
      BY <3>1, LeastNat
  <2>2. m \in Nat /\ m <= n /\ Rank(1..n, m) # m
    OBVIOUS
  <2>3. m # 0
    BY <2>2, RankStep
  <2>4. m \in 1..n /\ m - 1 \in Nat /\ m - 1 <= n /\ ~(m <= m - 1)
    BY <2>2, <2>3
  <2>5. m - 1 \notin Bad
    <3> HIDE DEF Bad
    <3> QED
      BY <2>1, <2>4
  <2>6. Rank(1..n, m - 1) = m - 1
    BY <2>4, <2>5
  <2>7. Rank(1..n, m) = Rank(1..n, m - 1) + IF m \in 1..n THEN 1 ELSE 0
    BY <2>4, RankStep
  <2> QED
    BY <2>2, <2>4, <2>6, <2>7
<1>3. \A m \in 1..n : Rank(1..n, m) = m
  BY <1>2
<1> HIDE DEF Bad
<1>4. Cardinality(1..n) = n
  BY FS_Interval
<1>5. \A m \in 1..n : Keep(seq, 1..n)[Rank(1..n, m)] = seq[m]
  <2>1. 1..n \in SUBSET (1..n)
    OBVIOUS
  <2> QED
    BY <2>1, KeepRank
<1>6. \A m \in 1..n : Keep(seq, 1..n)[m] = seq[m]
  BY <1>3, <1>5
<1>7. Keep(seq, 1..n) = [m \in 1..n |-> Keep(seq, 1..n)[m]]
  <2>1. 1..n \in SUBSET (1..n)
    OBVIOUS
  <2> QED
    BY <1>4, <2>1, KeepAt
<1> QED
  BY <1>1, <1>6, <1>7

(* What is kept of a sequence depends on the items at the positions only.       *)
LEMMA KeepSame ==
    ASSUME NEW n \in Nat, NEW K \in SUBSET (1..n), NEW s, NEW t,
           \A i \in K : s[i] = t[i]
    PROVE  Keep(s, K) = Keep(t, K)
<1>1. PICK c \in Nat : c = Cardinality(K)
  BY RankStep
<1>2. Keep(s, K) = [k \in 1..c |-> Keep(s, K)[k]] /\ Keep(t, K) = [k \in 1..c |-> Keep(t, K)[k]]
  BY <1>1, KeepAt
<1>3. ASSUME NEW k \in 1..c PROVE Keep(s, K)[k] = Keep(t, K)[k]
  <2>1. PICK i \in K : Rank(K, i) = k /\ Keep(s, K)[k] = s[i]
    BY <1>1, KeepAt
  <2>2. Keep(t, K)[Rank(K, i)] = t[i]
    BY KeepRank
  <2> QED
    BY <2>1, <2>2
<1> QED
  BY <1>2, <1>3
(* Keep leaves the items at the chosen positions, each once and in their order: *)
(* it is the sequence read along the one increasing enumeration of them.        *)
THEOREM KeepInOrder ==
    ASSUME NEW n \in Nat, NEW K \in SUBSET (1..n), NEW seq
    PROVE  \E at \in [1..Cardinality(K) -> K] :
             /\ \A a, b \in 1..Cardinality(K) : a < b => at[a] < at[b]
             /\ \A i \in K : \E a \in 1..Cardinality(K) : at[a] = i
             /\ Keep(seq, K) = [a \in 1..Cardinality(K) |-> seq[at[a]]]
<1>1. PICK c \in Nat : c = Cardinality(K)
  BY KeepAt
<1>2. \A a \in 1..c : \E i \in K : Rank(K, i) = a
  BY <1>1, RankOnto
<1>3. PICK at : at = [a \in 1..c |-> CHOOSE i \in K : Rank(K, i) = a]
  OBVIOUS
<1>4. \A a \in 1..c : at[a] \in K /\ Rank(K, at[a]) = a
  BY <1>2, <1>3
<1>5. at \in [1..c -> K]
  BY <1>3, <1>4
<1>6. ASSUME NEW a \in 1..c, NEW b \in 1..c, a < b PROVE at[a] < at[b]
  <2>1. PICK i \in K, j \in K : i = at[a] /\ j = at[b] /\ Rank(K, i) = a /\ Rank(K, j) = b
    BY <1>4
  <2>2. i \in 0..n /\ j \in 0..n
    OBVIOUS
  <2>3. ~(j < i)
    <3> SUFFICES ASSUME j < i PROVE FALSE
      OBVIOUS
    <3>1. Rank(K, j) <= Rank(K, i)
      BY <2>2, RankOrder
    <3> QED
      BY <1>6, <2>1, <3>1
  <2>4. i # j
    BY <1>6, <2>1
  <2> QED
    BY <2>1, <2>2, <2>3, <2>4
<1>7. ASSUME NEW i \in K PROVE \E a \in 1..c : at[a] = i
  <2>1. PICK a \in 1..c : a = Rank(K, i) /\ \A j \in K : Rank(K, j) = a => j = i
    BY <1>1, RankAt
  <2> QED
    BY <1>4, <2>1
<1>8. ASSUME NEW a \in 1..c PROVE Keep(seq, K)[a] = seq[at[a]]
  <2>1. PICK i \in K : i = at[a] /\ Rank(K, i) = a
    BY <1>4
  <2>2. Keep(seq, K)[Rank(K, i)] = seq[i]
    BY KeepRank
  <2> QED
    BY <2>1, <2>2
<1>9. Keep(seq, K) = [a \in 1..c |-> Keep(seq, K)[a]]
  BY <1>1, KeepAt
<1>10. Keep(seq, K) = [a \in 1..c |-> seq[at[a]]]
  BY <1>8, <1>9
<1> QED
  BY <1>1, <1>5, <1>6, <1>7, <1>10
===============================================================================
