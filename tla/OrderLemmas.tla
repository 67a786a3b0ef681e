---------------------------- MODULE OrderLemmas -----------------------------
(***************************************************************************)
(* Lemmas about finite sets, numbers and orders that the proofs of several *)
(* components rest on.  LeastNumber stands for induction: what holds of a  *)
(* recursive function or of a CHOOSE is shown by a least counterexample.   *)
(***************************************************************************)
EXTENDS Naturals, FiniteSets, Functions, FiniteSetTheorems, SequenceTheorems, WellFoundedInduction, TLAPS

(* Part of a finite set is finite and no larger. *)
LEMMA PartOfFinite ==
  ASSUME NEW S, IsFiniteSet(S), NEW T, T \subseteq S
  PROVE  /\ IsFiniteSet(T) /\ Cardinality(T) <= Cardinality(S)
         /\ Cardinality(T) \in Nat /\ Cardinality(S) \in Nat
  BY FS_Subset, FS_CardinalityType

(* What stands for induction here: a set of numbers has a least one. *)
LEMMA LeastNumber ==
  ASSUME NEW T \in SUBSET Nat, T # {}
  PROVE  \E x \in T : \A y \in T : x <= y
<1>1. \E x \in T : \A y \in T : <<y, x>> \notin OpToRel(<, Nat)
  BY WFMin, NatLessThanWellFounded, Zenon
<1>2. \E x \in T : \A y \in T : ~(y < x)
  BY <1>1, Zenon DEF OpToRel
<1> QED
  BY <1>2

\* R orders S strictly and totally; the place of an element is the number of those before it.
Orders(R, S) ==
    /\ \A x \in S : <<x, x>> \notin R
    /\ \A x, y, z \in S : <<x, y>> \in R /\ <<y, z>> \in R => <<x, z>> \in R
    /\ \A x, y \in S : x # y => <<x, y>> \in R \/ <<y, x>> \in R

Place(R, S) == [x \in S |-> Cardinality({y \in S : <<y, x>> \in R})]

(* In a strict total order of n elements, every place from 0 to n - 1 is taken, in order. *)
LEMMA Places ==
  ASSUME NEW S, IsFiniteSet(S), NEW R, Orders(R, S)
  PROVE  /\ Place(R, S) \in [S -> 0..(Cardinality(S) - 1)]
         /\ \A x, y \in S : <<x, y>> \in R <=> Place(R, S)[x] < Place(R, S)[y]
         /\ \A k \in 0..(Cardinality(S) - 1) : \E x \in S : Place(R, S)[x] = k
<1> USE DEF Orders
<1> DEFINE rank == Place(R, S)
<1>r. rank = [x \in S |-> Cardinality({y \in S : <<y, x>> \in R})]
  BY DEF Place
<1> HIDE DEF rank
<1> DEFINE Under(x) == {y \in S : <<y, x>> \in R}
           n == Cardinality(S)
<1>n. n \in Nat
  BY FS_CardinalityType
<1>1. ASSUME NEW x \in S PROVE IsFiniteSet(Under(x)) /\ Cardinality(Under(x)) \in 0..(n - 1)
  <2>1. Under(x) \subseteq S /\ x \notin Under(x)
    OBVIOUS
  <2>2. /\ IsFiniteSet(Under(x)) /\ Cardinality(Under(x)) <= n
        /\ n = Cardinality(Under(x)) => S = Under(x)
    BY <2>1, FS_Subset
  <2>3. Cardinality(Under(x)) \in Nat
    BY <2>2, FS_CardinalityType
  <2> QED
    BY <2>1, <2>2, <2>3, <1>n
<1>2. \A x \in S : rank[x] = Cardinality(Under(x))
  BY <1>r
<1>3. rank \in [S -> 0..(n - 1)]
  BY <1>1, <1>r
<1>4. ASSUME NEW x \in S, NEW y \in S, <<x, y>> \in R PROVE rank[x] < rank[y]
  <2>1. Under(x) \subseteq Under(y) /\ x \in Under(y) /\ x \notin Under(x)
    BY <1>4
  <2>2. /\ Cardinality(Under(x)) <= Cardinality(Under(y))
        /\ Cardinality(Under(y)) = Cardinality(Under(x)) => Under(y) = Under(x)
    BY <2>1, <1>1, FS_Subset
  <2> HIDE DEF Under
  <2>3. Cardinality(Under(x)) # Cardinality(Under(y))
    BY <2>1, <2>2
  <2>4. Cardinality(Under(x)) \in Nat /\ Cardinality(Under(y)) \in Nat
    BY <1>1, <1>n
  <2> QED
    BY <2>2, <2>3, <2>4, <1>2
<1>5. ASSUME NEW x \in S, NEW y \in S PROVE <<x, y>> \in R <=> rank[x] < rank[y]
  <2>1. CASE x = y
    BY <2>1, <1>3, <1>n
  <2>2. CASE <<x, y>> \in R
    BY <2>2, <1>4
  <2>3. CASE <<y, x>> \in R
    <3>1. rank[y] < rank[x]
      BY <2>3, <1>4
    <3>2. ~(<<x, y>> \in R)
      BY <2>3
    <3> QED
      BY <3>1, <3>2, <1>3, <1>n
  <2> QED
    BY <2>1, <2>2, <2>3
<1>6. rank \in Injection(S, 0..(n - 1))
  <2>1. ASSUME NEW x \in S, NEW y \in S, rank[x] = rank[y] PROVE x = y
    <3>1. ~(rank[x] < rank[y]) /\ ~(rank[y] < rank[x])
      BY <2>1, <1>3, <1>n
    <3> QED
      BY <3>1, <1>5
  <2> QED
    BY <2>1, <1>3 DEF Injection, IsInjective
<1>7. rank \in Surjection(S, 0..(n - 1))
  <2>1. IsFiniteSet(0..(n - 1)) /\ Cardinality(0..(n - 1)) = n
    <3>1. 0 \in Int /\ n - 1 \in Int
      BY <1>n
    <3>2. IsFiniteSet(0..(n - 1)) /\ Cardinality(0..(n - 1)) = IF 0 > n - 1 THEN 0 ELSE (n - 1) - 0 + 1
      BY <3>1, FS_Interval
    <3> QED
      BY <3>2, <1>n
  <2> QED
    BY <2>1, <1>6, FS_Injection
<1> QED
  BY <1>3, <1>5, <1>7 DEF Surjection, rank

(* A sequence with every element at its place has each of them once, in order. *)
LEMMA InPlace ==
  ASSUME NEW S, IsFiniteSet(S), NEW R, Orders(R, S), NEW s,
         \A i \in 1..Cardinality(S) : s[i] \in S /\ Place(R, S)[s[i]] = i - 1
  PROVE  /\ Cardinality(S) \in Nat
         /\ \A x \in S : \E i \in 1..Cardinality(S) : s[i] = x
         /\ \A i, j \in 1..Cardinality(S) : i < j <=> <<s[i], s[j]>> \in R
<1> DEFINE n == Cardinality(S)
           place == Place(R, S)
<1>1. n \in Nat
  BY FS_CardinalityType
<1>2. /\ place \in [S -> 0..(n - 1)]
      /\ \A x, y \in S : <<x, y>> \in R <=> place[x] < place[y]
  BY Places
<1>3. \A i \in 1..n : s[i] \in S /\ place[s[i]] = i - 1
  OBVIOUS
<1> HIDE DEF n, place
<1>4. ASSUME NEW x \in S PROVE \E i \in 1..n : s[i] = x
  <2> DEFINE i == place[x] + 1
  <2>1. place[x] \in 0..(n - 1)
    BY <1>2
  <2>2. i \in 1..n
    BY <2>1, <1>1
  <2>3. s[i] \in S /\ place[s[i]] = place[x]
    BY <2>1, <2>2, <1>3, <1>1
  <2>4. ~(place[x] < place[s[i]]) /\ ~(place[s[i]] < place[x])
    BY <2>1, <2>3, <1>1
  <2>5. <<x, s[i]>> \notin R /\ <<s[i], x>> \notin R
    BY <2>3, <2>4, <1>2
  <2>6. s[i] = x
    BY <2>3, <2>5 DEF Orders
  <2> QED
    BY <2>2, <2>6
<1>5. ASSUME NEW i \in 1..n, NEW j \in 1..n PROVE i < j <=> <<s[i], s[j]>> \in R
  <2>1. place[s[i]] < place[s[j]] <=> <<s[i], s[j]>> \in R
    BY <1>2, <1>3
  <2>2. place[s[i]] = i - 1 /\ place[s[j]] = j - 1
    BY <1>3
  <2> QED
    BY <2>1, <2>2, <1>1
<1> QED
  BY <1>1, <1>4, <1>5 DEF n

(* Finitely many elements in order have a first one and a last one. *)
LEMMA FirstAndLast ==
  ASSUME NEW S, IsFiniteSet(S), S # {}, NEW R, Orders(R, S)
  PROVE  /\ \E x \in S : \A y \in S : <<y, x>> \notin R
         /\ \E x \in S : \A y \in S : y = x \/ <<y, x>> \in R
<1> DEFINE n == Cardinality(S)
           place == Place(R, S)
<1>1. n \in Nat /\ n # 0
  BY FS_CardinalityType, FS_EmptySet
<1>2. /\ place \in [S -> 0..(n - 1)]
      /\ \A x, y \in S : <<x, y>> \in R <=> place[x] < place[y]
      /\ \A k \in 0..(n - 1) : \E x \in S : place[x] = k
  BY Places
<1> HIDE DEF n, place
<1>3. PICK x \in S : place[x] = 0
  BY <1>1, <1>2
<1>4. \A y \in S : <<y, x>> \notin R
  BY <1>1, <1>2, <1>3
<1>5. PICK z \in S : place[z] = n - 1
  BY <1>1, <1>2
<1>6. ASSUME NEW y \in S PROVE y = z \/ <<y, z>> \in R
  <2>1. ~(place[z] < place[y])
    BY <1>1, <1>2, <1>5
  <2>2. <<z, y>> \notin R
    BY <2>1, <1>2
  <2> QED
    BY <2>2 DEF Orders
<1> QED
  BY <1>4, <1>6

(* A finite set of numbers has a greatest one. *)
LEMMA GreatestNumber ==
  ASSUME NEW T \in SUBSET Nat, T # {}, IsFiniteSet(T)
  PROVE  \E x \in T : \A y \in T : y <= x
<1> DEFINE R == {p \in T \X T : p[1] < p[2]}
<1>1. \A x, y \in T : <<x, y>> \in R <=> x < y
  OBVIOUS
<1>2. Orders(R, T)
  BY <1>1 DEF Orders
<1> HIDE DEF R
<1>3. PICK x \in T : \A y \in T : y = x \/ <<y, x>> \in R
  BY <1>2, FirstAndLast
<1>4. \A y \in T : y = x \/ y < x
  BY <1>1, <1>3
<1> QED
  BY <1>4
=============================================================================
