------------------------- MODULE SubsequenceProofs -------------------------
(***************************************************************************)
(* What Pick does to a queue that grows at its end and shrinks at its head.*)
(***************************************************************************)
EXTENDS Subsequence, FiniteSetTheorems, SequenceTheorems, TLAPS

(* A set of positions of a sequence is finite. *)
LEMMA PositionsFinite ==
    ASSUME NEW n \in Nat, NEW I \in SUBSET (1..n)
    PROVE  IsFiniteSet(I) /\ Cardinality(I) \in Nat
<1>1. IsFiniteSet(1..n)
  BY FS_Interval
<1> QED
  BY <1>1, FS_Subset, FS_CardinalityType

(* Ranks grow with the position. *)
LEMMA RankGrows ==
    ASSUME NEW n \in Nat, NEW I \in SUBSET (1..n), NEW i \in I, NEW j \in I, i < j
    PROVE  Rank(I, i) < Rank(I, j)
<1> DEFINE A == {m \in I : m <= i}
           B == {m \in I : m <= j}
<1>0. I \subseteq Nat
  OBVIOUS
<1>1. A \subseteq B /\ j \in B /\ j \notin A
  <2>1. i \in Nat /\ j \in Nat
    BY <1>0
  <2>2. ASSUME NEW x \in A PROVE x \in B
    <3>1. x \in Nat /\ x <= i /\ x \in I
      BY <1>0
    <3>2. x <= j
      BY <2>1, <3>1
    <3> QED
      BY <3>1, <3>2
  <2>3. j <= j /\ ~(j <= i)
    BY <2>1
  <2> QED
    BY <2>2, <2>3
<1>2. IsFiniteSet(A) /\ IsFiniteSet(B)
  BY PositionsFinite
<1>3. Cardinality(A) <= Cardinality(B) /\ (Cardinality(A) = Cardinality(B) => A = B)
  BY <1>1, <1>2, FS_Subset
<1>4. Cardinality(A) \in Nat /\ Cardinality(B) \in Nat
  BY <1>2, FS_CardinalityType
<1> QED
  BY <1>1, <1>3, <1>4 DEF Rank

(* J lists the n positions of I in increasing order. *)
Lists(J, n, I) ==
    /\ J \in [1..n -> I]
    /\ \A i \in I : \E k \in 1..n : J[k] = i
    /\ \A k, l \in 1..n : k < l => J[k] < J[l]

(* An increasing list of I names the positions of I. *)
LEMMA Enumeration ==
    ASSUME NEW n \in Nat, NEW m \in Nat, NEW I \in SUBSET (1..m), NEW J, Lists(J, n, I)
    PROVE  /\ Cardinality(I) = n
           /\ \A k \in 1..n : Position(I, k) = J[k]
<1>0. /\ J \in [1..n -> I]
      /\ \A i \in I : \E k \in 1..n : J[k] = i
      /\ \A k, l \in 1..n : k < l => J[k] < J[l]
  BY DEF Lists
<1> USE <1>0
<1>2. \A k \in 1..n : J[k] \in Nat
  <2>1. \A k \in 1..n : J[k] \in 1..m
    OBVIOUS
  <2> QED
    BY <2>1
<1>1. \A k, l \in 1..n : J[k] = J[l] => k = l
  <2>1. ASSUME NEW k \in 1..n, NEW l \in 1..n, J[k] = J[l] PROVE k = l
    <3>1. ~(k < l) /\ ~(l < k)
      BY <1>2, <2>1
    <3> QED
      BY <3>1
  <2> QED
    BY <2>1
<1>3. Cardinality(I) = n
  <2>1. ExistsBijection(1..n, I)
    <3>1. J \in Bijection(1..n, I)
      BY <1>1 DEF Bijection, Injection, IsInjective, Surjection
    <3> QED
      BY <3>1 DEF ExistsBijection
  <2>2. IsFiniteSet(1..n) /\ Cardinality(1..n) = n
    BY FS_Interval
  <2> QED
    BY <2>1, <2>2, FS_Bijection
<1>4. ASSUME NEW k \in 1..n PROVE Rank(I, J[k]) = k
  <2> DEFINE A == {i \in I : i <= J[k]}
             F == [l \in 1..k |-> J[l]]
  <2>1. F \in [1..k -> A]
    <3>1. ASSUME NEW l \in 1..k PROVE l \in 1..n /\ J[l] <= J[k]
      <4>1. l \in 1..n /\ (l < k \/ l = k)
        OBVIOUS
      <4>2. J[l] \in Nat /\ J[k] \in Nat
        BY <4>1, <1>2
      <4>3. l < k => J[l] < J[k]
        BY <4>1
      <4> QED
        BY <4>1, <4>2, <4>3
    <3> QED
      BY <3>1
  <2>2. \A i \in A : \E l \in 1..k : F[l] = i
    <3>1. ASSUME NEW i \in A PROVE \E l \in 1..k : F[l] = i
      <4>1. PICK l \in 1..n : J[l] = i
        OBVIOUS
      <4>2. l <= k
        BY <4>1, <1>2
      <4> QED
        BY <4>1, <4>2
    <3> QED
      BY <3>1
  <2>3. \A l1, l2 \in 1..k : F[l1] = F[l2] => l1 = l2
    BY <1>1
  <2>4. ExistsBijection(1..k, A)
    <3>1. F \in Bijection(1..k, A)
      BY <2>1, <2>2, <2>3 DEF Bijection, Injection, IsInjective, Surjection
    <3> QED
      BY <3>1 DEF ExistsBijection
  <2>5. IsFiniteSet(1..k) /\ Cardinality(1..k) = k
    BY FS_Interval
  <2> QED
    BY <2>4, <2>5, FS_Bijection DEF Rank
<1>5. ASSUME NEW k \in 1..n PROVE Position(I, k) = J[k]
  <2>1. J[k] \in I /\ Rank(I, J[k]) = k
    BY <1>4
  <2>2. \A i \in I : Rank(I, i) = k => i = J[k]
    <3>1. ASSUME NEW i \in I, Rank(I, i) = k PROVE i = J[k]
      <4>1. PICK l \in 1..n : J[l] = i
        OBVIOUS
      <4>2. Rank(I, J[l]) = l
        BY <1>4
      <4> QED
        BY <3>1, <4>1, <4>2
    <3> QED
      BY <3>1
  <2> QED
    BY <2>1, <2>2 DEF Position
<1> QED
  BY <1>3, <1>4, <1>5

(* Every set of positions is enumerated in increasing order by Position. *)
LEMMA PositionsEnumerate ==
    ASSUME NEW m \in Nat, NEW I \in SUBSET (1..m)
    PROVE  /\ Cardinality(I) \in Nat
           /\ \A k \in 1..Cardinality(I) : Position(I, k) \in I
           /\ \A i \in I : \E k \in 1..Cardinality(I) : Position(I, k) = i
           /\ \A k, l \in 1..Cardinality(I) : k < l => Position(I, k) < Position(I, l)
<1> DEFINE n == Cardinality(I)
           R == [i \in I |-> Rank(I, i)]
<1>1. IsFiniteSet(I) /\ n \in Nat
  BY PositionsFinite
<1>2. R \in [I -> 1..n]
  <2>1. ASSUME NEW i \in I PROVE Rank(I, i) \in 1..n
    <3> DEFINE A == {j \in I : j <= i}
    <3>1. A \subseteq I /\ i \in A
      OBVIOUS
    <3>2. IsFiniteSet(A) /\ Cardinality(A) <= n
      BY <1>1, <3>1, FS_Subset
    <3>3. Cardinality(A) \in Nat /\ Cardinality(A) # 0
      BY <3>1, <3>2, FS_CardinalityType, FS_EmptySet
    <3> QED
      BY <1>1, <3>2, <3>3 DEF Rank
  <2> QED
    BY <2>1
<1>3. \A i, j \in I : Rank(I, i) = Rank(I, j) => i = j
  <2>1. ASSUME NEW i \in I, NEW j \in I, i # j PROVE Rank(I, i) # Rank(I, j)
    <3>1. i \in Nat /\ j \in Nat
      OBVIOUS
    <3>2. Rank(I, i) \in Nat /\ Rank(I, j) \in Nat
      BY <1>1, <1>2
    <3>3. CASE i < j
      <4>1. Rank(I, i) < Rank(I, j)
        BY <3>3, RankGrows
      <4> QED
        BY <3>2, <4>1
    <3>4. CASE j < i
      <4>1. Rank(I, j) < Rank(I, i)
        BY <3>4, RankGrows
      <4> QED
        BY <3>2, <4>1
    <3> QED
      BY <3>1, <3>3, <3>4, <2>1
  <2> QED
    BY <2>1
<1>4. \A k \in 1..n : \E i \in I : Rank(I, i) = k
  <2>1. IsFiniteSet(1..n) /\ Cardinality(1..n) = n
    BY <1>1, FS_Interval
  <2>2. R \in Injection(I, 1..n)
    BY <1>2, <1>3 DEF Injection, IsInjective
  <2> DEFINE img == {R[i] : i \in I}
  <2>3. img \subseteq 1..n
    BY <1>2
  <2>4. Cardinality(img) = n
    <3>1. R \in Injection(I, img)
      BY <1>3 DEF Injection, IsInjective
    <3>2. R \in Bijection(I, img)
      BY <3>1 DEF Bijection, Injection, IsInjective, Surjection
    <3>3. ExistsBijection(I, img)
      BY <3>2 DEF ExistsBijection
    <3> QED
      BY <3>3, <1>1, FS_Bijection
  <2>5. img = 1..n
    BY <2>1, <2>3, <2>4, FS_Subset
  <2> QED
    BY <2>5
<1>5. ASSUME NEW k \in 1..n PROVE Position(I, k) \in I /\ Rank(I, Position(I, k)) = k
  <2>1. \E i \in I : Rank(I, i) = k
    BY <1>4
  <2> QED
    BY <2>1 DEF Position
<1>6. ASSUME NEW i \in I PROVE \E k \in 1..n : Position(I, k) = i
  <2>1. Rank(I, i) \in 1..n
    BY <1>2
  <2>2. Position(I, Rank(I, i)) \in I /\ Rank(I, Position(I, Rank(I, i))) = Rank(I, i)
    BY <2>1, <1>5
  <2> QED
    BY <2>1, <2>2, <1>3
<1>7. ASSUME NEW k \in 1..n, NEW l \in 1..n, k < l PROVE Position(I, k) < Position(I, l)
  <2> DEFINE i == Position(I, k)
             j == Position(I, l)
  <2>1. i \in I /\ j \in I /\ Rank(I, i) = k /\ Rank(I, j) = l
    BY <1>5
  <2> HIDE DEF i, j
  <2>2. ~(j < i)
    <3>1. SUFFICES ASSUME j < i PROVE FALSE
      OBVIOUS
    <3>2. Rank(I, j) < Rank(I, i)
      BY <2>1, <3>1, RankGrows
    <3> QED
      BY <3>2, <2>1, <1>7, <1>1
  <2>3. j # i
    BY <2>1, <1>7, <1>1
  <2>4. i \in Nat /\ j \in Nat
    BY <2>1
  <2>5. i < j
    BY <2>2, <2>3, <2>4
  <2> QED
    BY <2>5 DEF i, j
<1> QED
  BY <1>1, <1>5, <1>6, <1>7

-----------------------------------------------------------------------------
(* Picking gives a sequence of elements of q, as long as there are         *)
(* positions, in the order of q.                                           *)
LEMMA PickProperties ==
    ASSUME NEW S, NEW q \in Seq(S), NEW I \in SUBSET (1..Len(q))
    PROVE  /\ Pick(q, I) \in Seq(S)
           /\ Len(Pick(q, I)) = Cardinality(I)
           /\ Cardinality(I) \in Nat
           /\ \A k \in 1..Cardinality(I) :
                  Position(I, k) \in I /\ Pick(q, I)[k] = q[Position(I, k)]
<1>1. Len(q) \in Nat
  OBVIOUS
<1>2. Cardinality(I) \in Nat /\ \A k \in 1..Cardinality(I) : Position(I, k) \in I
  BY <1>1, PositionsEnumerate
<1>3. ASSUME NEW k \in 1..Cardinality(I) PROVE q[Position(I, k)] \in S
  <2>1. Position(I, k) \in 1..Len(q)
    BY <1>2
  <2> QED
    BY <2>1, ElementOfSeq
<1>4. Pick(q, I) \in [1..Cardinality(I) -> S]
  BY <1>3 DEF Pick
<1> QED
  BY <1>2, <1>4 DEF Pick

(* No positions, no elements. *)
LEMMA PickNone == ASSUME NEW q PROVE Pick(q, {}) = <<>>
<1>1. Cardinality({}) = 0
  BY FS_EmptySet
<1> QED
  BY <1>1 DEF Pick

(* One position, one element. *)
LEMMA PickOne ==
    ASSUME NEW S, NEW q \in Seq(S), NEW i \in 1..Len(q)
    PROVE  Pick(q, {i}) = <<q[i]>>
<1>1. Cardinality({i}) = 1
  BY FS_Singleton
<1>2. Position({i}, 1) = i
  <2>1. Len(q) \in Nat /\ {i} \in SUBSET (1..Len(q))
    OBVIOUS
  <2>2. \A k \in 1..Cardinality({i}) : Position({i}, k) \in {i}
    BY <2>1, PositionsEnumerate
  <2>3. 1 \in 1..Cardinality({i})
    BY <1>1
  <2>4. Position({i}, 1) \in {i}
    BY <2>2, <2>3
  <2> QED
    BY <2>4
<1>3. Pick(q, {i}) = [k \in 1..1 |-> q[Position({i}, k)]]
  BY <1>1 DEF Pick
<1>4. Pick(q, {i}) = [k \in 1..1 |-> q[i]]
  <2>1. \A k \in 1..1 : q[Position({i}, k)] = q[i]
    <3>1. \A k \in 1..1 : k = 1
      OBVIOUS
    <3> QED
      BY <3>1, <1>2, Zenon
  <2> QED
    BY <1>3, <2>1, Zenon
<1> QED
  BY <1>4

(* K holds the positions I of the first n and J of the m after them. *)
Joins(K, I, n, J, m) ==
    /\ K \subseteq 1..(n + m) /\ I \subseteq 1..n /\ J \subseteq 1..m
    /\ \A i \in 1..n : i \in K <=> i \in I
    /\ \A j \in 1..m : n + j \in K <=> j \in J

(* Picking from a concatenation picks from the two parts. *)
LEMMA PickConcat ==
    ASSUME NEW S, NEW q \in Seq(S), NEW r \in Seq(S), NEW I, NEW J, NEW K,
           Joins(K, I, Len(q), J, Len(r))
    PROVE  Pick(q \o r, K) = Pick(q, I) \o Pick(r, J)
<1> DEFINE a == Cardinality(I)
           b == Cardinality(J)
           E == [k \in 1..(a + b) |->
                    IF k <= a THEN Position(I, k) ELSE Len(q) + Position(J, k - a)]
<1>1. Len(q) \in Nat /\ Len(r) \in Nat /\ Len(q \o r) = Len(q) + Len(r)
  OBVIOUS
<1>0. /\ K \in SUBSET (1..Len(q \o r))
      /\ I \in SUBSET (1..Len(q)) /\ J \in SUBSET (1..Len(r))
      /\ \A i \in 1..Len(q) : i \in K <=> i \in I
      /\ \A j \in 1..Len(r) : Len(q) + j \in K <=> j \in J
  BY <1>1 DEF Joins
<1> USE <1>0
<1>2. /\ a \in Nat
      /\ \A k \in 1..a : Position(I, k) \in I
      /\ \A i \in I : \E k \in 1..a : Position(I, k) = i
      /\ \A k, l \in 1..a : k < l => Position(I, k) < Position(I, l)
  BY <1>1, PositionsEnumerate
<1>3. /\ b \in Nat
      /\ \A k \in 1..b : Position(J, k) \in J
      /\ \A j \in J : \E k \in 1..b : Position(J, k) = j
      /\ \A k, l \in 1..b : k < l => Position(J, k) < Position(J, l)
  BY <1>1, PositionsEnumerate
<1> HIDE DEF a, b
<1>4. ASSUME NEW k \in 1..(a + b)
      PROVE  /\ k \in 1..a \/ (k - a \in 1..b /\ ~(k <= a))
             /\ k \in 1..a => E[k] = Position(I, k) /\ E[k] \in I /\ E[k] \in 1..Len(q)
             /\ k - a \in 1..b /\ ~(k <= a) =>
                    /\ E[k] = Len(q) + Position(J, k - a)
                    /\ Position(J, k - a) \in J /\ Position(J, k - a) \in 1..Len(r)
  <2>1. k \in 1..a \/ (k - a \in 1..b /\ ~(k <= a))
    BY <1>2, <1>3
  <2>2. ASSUME k \in 1..a PROVE E[k] = Position(I, k) /\ E[k] \in I /\ E[k] \in 1..Len(q)
    <3>1. k <= a /\ Position(I, k) \in I
      BY <2>2, <1>2
    <3>2. E[k] = Position(I, k)
      BY <3>1
    <3> QED
      BY <3>1, <3>2
  <2>3. ASSUME k - a \in 1..b, ~(k <= a)
        PROVE  /\ E[k] = Len(q) + Position(J, k - a)
               /\ Position(J, k - a) \in J /\ Position(J, k - a) \in 1..Len(r)
    BY <2>3, <1>3
  <2> QED
    BY <2>1, <2>2, <2>3
<1>5. E \in [1..(a + b) -> K]
  <2>1. ASSUME NEW k \in 1..(a + b) PROVE E[k] \in K
    BY <1>1, <1>4
  <2> QED
    BY <2>1
<1>6. \A i \in K : \E k \in 1..(a + b) : E[k] = i
  <2>1. ASSUME NEW i \in K PROVE \E k \in 1..(a + b) : E[k] = i
    <3>1. i \in 1..Len(q) \/ (i - Len(q) \in 1..Len(r) /\ i = Len(q) + (i - Len(q)))
      BY <1>1
    <3>2. CASE i \in 1..Len(q)
      <4>1. PICK k \in 1..a : Position(I, k) = i
        BY <3>2, <1>2
      <4>2. k \in 1..(a + b) /\ k <= a
        BY <1>2, <1>3
      <4> QED
        BY <4>1, <4>2
    <3>3. CASE i - Len(q) \in 1..Len(r) /\ i = Len(q) + (i - Len(q))
      <4>1. i - Len(q) \in J
        BY <3>3
      <4>2. PICK k \in 1..b : Position(J, k) = i - Len(q)
        BY <4>1, <1>3
      <4>3. a + k \in 1..(a + b) /\ ~(a + k <= a) /\ (a + k) - a = k
        BY <1>2, <1>3
      <4>4. E[a + k] = Len(q) + Position(J, (a + k) - a)
        BY <4>3
      <4> QED
        BY <4>2, <4>3, <4>4, <3>3
    <3> QED
      BY <3>1, <3>2, <3>3
  <2> QED
    BY <2>1
<1>7. \A k, l \in 1..(a + b) : k < l => E[k] < E[l]
  <2>1. ASSUME NEW k \in 1..(a + b), NEW l \in 1..(a + b), k < l PROVE E[k] < E[l]
    <3>1. CASE l \in 1..a
      <4>1. k \in 1..a /\ k <= a /\ l <= a
        BY <3>1, <2>1, <1>2
      <4>2. E[k] = Position(I, k) /\ E[l] = Position(I, l)
        BY <4>1
      <4> QED
        BY <4>1, <4>2, <3>1, <2>1, <1>2
    <3>2. CASE k \in 1..a /\ l - a \in 1..b /\ ~(l <= a)
      <4>1. E[k] \in 1..Len(q)
        BY <3>2, <1>4
      <4>2. E[l] = Len(q) + Position(J, l - a) /\ Position(J, l - a) \in 1..Len(r)
        BY <3>2, <1>4
      <4> QED
        BY <4>1, <4>2, <1>1
    <3>3. CASE k - a \in 1..b /\ l - a \in 1..b /\ ~(k <= a) /\ ~(l <= a)
      <4>1. E[k] = Len(q) + Position(J, k - a) /\ E[l] = Len(q) + Position(J, l - a)
        BY <3>3
      <4>2. k - a < l - a
        BY <2>1, <1>2
      <4>3. Position(J, k - a) < Position(J, l - a)
        BY <4>2, <3>3, <1>3
      <4>4. Position(J, k - a) \in 1..Len(r) /\ Position(J, l - a) \in 1..Len(r)
        BY <3>3, <1>3
      <4> QED
        BY <4>1, <4>3, <4>4, <1>1
    <3> QED
      BY <3>1, <3>2, <3>3, <2>1, <1>2, <1>3
  <2> QED
    BY <2>1
<1>8. a + b \in Nat /\ Len(q \o r) \in Nat
  BY <1>1, <1>2, <1>3
<1>9. Cardinality(K) = a + b /\ \A k \in 1..(a + b) : Position(K, k) = E[k]
  <2> HIDE DEF E
  <2> DEFINE n == a + b
             m == Len(q \o r)
  <2>1. n \in Nat /\ m \in Nat /\ K \in SUBSET (1..m) /\ Lists(E, n, K)
    BY <1>5, <1>6, <1>7, <1>8 DEF Lists
  <2> HIDE DEF n, m
  <2>2. Cardinality(K) = n /\ \A k \in 1..n : Position(K, k) = E[k]
    BY <2>1, Enumeration
  <2> QED
    BY <2>2 DEF n
<1>10. /\ Pick(q, I) \in Seq(S) /\ Len(Pick(q, I)) = a
       /\ \A k \in 1..a : Pick(q, I)[k] = q[Position(I, k)]
  BY PickProperties DEF a
<1>11. /\ Pick(r, J) \in Seq(S) /\ Len(Pick(r, J)) = b
       /\ \A k \in 1..b : Pick(r, J)[k] = r[Position(J, k)]
  BY PickProperties DEF b
<1>12. ASSUME NEW k \in 1..(a + b)
       PROVE  Pick(q \o r, K)[k] = (Pick(q, I) \o Pick(r, J))[k]
  <2>1. Pick(q \o r, K)[k] = (q \o r)[E[k]]
    BY <1>9 DEF Pick
  <2>2. CASE k \in 1..a
    <3>0. E[k] = Position(I, k) /\ E[k] \in 1..Len(q)
      BY <2>2, <1>4
    <3>1. (q \o r)[E[k]] = q[E[k]]
      <4> HIDE DEF E
      <4> QED
        BY <3>0, ConcatProperties
    <3>2. (Pick(q, I) \o Pick(r, J))[k] = Pick(q, I)[k]
      BY <2>2, <1>10, <1>11
    <3> QED
      BY <2>1, <2>2, <3>0, <3>1, <3>2, <1>10
  <2>3. CASE k - a \in 1..b /\ ~(k <= a)
    <3> DEFINE j == Position(J, k - a)
    <3>0. E[k] = Len(q) + j
      BY <2>3, <1>4
    <3>1. (q \o r)[Len(q) + j] = r[j]
      <4>1. j \in 1..Len(r)
        BY <2>3, <1>4
      <4> HIDE DEF j
      <4> QED
        BY <4>1, <1>1
    <3>2. (Pick(q, I) \o Pick(r, J))[k] = Pick(r, J)[k - a]
      <4>1. k \in 1..(Len(Pick(q, I)) + Len(Pick(r, J))) /\ ~(k <= Len(Pick(q, I)))
        BY <2>3, <1>10, <1>11
      <4>2. (Pick(q, I) \o Pick(r, J))[k] = Pick(r, J)[k - Len(Pick(q, I))]
        BY <4>1, <1>10, <1>11, ConcatProperties, Zenon
      <4> QED
        BY <4>2, <1>10
    <3> QED
      BY <2>1, <2>3, <3>0, <3>1, <3>2, <1>11
  <2> QED
    BY <2>2, <2>3, <1>4
<1>13. /\ Pick(q \o r, K) = [k \in 1..(a + b) |-> Pick(q \o r, K)[k]]
       /\ Pick(q, I) \o Pick(r, J) = [k \in 1..(a + b) |-> (Pick(q, I) \o Pick(r, J))[k]]
  <2>1. Pick(q \o r, K) = [k \in 1..(a + b) |-> Pick(q \o r, K)[k]]
    BY <1>9 DEF Pick
  <2>2. /\ Pick(q, I) \o Pick(r, J) \in Seq(S)
        /\ Len(Pick(q, I) \o Pick(r, J)) = a + b
    BY <1>10, <1>11, ConcatProperties
  <2> DEFINE P == Pick(q, I) \o Pick(r, J)
  <2>3. P = [k \in 1..(a + b) |-> P[k]]
    <3>1. P \in Seq(S) /\ Len(P) = a + b
      BY <2>2
    <3> HIDE DEF P
    <3> QED
      BY <3>1
  <2> QED
    BY <2>1, <2>3
<1> QED
  BY <1>12, <1>13
=============================================================================
