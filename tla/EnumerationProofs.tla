---------------------------- MODULE EnumerationProofs ----------------------------
(***************************************************************************)
(* Lemmas about finite sets of numbers listed in their order, and about    *)
(* the lists that loops over them take apart and put together.             *)
(***************************************************************************)
EXTENDS Enumeration, FiniteSetTheorems, SequenceTheorems, TLAPS

\* The rank of a position is its place among the positions of S, and a later
\* position has a higher rank.
LEMMA RankInFinite ==
  ASSUME NEW S \in SUBSET Int, IsFiniteSet(S)
  PROVE  /\ Cardinality(S) \in Nat
         /\ \A i \in S : RankIn(S, i) \in 1..Cardinality(S)
         /\ \A i, j \in S : i < j => RankIn(S, i) < RankIn(S, j)
<1>1. IsFiniteSet(S) /\ Cardinality(S) \in Nat
  BY FS_CardinalityType
<1>2. ASSUME NEW i \in S
      PROVE  /\ IsFiniteSet({j \in S : j <= i})
             /\ RankIn(S, i) \in 1..Cardinality(S)
  <2>1. {j \in S : j <= i} \in SUBSET S /\ i \in {j \in S : j <= i}
    OBVIOUS
  <2>2. /\ IsFiniteSet({j \in S : j <= i})
        /\ Cardinality({j \in S : j <= i}) <= Cardinality(S)
    BY <1>1, <2>1, FS_Subset
  <2>3. /\ Cardinality({j \in S : j <= i}) \in Nat
        /\ Cardinality({j \in S : j <= i}) # 0
    BY <2>1, <2>2, FS_CardinalityType, FS_EmptySet
  <2>4. QED
    BY <1>1, <2>2, <2>3 DEF RankIn
<1>3. ASSUME NEW i \in S, NEW j \in S, i < j
      PROVE  RankIn(S, i) < RankIn(S, j)
  <2> DEFINE Upto(x) == {k \in S : k <= x}
  <2>1. Upto(i) \in SUBSET Upto(j) /\ j \in Upto(j) /\ j \notin Upto(i)
    <3>1. i \in Int /\ j \in Int /\ \A k \in S : k \in Int
      OBVIOUS
    <3>2. \A k \in S : k <= i => k <= j
      BY <1>3, <3>1
    <3>3. Upto(i) \in SUBSET Upto(j)
      BY <3>2
    <3>4. j \in Upto(j) /\ j \notin Upto(i)
      BY <1>3, <3>1
    <3>5. QED
      BY <3>3, <3>4
  <2>2. IsFiniteSet(Upto(j)) /\ IsFiniteSet(Upto(i))
    BY <1>2
  <2>3. /\ Cardinality(Upto(i)) <= Cardinality(Upto(j))
        /\ Cardinality(Upto(i)) # Cardinality(Upto(j))
    BY <2>1, <2>2, FS_Subset
  <2>4. Cardinality(Upto(i)) \in Nat /\ Cardinality(Upto(j)) \in Nat
    BY <2>2, FS_CardinalityType
  <2>5. QED
    BY <2>3, <2>4 DEF RankIn
<1>4. QED
  BY <1>1, <1>2, <1>3

\* NthOf lists the positions of S in order, each of them once.
LEMMA NthOfFinite ==
  ASSUME NEW S \in SUBSET Int, IsFiniteSet(S)
  PROVE  /\ \A k \in 1..Cardinality(S) :
              NthOf(S, k) \in S /\ RankIn(S, NthOf(S, k)) = k
         /\ \A i \in S : NthOf(S, RankIn(S, i)) = i
         /\ \A k, m \in 1..Cardinality(S) :
              k < m <=> NthOf(S, k) < NthOf(S, m)
<1> DEFINE rank == [i \in S |-> RankIn(S, i)]
           Top  == 1..Cardinality(S)
<1>1. /\ Cardinality(S) \in Nat
      /\ \A i \in S : RankIn(S, i) \in Top
      /\ \A i, j \in S : i < j => RankIn(S, i) < RankIn(S, j)
  BY RankInFinite
<1>2. \A i, j \in S : RankIn(S, i) = RankIn(S, j) => i = j
  <2> SUFFICES ASSUME NEW i \in S, NEW j \in S, i # j
               PROVE  RankIn(S, i) # RankIn(S, j)
    OBVIOUS
  <2>1. i < j \/ j < i
    OBVIOUS
  <2>2. RankIn(S, i) < RankIn(S, j) \/ RankIn(S, j) < RankIn(S, i)
    BY <1>1, <2>1
  <2>3. RankIn(S, i) \in Nat /\ RankIn(S, j) \in Nat
    BY <1>1
  <2>4. QED
    BY <2>2, <2>3
<1>3. rank \in Injection(S, Top)
  <2>1. rank \in [S -> Top]
    BY <1>1
  <2>2. \A i, j \in S : rank[i] = rank[j] => i = j
    BY <1>2
  <2>3. QED
    BY <2>1, <2>2 DEF Injection, IsInjective
<1>4. IsFiniteSet(Top) /\ Cardinality(Top) = Cardinality(S)
  BY <1>1, FS_Interval
<1>5. rank \in Surjection(S, Top)
  BY <1>3, <1>4, FS_Injection
<1>6. \A k \in Top : \E i \in S : RankIn(S, i) = k
  BY <1>5 DEF Surjection
<1>7. \A k \in Top : NthOf(S, k) \in S /\ RankIn(S, NthOf(S, k)) = k
  BY <1>6 DEF NthOf
<1>8. \A i \in S : NthOf(S, RankIn(S, i)) = i
  BY <1>1, <1>2, <1>7
<1>9. ASSUME NEW k \in Top, NEW m \in Top
      PROVE  k < m <=> NthOf(S, k) < NthOf(S, m)
  <2> DEFINE i == NthOf(S, k)
             j == NthOf(S, m)
  <2>1. i \in S /\ j \in S /\ RankIn(S, i) = k /\ RankIn(S, j) = m
    BY <1>7
  <2>2. i < j => k < m
    BY <1>1, <2>1
  <2>3. j < i => m < k
    BY <1>1, <2>1
  <2>4. i = j => k = m
    BY <2>1
  <2>5. i \in Int /\ j \in Int /\ k \in Int /\ m \in Int
    <3>1. \A x \in S : x \in Int
      OBVIOUS
    <3>2. \A x \in Top : x \in Int
      BY <1>1
    <3>3. QED
      BY <2>1, <3>1, <3>2
  <2> HIDE DEF i, j
  <2>6. k < m <=> i < j
    BY <2>2, <2>3, <2>4, <2>5
  <2>7. QED
    BY <2>6 DEF i, j
<1>10. QED
  BY <1>7, <1>8, <1>9

\* The same of positions in a list.
LEMMA RankProperties ==
  ASSUME NEW n \in Nat, NEW S \in SUBSET (1..n)
  PROVE  /\ IsFiniteSet(S)
         /\ Cardinality(S) \in Nat
         /\ \A i \in S : RankIn(S, i) \in 1..Cardinality(S)
         /\ \A i, j \in S : i < j => RankIn(S, i) < RankIn(S, j)
<1>1. S \in SUBSET Int /\ IsFiniteSet(1..n)
  BY FS_Interval
<1>2. IsFiniteSet(S)
  BY <1>1, FS_Subset
<1> QED
  BY <1>1, <1>2, RankInFinite

LEMMA NthProperties ==
  ASSUME NEW n \in Nat, NEW S \in SUBSET (1..n)
  PROVE  /\ \A k \in 1..Cardinality(S) :
              NthOf(S, k) \in S /\ RankIn(S, NthOf(S, k)) = k
         /\ \A i \in S : NthOf(S, RankIn(S, i)) = i
         /\ \A k, m \in 1..Cardinality(S) :
              k < m <=> NthOf(S, k) < NthOf(S, m)
<1>1. S \in SUBSET Int
  OBVIOUS
<1>2. IsFiniteSet(S)
  BY RankProperties
<1> QED
  BY <1>1, <1>2, NthOfFinite

\* A set of numbers has a least one, a set of positions a last one.
LEMMA LeastExists ==
  ASSUME NEW S \in SUBSET Nat, S # {}
  PROVE  \E x \in S : \A y \in S : x <= y
<1>1. PICK m \in S : TRUE
  OBVIOUS
<1> DEFINE T == {x \in 1..(m + 1) : x - 1 \in S}
           k == NthOf(T, 1)
<1>2. m + 1 \in Nat /\ T \in SUBSET (1..(m + 1)) /\ m + 1 \in T
  BY <1>1
<1> HIDE DEF T
<1>3. Cardinality(T) \in Nat /\ \A x \in T : RankIn(T, x) \in 1..Cardinality(T)
  BY <1>2, RankProperties
<1>4. 1 \in 1..Cardinality(T)
  BY <1>2, <1>3
<1>5. /\ k \in T /\ RankIn(T, k) = 1
      /\ \A x \in T : NthOf(T, RankIn(T, x)) = x
      /\ \A p, q \in 1..Cardinality(T) : p < q <=> NthOf(T, p) < NthOf(T, q)
  BY <1>2, <1>4, NthProperties
<1> HIDE DEF k
<1>6. k \in 1..(m + 1) /\ k - 1 \in S
  BY <1>5 DEF T
<1>7. ASSUME NEW x \in T PROVE k <= x
  <2>1. RankIn(T, k) = RankIn(T, x) \/ RankIn(T, k) < RankIn(T, x)
    BY <1>3, <1>5, <1>7
  <2>2. k = x \/ k < x
    BY <1>3, <1>4, <1>5, <1>7, <2>1
  <2> QED
    BY <1>2, <1>6, <2>2
<1>8. ASSUME NEW y \in S PROVE k - 1 <= y
  <2>1. CASE y + 1 \in 1..(m + 1)
    <3>1. y + 1 \in T
      BY <1>8, <2>1 DEF T
    <3> QED
      BY <1>6, <1>7, <1>8, <3>1
  <2>2. CASE y + 1 \notin 1..(m + 1)
    BY <1>1, <1>6, <1>8, <2>2
  <2> QED
    BY <2>1, <2>2
<1> QED
  BY <1>6, <1>8

LEMMA LastExists ==
  ASSUME NEW n \in Nat, NEW S \in SUBSET (1..n), S # {}
  PROVE  \E x \in S : \A y \in S : y <= x
<1> DEFINE below == {n - x : x \in S}
<1>1. below \in SUBSET Nat /\ below # {}
  <2>1. \A x \in S : x \in Int /\ n - x \in Nat
    OBVIOUS
  <2>2. below \in SUBSET Nat
    BY <2>1
  <2>3. PICK x : x \in S
    OBVIOUS
  <2>4. n - x \in below
    BY <2>3
  <2> QED
    BY <2>2, <2>4
<1>2. PICK b \in below : \A y \in below : b <= y
  BY <1>1, LeastExists
<1>3. PICK x \in S : b = n - x
  BY <1>2
<1>4. ASSUME NEW y \in S PROVE y <= x
  <2>1. n - y \in below /\ x \in Int /\ y \in Int
    OBVIOUS
  <2> QED
    BY <1>2, <1>3, <2>1
<1> QED
  BY <1>4

-----------------------------------------------------------------------------
(* Two sets of positions one after the other are listed one after the      *)
(* other.                                                                  *)
After(m, T) == {m + j : j \in T}

LEMMA AfterCardinality ==
  ASSUME NEW m \in Nat, NEW n \in Nat, NEW T \in SUBSET (1..n)
  PROVE  /\ IsFiniteSet(After(m, T))
         /\ Cardinality(After(m, T)) = Cardinality(T)
<1> DEFINE shift == [j \in T |-> m + j]
<1>1. IsFiniteSet(T) /\ \A j \in T : j \in Int
  BY RankProperties
<1>2. shift \in Bijection(T, After(m, T))
  <2>1. shift \in [T -> After(m, T)]
    BY DEF After
  <2>2. \A i, j \in T : shift[i] = shift[j] => i = j
    BY <1>1
  <2>3. \A x \in After(m, T) : \E j \in T : shift[j] = x
    BY DEF After
  <2> QED
    BY <2>1, <2>2, <2>3 DEF Bijection, Injection, Surjection, IsInjective
<1>3. ExistsBijection(T, After(m, T))
  BY <1>2 DEF ExistsBijection
<1> QED
  BY <1>1, <1>3, FS_Bijection

LEMMA DisjointUnion ==
  ASSUME NEW S, NEW T, IsFiniteSet(S), IsFiniteSet(T), S \cap T = {}
  PROVE  Cardinality(S \cup T) = Cardinality(S) + Cardinality(T)
<1>1. IsFiniteSet({}) /\ Cardinality({}) = 0
  BY FS_EmptySet
<1>2. Cardinality(S) \in Nat /\ Cardinality(T) \in Nat
  BY FS_CardinalityType
<1>3. Cardinality(S \cup T) = Cardinality(S) + Cardinality(T) - Cardinality(S \cap T)
  BY FS_Union
<1>4. Cardinality(S \cap T) = 0
  BY <1>1
<1> QED
  BY <1>2, <1>3, <1>4

ListedAfter(m, n, S, T, U) ==
  /\ U \in SUBSET (1 .. m + n)
  /\ Cardinality(S) \in Nat /\ Cardinality(T) \in Nat
  /\ Cardinality(U) = Cardinality(S) + Cardinality(T)
  /\ \A k \in 1..Cardinality(S) : NthOf(U, k) = NthOf(S, k)
  /\ \A k \in 1..Cardinality(T) : NthOf(U, Cardinality(S) + k) = m + NthOf(T, k)

LEMMA NthOfUnion ==
  ASSUME NEW m \in Nat, NEW n \in Nat, NEW S \in SUBSET (1..m), NEW T \in SUBSET (1..n)
  PROVE  ListedAfter(m, n, S, T, S \cup After(m, T))
<1> DEFINE U == S \cup After(m, T)
<1>1. /\ \A i \in S : i \in Int /\ 1 <= i /\ i <= m
      /\ \A j \in T : j \in Int /\ 1 <= j /\ j <= n
  OBVIOUS
<1>2. U \in SUBSET (1 .. m + n) /\ m + n \in Nat
  <2>1. \A j \in T : m + j \in 1 .. m + n
    BY <1>1
  <2>2. \A i \in S : i \in 1 .. m + n
    BY <1>1
  <2>3. m + n \in Nat
    OBVIOUS
  <2> QED
    BY <2>1, <2>2, <2>3 DEF After
<1>3. S \cap After(m, T) = {}
  BY <1>1 DEF After
<1>4. /\ IsFiniteSet(S) /\ IsFiniteSet(After(m, T)) /\ IsFiniteSet(T)
      /\ Cardinality(S) \in Nat /\ Cardinality(T) \in Nat
      /\ Cardinality(After(m, T)) = Cardinality(T)
  BY AfterCardinality, RankProperties
<1>5. Cardinality(U) = Cardinality(S) + Cardinality(T)
  BY <1>3, <1>4, DisjointUnion
<1>6. \A i \in S : RankIn(U, i) = RankIn(S, i)
  <2>1. \A i \in S : {j \in U : j <= i} = {j \in S : j <= i}
    BY <1>1 DEF After
  <2> QED
    BY <2>1 DEF RankIn
<1>7. ASSUME NEW j \in T PROVE RankIn(U, m + j) = Cardinality(S) + RankIn(T, j)
  <2> DEFINE low == {y \in T : y <= j}
  <2>1. {x \in U : x <= m + j} = S \cup After(m, low)
    <3>1. /\ \A i \in S : i <= m + j
          /\ \A y \in T : m + y <= m + j <=> y <= j
      BY <1>1, <1>7
    <3> QED
      BY <3>1 DEF After
  <2>2. low \in SUBSET (1..n) /\ S \cap After(m, low) = {}
    <3>1. low \in SUBSET T
      OBVIOUS
    <3>2. After(m, low) \in SUBSET After(m, T)
      BY <3>1 DEF After
    <3> QED
      BY <1>3, <3>1, <3>2
  <2> HIDE DEF low
  <2>3. IsFiniteSet(After(m, low)) /\ Cardinality(After(m, low)) = Cardinality(low)
    BY <2>2, AfterCardinality
  <2>4. Cardinality(S \cup After(m, low)) = Cardinality(S) + Cardinality(low)
    BY <1>4, <2>2, <2>3, DisjointUnion
  <2> QED
    BY <2>1, <2>4 DEF RankIn, low
<1>8. /\ \A i \in S : i \in U
      /\ \A j \in T : m + j \in U
  BY DEF After
<1> HIDE DEF U
<1>9. \A i \in U : NthOf(U, RankIn(U, i)) = i
  BY <1>2, NthProperties
<1>10. ASSUME NEW k \in 1..Cardinality(S) PROVE NthOf(U, k) = NthOf(S, k)
  <2>1. NthOf(S, k) \in S /\ RankIn(S, NthOf(S, k)) = k
    BY NthProperties
  <2> QED
    BY <1>6, <1>8, <1>9, <2>1
<1>11. ASSUME NEW k \in 1..Cardinality(T)
       PROVE  NthOf(U, Cardinality(S) + k) = m + NthOf(T, k)
  <2>1. NthOf(T, k) \in T /\ RankIn(T, NthOf(T, k)) = k
    BY NthProperties
  <2>2. RankIn(U, m + NthOf(T, k)) = Cardinality(S) + k
    BY <1>7, <2>1
  <2> QED
    BY <1>8, <1>9, <2>1, <2>2
<1> QED
  BY <1>2, <1>4, <1>5, <1>10, <1>11 DEF U, ListedAfter

(* A part of a list is a list, of what stands at those positions.          *)
LEMMA PartType ==
  ASSUME NEW X, NEW s \in Seq(X), NEW S \in SUBSET DOMAIN s
  PROVE  /\ Cardinality(S) \in Nat
         /\ Part(s, S) \in Seq(X)
         /\ Len(Part(s, S)) = Cardinality(S)
         /\ DOMAIN Part(s, S) = 1..Cardinality(S)
         /\ \A k \in DOMAIN Part(s, S) :
              NthOf(S, k) \in S /\ Part(s, S)[k] = s[NthOf(S, k)]
<1>1. Len(s) \in Nat /\ DOMAIN s = 1..Len(s) /\ \A i \in DOMAIN s : s[i] \in X
  BY LenProperties, ElementOfSeq
<1>2. /\ Cardinality(S) \in Nat
      /\ \A k \in 1..Cardinality(S) : NthOf(S, k) \in S
  BY <1>1, RankProperties, NthProperties
<1>3. Part(s, S) \in [1..Cardinality(S) -> X]
  BY <1>1, <1>2 DEF Part
<1>4. Part(s, S) \in Seq(X)
  BY <1>2, <1>3, SeqDef
<1>5. Len(Part(s, S)) = Cardinality(S)
  BY <1>2, <1>3, <1>4, LenProperties
<1> QED
  BY <1>2, <1>3, <1>4, <1>5 DEF Part

(* Taking parts of two lists, then joining them, is joining them first.    *)
PartsJoin(s, t) ==
  \A S \in SUBSET DOMAIN s, T \in SUBSET DOMAIN t :
    Part(s \o t, S \cup After(Len(s), T)) = Part(s, S) \o Part(t, T)

LEMMA PartOfConcat ==
  ASSUME NEW X, NEW s \in Seq(X), NEW t \in Seq(X)
  PROVE  PartsJoin(s, t)
<1> SUFFICES ASSUME NEW S \in SUBSET DOMAIN s, NEW T \in SUBSET DOMAIN t
             PROVE  Part(s \o t, S \cup After(Len(s), T)) = Part(s, S) \o Part(t, T)
  BY DEF PartsJoin
<1> DEFINE m == Len(s)
           n == Len(t)
           U == S \cup After(m, T)
           a == Part(s \o t, U)
           b == Part(s, S) \o Part(t, T)
<1>1. /\ m \in Nat /\ n \in Nat /\ DOMAIN s = 1..m /\ DOMAIN t = 1..n
      /\ s \o t \in Seq(X) /\ Len(s \o t) = m + n /\ DOMAIN (s \o t) = 1 .. m + n
      /\ \A i \in 1 .. m + n : (s \o t)[i] = IF i <= m THEN s[i] ELSE t[i - m]
  BY LenProperties, ConcatProperties
<1> DEFINE p == Cardinality(S)
           q == Cardinality(T)
<1>2. /\ U \in SUBSET (1 .. m + n)
      /\ p \in Nat /\ q \in Nat /\ Cardinality(U) = p + q
      /\ \A k \in 1..p : NthOf(U, k) = NthOf(S, k)
      /\ \A k \in 1..q : NthOf(U, p + k) = m + NthOf(T, k)
  <2>1. S \in SUBSET (1..m) /\ T \in SUBSET (1..n) /\ m \in Nat /\ n \in Nat
    BY <1>1
  <2> HIDE DEF m, n
  <2>2. ListedAfter(m, n, S, T, S \cup After(m, T))
    BY <2>1, NthOfUnion
  <2> QED
    BY <2>2 DEF ListedAfter
<1>3. /\ Part(s, S) \in Seq(X) /\ Len(Part(s, S)) = p
      /\ \A k \in 1..p : NthOf(S, k) \in S /\ Part(s, S)[k] = s[NthOf(S, k)]
  BY PartType
<1>4. /\ Part(t, T) \in Seq(X) /\ Len(Part(t, T)) = q
      /\ \A k \in 1..q : NthOf(T, k) \in T /\ Part(t, T)[k] = t[NthOf(T, k)]
  BY PartType
<1> HIDE DEF m, n, p, q, U
<1>5. /\ a \in Seq(X) /\ Len(a) = p + q
      /\ \A k \in 1 .. p + q : a[k] = (s \o t)[NthOf(U, k)]
  <2>1. s \o t \in Seq(X) /\ U \in SUBSET DOMAIN (s \o t)
    BY <1>1, <1>2
  <2>2. /\ Part(s \o t, U) \in Seq(X) /\ Len(Part(s \o t, U)) = Cardinality(U)
        /\ DOMAIN Part(s \o t, U) = 1..Cardinality(U)
        /\ \A k \in DOMAIN Part(s \o t, U) : Part(s \o t, U)[k] = (s \o t)[NthOf(U, k)]
    BY <2>1, PartType
  <2> QED
    BY <1>2, <2>2 DEF U, m
<1>6. /\ b \in Seq(X) /\ Len(b) = p + q
      /\ \A k \in 1 .. p + q :
           b[k] = IF k <= p THEN Part(s, S)[k] ELSE Part(t, T)[k - p]
  BY <1>2, <1>3, <1>4, ConcatProperties
<1>7. ASSUME NEW k \in 1 .. p + q PROVE a[k] = b[k]
  <2>1. CASE k <= p
    <3>1. k \in 1..p /\ NthOf(S, k) \in 1..m
      BY <1>1, <1>2, <1>3, <2>1
    <3>2. NthOf(S, k) \in 1 .. m + n /\ NthOf(S, k) <= m
      BY <1>1, <3>1
    <3>3. a[k] = s[NthOf(S, k)]
      BY <1>1, <1>2, <1>5, <3>1, <3>2
    <3>4. b[k] = s[NthOf(S, k)]
      BY <1>3, <1>6, <2>1, <3>1
    <3> QED
      BY <3>3, <3>4
  <2>2. CASE ~(k <= p)
    <3>1. k - p \in 1..q /\ k = p + (k - p)
      BY <1>2, <2>2
    <3>2. NthOf(T, k - p) \in 1..n /\ NthOf(U, k) = m + NthOf(T, k - p)
      BY <1>1, <1>2, <1>4, <3>1
    <3>3. /\ m + NthOf(T, k - p) \in 1 .. m + n /\ ~(m + NthOf(T, k - p) <= m)
          /\ m + NthOf(T, k - p) - m = NthOf(T, k - p)
      BY <1>1, <3>2
    <3>4. a[k] = t[NthOf(T, k - p)]
      BY <1>1, <1>5, <3>2, <3>3
    <3>5. b[k] = t[NthOf(T, k - p)]
      BY <1>4, <1>6, <2>2, <3>1
    <3> QED
      BY <3>4, <3>5
  <2> QED
    BY <2>1, <2>2
<1> HIDE DEF a, b
<1>8. a = b
  BY <1>5, <1>6, <1>7, SeqEqual
<1> QED
  BY <1>8 DEF a, b, U, m

(* The elements of a list that lie in Y: of two lists end to end, those of *)
(* each.                                                                   *)
Where(s, Y) == Part(s, {i \in DOMAIN s : s[i] \in Y})

LEMMA WhereConcat ==
  ASSUME NEW X, NEW s \in Seq(X), NEW t \in Seq(X), NEW Y
  PROVE  Where(s \o t, Y) = Where(s, Y) \o Where(t, Y)
<1> DEFINE m == Len(s)
           n == Len(t)
           S == {i \in DOMAIN s : s[i] \in Y}
           T == {i \in DOMAIN t : t[i] \in Y}
           U == {i \in DOMAIN (s \o t) : (s \o t)[i] \in Y}
<1>1. /\ m \in Nat /\ n \in Nat /\ DOMAIN s = 1..m /\ DOMAIN t = 1..n
      /\ DOMAIN (s \o t) = 1 .. m + n
      /\ \A i \in 1 .. m + n : (s \o t)[i] = IF i <= m THEN s[i] ELSE t[i - m]
  BY LenProperties, ConcatProperties
<1>2. U = S \cup After(m, T)
  <2>1. ASSUME NEW i \in U PROVE i \in S \cup After(m, T)
    <3>1. i \in 1 .. m + n /\ (s \o t)[i] \in Y
      BY <1>1
    <3>2. CASE i <= m
      <4>1. i \in 1..m /\ s[i] \in Y
        BY <1>1, <3>1, <3>2
      <4> QED
        BY <1>1, <4>1
    <3>3. CASE ~(i <= m)
      <4>1. i - m \in 1..n /\ t[i - m] \in Y /\ i = m + (i - m)
        BY <1>1, <3>1, <3>3
      <4>2. i - m \in T
        BY <1>1, <4>1
      <4>3. i \in After(m, T)
        BY <4>1, <4>2 DEF After
      <4> QED
        BY <4>3
    <3> QED
      BY <3>2, <3>3
  <2>2. ASSUME NEW i \in S PROVE i \in U
    <3>1. i \in 1 .. m + n /\ i <= m /\ s[i] \in Y
      BY <1>1
    <3> QED
      BY <1>1, <3>1
  <2>3. ASSUME NEW j \in T PROVE m + j \in U
    <3>1. m + j \in 1 .. m + n /\ ~(m + j <= m) /\ (m + j) - m = j /\ t[j] \in Y
      BY <1>1
    <3>2. (s \o t)[m + j] = t[j]
      BY <1>1, <3>1
    <3> QED
      BY <1>1, <3>1, <3>2
  <2>4. After(m, T) \subseteq U
    <3> HIDE DEF T, U
    <3> QED
      BY <2>3 DEF After
  <2>5. S \subseteq U
    BY <2>2
  <2>6. U \subseteq S \cup After(m, T)
    BY <2>1
  <2> HIDE DEF S, T, U
  <2> QED
    BY <2>4, <2>5, <2>6
<1>3. S \in SUBSET DOMAIN s /\ T \in SUBSET DOMAIN t
  OBVIOUS
<1>4. Part(s \o t, U) = Part(s, S) \o Part(t, T)
  <2> HIDE DEF S, T, U
  <2>1. PartsJoin(s, t)
    BY PartOfConcat
  <2>2. Part(s \o t, S \cup After(Len(s), T)) = Part(s, S) \o Part(t, T)
    BY <1>3, <2>1, Zenon DEF PartsJoin
  <2> QED
    BY <1>2, <2>2
<1> QED
  BY <1>4 DEF Where

(* What stands in a part of a list is what stood there in the list.        *)
LEMMA PartValues ==
  ASSUME NEW X, NEW s \in Seq(X), NEW S \in SUBSET DOMAIN s
  PROVE  {Part(s, S)[k] : k \in DOMAIN Part(s, S)} = {s[i] : i \in S}
<1>1. Len(s) \in Nat /\ DOMAIN s = 1..Len(s)
  BY LenProperties
<1>2. /\ DOMAIN Part(s, S) = 1..Cardinality(S)
      /\ \A k \in DOMAIN Part(s, S) : NthOf(S, k) \in S /\ Part(s, S)[k] = s[NthOf(S, k)]
  BY PartType
<1>3. \A i \in S : RankIn(S, i) \in 1..Cardinality(S) /\ NthOf(S, RankIn(S, i)) = i
  BY <1>1, RankProperties, NthProperties
<1>4. \A i \in S : \E k \in DOMAIN Part(s, S) : Part(s, S)[k] = s[i]
  BY <1>2, <1>3
<1> QED
  BY <1>2, <1>4

(* Counting the first k members of a set one by one, in their order, counts *)
(* the members whose rank is at most k, whatever it is that they are to be. *)
NthCounts(K) ==
  \A k \in 0..Cardinality(K) : \A A :
    Cardinality({j \in 1..k : NthOf(K, j) \in A})
      = Cardinality({c \in K : RankIn(K, c) <= k /\ c \in A})

LEMMA NthCount ==
  ASSUME NEW n \in Nat, NEW K \in SUBSET (1..n)
  PROVE  NthCounts(K)
<1> SUFFICES ASSUME NEW k \in 0..Cardinality(K), NEW A
             PROVE  Cardinality({j \in 1..k : NthOf(K, j) \in A})
                      = Cardinality({c \in K : RankIn(K, c) <= k /\ c \in A})
  BY DEF NthCounts
<1> DEFINE N == Cardinality(K)
           S == {j \in 1..k : NthOf(K, j) \in A}
           T == {c \in K : RankIn(K, c) <= k /\ c \in A}
           f == [j \in S |-> NthOf(K, j)]
<1>1. N \in Nat /\ k \in Nat /\ \A j \in 1..k : j \in 1..N
  <2>1. N \in Nat
    BY RankProperties
  <2> HIDE DEF N
  <2>2. k \in 0..N
    BY DEF N
  <2> QED
    BY <2>1, <2>2
<1>2. /\ \A c \in K : RankIn(K, c) \in 1..N
      /\ \A j \in 1..N : NthOf(K, j) \in K /\ RankIn(K, NthOf(K, j)) = j
      /\ \A c \in K : NthOf(K, RankIn(K, c)) = c
  BY RankProperties, NthProperties
<1> HIDE DEF N
<1>3. IsFiniteSet(S)
  <2>1. IsFiniteSet(1..k) /\ S \in SUBSET (1..k)
    BY <1>1, FS_Interval
  <2> QED
    BY <2>1, FS_Subset
<1>4. f \in Bijection(S, T)
  <2>1. \A j \in S : f[j] \in T
    BY <1>1, <1>2
  <2>2. \A i, j \in S : f[i] = f[j] => i = j
    BY <1>1, <1>2
  <2>3. \A c \in T : RankIn(K, c) \in S /\ f[RankIn(K, c)] = c
    BY <1>1, <1>2
  <2> HIDE DEF S, T
  <2>4. f \in [S -> T]
    BY <2>1
  <2> HIDE DEF f
  <2> QED
    BY <2>2, <2>3, <2>4 DEF Bijection, Injection, Surjection, IsInjective
<1> HIDE DEF S, T, f
<1>5. ExistsBijection(S, T)
  BY <1>4 DEF ExistsBijection
<1>6. Cardinality(T) = Cardinality(S)
  BY <1>3, <1>5, FS_Bijection
<1> QED
  BY <1>6 DEF S, T

(* The lists in parts, joined one by one.                                  *)
LEMMA JoinedUpToStep ==
  ASSUME NEW X, NEW parts \in Seq(Seq(X))
  PROVE  /\ JoinedUpTo(parts)[0] = <<>>
         /\ \A n \in 1..Len(parts) :
              JoinedUpTo(parts)[n] = JoinedUpTo(parts)[n - 1] \o parts[n]
         /\ \A n \in 0..Len(parts) : JoinedUpTo(parts)[n] \in Seq(X)
<1> DEFINE N == Len(parts)
           Joins(f, n) == /\ f \in [0..n -> Seq(X)]
                          /\ f = [i \in 0..n |-> IF i = 0 THEN <<>> ELSE f[i - 1] \o parts[i]]
           Bad == {n \in 0..N : \A f : ~Joins(f, n)}
<1>1. N \in Nat /\ \A i \in 1..N : parts[i] \in Seq(X)
  BY LenProperties, ElementOfSeq
<1>2. Bad = {}
  <2> HIDE DEF Joins
  <2>1. SUFFICES ASSUME Bad # {} PROVE FALSE
    OBVIOUS
  <2>2. Bad \in SUBSET Nat
    BY <1>1
  <2>3. PICK n \in Bad : \A k \in Bad : n <= k
    BY <2>1, <2>2, LeastExists
  <2>4. n \in 0..N /\ \A f : ~Joins(f, n)
    OBVIOUS
  <2>5. n # 0
    <3>1. SUFFICES ASSUME n = 0 PROVE FALSE
      OBVIOUS
    <3>2. Joins([i \in 0..0 |-> <<>>], 0)
      BY EmptySeq DEF Joins
    <3> QED
      BY <2>4, <3>1, <3>2
  <2>6. n - 1 \in 0..N /\ n - 1 \notin Bad
    <3>1. n \in 1..N /\ n - 1 \in 0..N /\ ~(n <= n - 1)
      BY <1>1, <2>4, <2>5
    <3> HIDE DEF Bad
    <3> QED
      BY <2>3, <3>1
  <2>7. PICK f : Joins(f, n - 1)
    BY <2>6
  <2> DEFINE last == f[n - 1] \o parts[n]
             g == [i \in 0..n |-> IF i = n THEN last ELSE f[i]]
  <2>8. /\ n \in 1..N /\ n - 1 \in 0..(n - 1)
        /\ \A i \in 0..n : i # n => i \in 0..(n - 1)
        /\ \A i \in 0..(n - 1) : i # 0 => i - 1 \in 0..(n - 1)
        /\ \A i \in 0..(n - 1) : i \in 0..n /\ i # n
    BY <1>1, <2>4, <2>5
  <2>9. last \in Seq(X)
    BY <1>1, <2>7, <2>8, ConcatProperties DEF Joins
  <2>10. g \in [0..n -> Seq(X)]
    BY <2>7, <2>8, <2>9 DEF Joins
  <2>11. ASSUME NEW i \in 0..n
         PROVE  g[i] = IF i = 0 THEN <<>> ELSE g[i - 1] \o parts[i]
    <3>1. CASE i = n
      <4>1. g[i] = last /\ g[n - 1] = f[n - 1]
        BY <2>8, <3>1
      <4> QED
        BY <2>5, <3>1, <4>1
    <3>2. CASE i # n
      <4>1. i \in 0..(n - 1) /\ g[i] = f[i]
        BY <2>8, <3>2
      <4>2. i # 0 => i - 1 \in 0..(n - 1) /\ g[i - 1] = f[i - 1]
        BY <2>8, <4>1
      <4>3. f[i] = IF i = 0 THEN <<>> ELSE f[i - 1] \o parts[i]
        BY <2>7, <4>1 DEF Joins
      <4> QED
        BY <4>1, <4>2, <4>3
    <3> QED
      BY <3>1, <3>2
  <2>12. g = [i \in 0..n |-> IF i = 0 THEN <<>> ELSE g[i - 1] \o parts[i]]
    <3> HIDE DEF last
    <3>1. g = [i \in 0..n |-> g[i]]
      BY Zenon
    <3> HIDE DEF g
    <3> QED
      BY <2>11, <3>1
  <2>13. Joins(g, n)
    BY <2>10, <2>12 DEF Joins
  <2> HIDE DEF g
  <2> QED
    BY <2>4, <2>13
<1>3. N \in 0..N
  BY <1>1
<1>4. PICK f : Joins(f, N)
  BY <1>2, <1>3
<1>5. f = [i \in 0..N |-> IF i = 0 THEN <<>> ELSE f[i - 1] \o parts[i]]
  BY <1>4
<1>6. /\ JoinedUpTo(parts) = [i \in 0..N |-> IF i = 0 THEN <<>>
                                ELSE JoinedUpTo(parts)[i - 1] \o parts[i]]
  BY <1>5 DEF JoinedUpTo
<1>7. JoinedUpTo(parts)[0] = <<>>
  BY <1>1, <1>6
<1>8. ASSUME NEW n \in 1..N
      PROVE  JoinedUpTo(parts)[n] = JoinedUpTo(parts)[n - 1] \o parts[n]
  <2>1. n \in 0..N /\ n # 0
    BY <1>1
  <2> QED
    BY <1>6, <2>1
<1> DEFINE Odd == {n \in 0..N : JoinedUpTo(parts)[n] \notin Seq(X)}
<1>9. Odd = {}
  <2>1. SUFFICES ASSUME Odd # {} PROVE FALSE
    OBVIOUS
  <2>2. Odd \in SUBSET Nat
    BY <1>1
  <2>3. PICK n \in Odd : \A k \in Odd : n <= k
    BY <2>1, <2>2, LeastExists
  <2>4. n \in 1..N /\ n - 1 \in 0..N
    <3>1. n \in 0..N /\ n # 0
      BY <1>7, <2>3, EmptySeq
    <3> QED
      BY <1>1, <3>1
  <2>5. n - 1 \notin Odd
    BY <2>3, <2>4
  <2>6. JoinedUpTo(parts)[n - 1] \in Seq(X)
    BY <2>4, <2>5
  <2>7. JoinedUpTo(parts)[n] \in Seq(X)
    BY <1>1, <1>8, <2>4, <2>6, ConcatProperties
  <2> QED
    BY <2>3, <2>7
<1> QED
  BY <1>7, <1>8, <1>9

(* A set of numbers as a list has every element once, in their order.      *)
LEMMA ListOfType ==
  ASSUME NEW n \in Nat, NEW S \in SUBSET (1..n)
  PROVE  /\ Cardinality(S) \in Nat
         /\ ListOf(S) \in Seq(S) /\ Len(ListOf(S)) = Cardinality(S)
         /\ DOMAIN ListOf(S) = 1..Cardinality(S)
         /\ \A k \in DOMAIN ListOf(S) : ListOf(S)[k] \in S
         /\ \A k, m \in DOMAIN ListOf(S) : k < m => ListOf(S)[k] < ListOf(S)[m]
         /\ \A i \in S : \E k \in DOMAIN ListOf(S) : ListOf(S)[k] = i
<1>1. /\ Cardinality(S) \in Nat
      /\ \A k \in 1..Cardinality(S) : NthOf(S, k) \in S
      /\ \A k, m \in 1..Cardinality(S) : k < m => NthOf(S, k) < NthOf(S, m)
      /\ \A i \in S : RankIn(S, i) \in 1..Cardinality(S) /\ NthOf(S, RankIn(S, i)) = i
  BY RankProperties, NthProperties
<1>2. /\ ListOf(S) \in [1..Cardinality(S) -> S]
      /\ \A k \in 1..Cardinality(S) : ListOf(S)[k] = NthOf(S, k)
  BY <1>1 DEF ListOf
<1>3. ListOf(S) \in Seq(S)
  BY <1>1, <1>2, SeqDef
<1>4. Len(ListOf(S)) = Cardinality(S)
  BY <1>1, <1>2, <1>3, LenProperties
<1> QED
  BY <1>1, <1>2, <1>3, <1>4

(* All of a list is the list, and nothing of it the empty list.            *)
LEMMA PartAll ==
  ASSUME NEW X, NEW s \in Seq(X)
  PROVE  Part(s, DOMAIN s) = s
<1> DEFINE n == Len(s)
<1>1. n \in Nat /\ DOMAIN s = 1..n /\ s \in [1..n -> X]
  BY LenProperties
<1>2. IsFiniteSet(1..n) /\ Cardinality(1..n) = n
  BY <1>1, FS_Interval
<1>3. \A i \in 1..n : RankIn(1..n, i) = i
  <2>1. \A i \in 1..n : {j \in 1..n : j <= i} = 1..i
    BY <1>1
  <2>2. \A i \in 1..n : Cardinality(1..i) = i
    BY <1>1, FS_Interval
  <2> QED
    BY <2>1, <2>2 DEF RankIn
<1>4. \A k \in 1..n : NthOf(1..n, k) = k
  BY <1>1, <1>3, NthProperties
<1>5. Part(s, 1..n) = [k \in 1..n |-> s[k]]
  BY <1>2, <1>4 DEF Part
<1> QED
  BY <1>1, <1>5

LEMMA PartNone == \A s : Part(s, {}) = <<>>
<1>1. Cardinality({}) = 0 /\ 1..0 = {}
  BY FS_EmptySet
<1>2. \A s : Part(s, {}) = [k \in {} |-> s[NthOf({}, k)]]
  BY <1>1 DEF Part
<1> QED
  BY <1>2

(* The first and the last of a set of numbers.                             *)
LEMMA FirstOfIs ==
  ASSUME NEW S \in SUBSET Nat, S # {}
  PROVE  FirstOf(S) \in S /\ \A x \in S : FirstOf(S) <= x
<1>1. \E x \in S : \A y \in S : x <= y
  BY LeastExists
<1> QED
  BY <1>1 DEF FirstOf

LEMMA LastOfIs ==
  ASSUME NEW n \in Nat, NEW S \in SUBSET (0..n), S # {}
  PROVE  LastOf(S) \in S /\ \A x \in S : x <= LastOf(S)
<1> DEFINE T == After(1, S)
<1>1. \A x \in S : x \in Int /\ 1 + x \in 1 .. n + 1
  OBVIOUS
<1>2. T \in SUBSET (1 .. n + 1) /\ T # {}
  BY <1>1 DEF After
<1>3. PICK t \in T : \A y \in T : y <= t
  <2>1. n + 1 \in Nat
    OBVIOUS
  <2> HIDE DEF T
  <2> QED
    BY <1>2, <2>1, LastExists
<1>4. PICK m \in S : t = 1 + m
  BY <1>3 DEF After
<1>5. ASSUME NEW x \in S PROVE x <= m
  <2>1. 1 + x \in T
    BY DEF After
  <2>2. 1 + x <= 1 + m
    BY <1>3, <1>4, <2>1
  <2> QED
    BY <1>1, <2>2
<1>6. \E z \in S : \A y \in S : y <= z
  BY <1>5
<1> QED
  BY <1>6 DEF LastOf
=============================================================================
