--------------------------- MODULE Retrieval_proofs ---------------------------
(***************************************************************************)
(* Proofs about modules Search and MediaLane: for any index, request, pool *)
(* and limit the answer to a query is distinct, of the corpus asked for    *)
(* and as long as it may be, whatever is committed meanwhile; and for any  *)
(* rows at any distances in any order, the scan hands over the nearest,    *)
(* and the lane keeps the media and the best text of the fusion and admits *)
(* exactly as much as it may.                                              *)
(***************************************************************************)
EXTENDS Search, MediaLane, SequenceTheorems, FunctionTheorems, FiniteSetTheorems, TLAPS

---------------------------------------------------------------------------
(* Counting up a finite set in a total order.                              *)

IsTotalOrder(R, S) ==
    /\ \A x, y \in S : x = y \/ <<x, y>> \in R \/ <<y, x>> \in R
    /\ \A x, y, z \in S : <<x, y>> \in R /\ <<y, z>> \in R => <<x, z>> \in R
    /\ \A x \in S : <<x, x>> \notin R

\* The ranks are the numbers from 1, in the order.
LEMMA RankReaches ==
    ASSUME NEW S, IsFiniteSet(S), NEW R, IsTotalOrder(R, S)
    PROVE  /\ \A x \in S : RankIn(R, S, x) \in 1..Cardinality(S)
           /\ \A x, y \in S : <<x, y>> \in R <=> RankIn(R, S, x) < RankIn(R, S, y)
           /\ \A j \in 1..Cardinality(S) : \E x \in S : RankIn(R, S, x) = j
<1> DEFINE Upto(x) == {y \in S : y = x \/ <<y, x>> \in R}
           T == 1..Cardinality(S)
           f == [x \in S |-> RankIn(R, S, x)]
<1>1. \A x \in S : IsFiniteSet(Upto(x)) /\ RankIn(R, S, x) \in T /\ RankIn(R, S, x) \in Nat
  <2> SUFFICES ASSUME NEW x \in S PROVE IsFiniteSet(Upto(x)) /\ RankIn(R, S, x) \in T
                                           /\ RankIn(R, S, x) \in Nat
    OBVIOUS
  <2>1. Upto(x) \in SUBSET S /\ x \in Upto(x)
    OBVIOUS
  <2>2. IsFiniteSet(Upto(x)) /\ Cardinality(Upto(x)) <= Cardinality(S)
    BY <2>1, FS_Subset
  <2>3. Cardinality(Upto(x)) \in Nat /\ Cardinality(Upto(x)) # 0 /\ Cardinality(S) \in Nat
    BY <2>1, <2>2, FS_CardinalityType, FS_EmptySet
  <2>4. QED
    BY <2>2, <2>3 DEF RankIn
<1>2. \A x, y \in S : <<x, y>> \in R => RankIn(R, S, x) < RankIn(R, S, y)
  <2> SUFFICES ASSUME NEW x \in S, NEW y \in S, <<x, y>> \in R
               PROVE  RankIn(R, S, x) < RankIn(R, S, y)
    OBVIOUS
  <2>1. Upto(x) \in SUBSET Upto(y) /\ y \in Upto(y) /\ y \notin Upto(x)
    BY DEF IsTotalOrder
  <2>2. /\ Cardinality(Upto(x)) <= Cardinality(Upto(y))
        /\ Cardinality(Upto(x)) # Cardinality(Upto(y))
    BY <1>1, <2>1, FS_Subset
  <2>3. Cardinality(Upto(x)) \in Nat /\ Cardinality(Upto(y)) \in Nat
    BY <1>1, FS_CardinalityType
  <2>4. QED
    BY <2>2, <2>3 DEF RankIn
<1>3. \A x, y \in S : RankIn(R, S, x) < RankIn(R, S, y) => <<x, y>> \in R
  <2> SUFFICES ASSUME NEW x \in S, NEW y \in S, RankIn(R, S, x) < RankIn(R, S, y)
               PROVE  <<x, y>> \in R
    OBVIOUS
  <2>1. RankIn(R, S, x) \in Nat /\ RankIn(R, S, y) \in Nat
    BY <1>1
  <2>2. x # y /\ <<y, x>> \notin R
    BY <1>2, <2>1
  <2>3. QED
    BY <2>2 DEF IsTotalOrder
<1>4. f \in Injection(S, T)
  <2>1. f \in [S -> T]
    BY <1>1
  <2>2. \A x, y \in S : f[x] = f[y] => x = y
    <3> SUFFICES ASSUME NEW x \in S, NEW y \in S, x # y
                 PROVE  RankIn(R, S, x) # RankIn(R, S, y)
      OBVIOUS
    <3>1. RankIn(R, S, x) \in Nat /\ RankIn(R, S, y) \in Nat
      BY <1>1
    <3>2. <<x, y>> \in R \/ <<y, x>> \in R
      BY DEF IsTotalOrder
    <3>3. QED
      BY <1>2, <3>1, <3>2
  <2>3. QED
    BY <2>1, <2>2, Fun_IsInj
<1>5. IsFiniteSet(T) /\ Cardinality(T) = Cardinality(S)
  BY FS_Interval, FS_CardinalityType
<1>6. f \in Surjection(S, T)
  BY <1>4, <1>5, FS_Injection
<1>7. \A j \in T : \E x \in S : RankIn(R, S, x) = j
  BY <1>6 DEF Surjection
<1>8. QED
  BY <1>1, <1>2, <1>3, <1>7

NumberUpTo(S, m) == Cardinality({n \in S : n <= m})

\* The same of numbers, and the greatest of them.
LEMMA CountingUp ==
    ASSUME NEW S, S \subseteq Nat, IsFiniteSet(S)
    PROVE  /\ \A j \in 1..Cardinality(S) : \E m \in S : NumberUpTo(S, m) = j
           /\ \A m \in S : NumberUpTo(S, m) \in 1..Cardinality(S)
           /\ \A l, m \in S : l < m <=> NumberUpTo(S, l) < NumberUpTo(S, m)
           /\ S # {} => \E m \in S : \A n \in S : n <= m
<1>1. PICK R : \A x, y \in S : <<x, y>> \in R <=> x < y
  <2>1. \A x, y \in S : <<x, y>> \in {p \in S \X S : p[1] < p[2]} <=> x < y
    OBVIOUS
  <2>2. QED
    BY <2>1
<1>2. IsTotalOrder(R, S)
  BY <1>1 DEF IsTotalOrder
<1>3. \A m \in S : RankIn(R, S, m) = NumberUpTo(S, m)
  <2> SUFFICES ASSUME NEW m \in S
               PROVE  {y \in S : y = m \/ <<y, m>> \in R} = {n \in S : n <= m}
    BY DEF RankIn, NumberUpTo
  <2>1. \A n \in S : n <= m <=> n = m \/ <<n, m>> \in R
    BY <1>1
  <2>2. QED
    BY <2>1
<1>4. \A j \in 1..Cardinality(S) : \E m \in S : RankIn(R, S, m) = j
  BY ONLY <1>2, IsFiniteSet(S), RankReaches
<1>5. ASSUME S # {}
      PROVE  \E m \in S : \A n \in S : n <= m
  <2>1. Cardinality(S) \in Nat \ {0}
    BY <1>5, FS_CardinalityType, FS_EmptySet
  <2>2. PICK m \in S : RankIn(R, S, m) = Cardinality(S)
    BY <1>4, <2>1
  <2>3. \A n \in S : RankIn(R, S, n) <= Cardinality(S) /\ RankIn(R, S, n) \in Nat
    BY <1>2, <2>1, RankReaches
  <2>4. \A n \in S : ~(m < n)
    <3>1. \A n \in S : <<m, n>> \in R <=> RankIn(R, S, m) < RankIn(R, S, n)
      BY ONLY <1>2, IsFiniteSet(S), m \in S, RankReaches
    <3>2. \A n \in S : ~(RankIn(R, S, m) < RankIn(R, S, n))
      BY <2>1, <2>2, <2>3
    <3>3. QED
      BY <1>1, <3>1, <3>2
  <2>5. QED
    BY <2>4
<1>6. /\ \A m \in S : RankIn(R, S, m) \in 1..Cardinality(S)
      /\ \A l, m \in S : <<l, m>> \in R <=> RankIn(R, S, l) < RankIn(R, S, m)
  BY ONLY <1>2, IsFiniteSet(S), RankReaches
<1>7. \A l, m \in S : l < m <=> RankIn(R, S, l) < RankIn(R, S, m)
  BY <1>1, <1>6
<1>8. QED
  BY <1>3, <1>4, <1>5, <1>6, <1>7

---------------------------------------------------------------------------
(* Sequences.                                                              *)

\* A sequence without repetition has as many elements at some positions as
\* there are positions.
LEMMA ElementsAt ==
    ASSUME NEW S, NEW s \in Seq(S), IsInjective(s), NEW P \in SUBSET DOMAIN s
    PROVE  /\ IsFiniteSet(P) /\ IsFiniteSet({s[m] : m \in P})
           /\ Cardinality({s[m] : m \in P}) = Cardinality(P)
<1> DEFINE T == {s[m] : m \in P}
           f == [m \in P |-> s[m]]
<1>1. DOMAIN s = 1..Len(s) /\ Len(s) \in Nat
  BY LenProperties
<1>2. IsFiniteSet(P)
  <2>1. IsFiniteSet(1..Len(s))
    BY <1>1, FS_Interval
  <2>2. QED
    BY <1>1, <2>1, FS_Subset
<1>3. \A x, y \in P : f[x] = f[y] => x = y
  BY DEF IsInjective
<1>4. f \in [P -> T] /\ \A t \in T : \E m \in P : f[m] = t
  OBVIOUS
<1> HIDE DEF T, f
<1>5. f \in Bijection(P, T)
  BY <1>3, <1>4, Fun_IsBij, Fun_IsSurj
<1>6. QED
  BY <1>2, <1>5, FS_Bijection DEF ExistsBijection, T

\* A finite set in order: each element once, the one ahead first.
LEMMA SortedProperties ==
    ASSUME NEW S, IsFiniteSet(S), NEW R, IsTotalOrder(R, S)
    PROVE  /\ Sorted(R, S) \in Seq(S) /\ Len(Sorted(R, S)) = Cardinality(S)
           /\ IsInjective(Sorted(R, S)) /\ ToSet(Sorted(R, S)) = S
           /\ \A j, k \in DOMAIN Sorted(R, S) :
                j < k => <<Sorted(R, S)[j], Sorted(R, S)[k]>> \in R
<1> DEFINE n == Cardinality(S)
           At(j) == CHOOSE x \in S : RankIn(R, S, x) = j
<1>1. n \in Nat
  BY FS_CardinalityType
<1>2. \A j \in 1..n : At(j) \in S /\ RankIn(R, S, At(j)) = j
  BY RankReaches
<1>3. Sorted(R, S) = [j \in 1..n |-> At(j)]
  BY DEF Sorted
<1> HIDE DEF n, At
<1>4. Sorted(R, S) \in Seq(S) /\ Len(Sorted(R, S)) = n /\ DOMAIN Sorted(R, S) = 1..n
  BY <1>1, <1>2, <1>3
<1>5. \A j, k \in 1..n : At(j) = At(k) => j = k
  BY <1>2
<1>6. IsInjective(Sorted(R, S))
  BY <1>3, <1>4, <1>5 DEF IsInjective
<1>7. \A x \in S : x = At(RankIn(R, S, x)) /\ RankIn(R, S, x) \in 1..n
  <2> SUFFICES ASSUME NEW x \in S
               PROVE  x = At(RankIn(R, S, x)) /\ RankIn(R, S, x) \in 1..n
    OBVIOUS
  <2>1. RankIn(R, S, x) \in 1..n
    BY ONLY IsFiniteSet(S), IsTotalOrder(R, S), x \in S, RankReaches DEF n
  <2>2. At(RankIn(R, S, x)) \in S /\ RankIn(R, S, At(RankIn(R, S, x))) = RankIn(R, S, x)
    BY <1>2, <2>1
  <2>3. \A y, z \in S : <<y, z>> \in R <=> RankIn(R, S, y) < RankIn(R, S, z)
    BY ONLY IsFiniteSet(S), IsTotalOrder(R, S), RankReaches
  <2>4. <<x, At(RankIn(R, S, x))>> \notin R /\ <<At(RankIn(R, S, x)), x>> \notin R
    BY <2>1, <2>2, <2>3
  <2>5. QED
    BY <2>1, <2>2, <2>4 DEF IsTotalOrder
<1>8. ToSet(Sorted(R, S)) = S
  BY <1>2, <1>3, <1>4, <1>7 DEF ToSet
<1>9. \A j, k \in 1..n : j < k => <<At(j), At(k)>> \in R
  <2> SUFFICES ASSUME NEW j \in 1..n, NEW k \in 1..n, j < k PROVE <<At(j), At(k)>> \in R
    OBVIOUS
  <2>1. At(j) \in S /\ At(k) \in S /\ RankIn(R, S, At(j)) < RankIn(R, S, At(k))
    BY <1>2
  <2>2. QED
    BY ONLY <2>1, RankReaches, IsFiniteSet(S), IsTotalOrder(R, S)
<1>10. QED
  BY <1>3, <1>4, <1>6, <1>8, <1>9 DEF n

\* The positions of a set come in order, and each of them comes.
LEMMA PlaceProperties ==
    ASSUME NEW E, E \subseteq Nat, IsFiniteSet(E)
    PROVE  /\ Cardinality(E) \in Nat
           /\ \A j \in 1..Cardinality(E) : Place(E, j) \in E
           /\ \A i, j \in 1..Cardinality(E) : i < j => Place(E, i) < Place(E, j)
           /\ \A m \in E : \E j \in 1..Cardinality(E) : Place(E, j) = m
<1> DEFINE n == Cardinality(E)
           Upto(m) == NumberUpTo(E, m)
<1>1. n \in Nat
  BY FS_CardinalityType
<1>2. /\ \A j \in 1..n : \E m \in E : Upto(m) = j
      /\ \A m \in E : Upto(m) \in 1..n
      /\ \A l, m \in E : l < m <=> Upto(l) < Upto(m)
  <2>1. E \subseteq Nat /\ IsFiniteSet(E)
    OBVIOUS
  <2>2. QED
    BY ONLY <2>1, CountingUp DEF n, Upto
<1>3. \A j \in 1..n : Place(E, j) = CHOOSE m \in E : Upto(m) = j
  BY DEF Place, NumberUpTo
<1> HIDE DEF n, Upto
<1>4. \A j \in 1..n : Place(E, j) \in E /\ Upto(Place(E, j)) = j
  BY <1>2, <1>3
<1>5. \A i, j \in 1..n : i < j => Place(E, i) < Place(E, j)
  BY <1>2, <1>4
<1>6. \A m \in E : Place(E, Upto(m)) = m
  <2> SUFFICES ASSUME NEW m \in E PROVE Place(E, Upto(m)) = m
    OBVIOUS
  <2>1. /\ Place(E, Upto(m)) \in E /\ Upto(Place(E, Upto(m))) = Upto(m)
        /\ Upto(m) \in 1..n /\ Upto(m) \in Nat
    BY <1>1, <1>2, <1>4
  <2>2. ~(Place(E, Upto(m)) < m) /\ ~(m < Place(E, Upto(m)))
    <3> DEFINE p == Place(E, Upto(m))
    <3>1. p \in E /\ Upto(p) = Upto(m) /\ Upto(m) \in Nat
      BY <2>1
    <3> HIDE DEF p
    <3>2. ~(p < m) /\ ~(m < p)
      BY <1>2, <3>1
    <3>3. QED
      BY <3>2 DEF p
  <2>3. m \in Nat /\ Place(E, Upto(m)) \in Nat
    BY <2>1
  <2>4. QED
    BY <2>2, <2>3
<1>7. QED
  BY <1>1, <1>2, <1>4, <1>5, <1>6 DEF n

\* A filtered sequence: as many elements as positions, in their order.
LEMMA KeptProperties ==
    ASSUME NEW T, NEW s \in Seq(T), NEW E, E \subseteq DOMAIN s
    PROVE  /\ IsFiniteSet(E) /\ Cardinality(E) \in Nat /\ Cardinality(E) <= Len(s)
           /\ Kept(s, E) \in Seq(T) /\ Len(Kept(s, E)) = Cardinality(E)
           /\ \A j \in 1..Cardinality(E) : Kept(s, E)[j] = s[Place(E, j)] /\ Place(E, j) \in E
           /\ \A i, j \in 1..Cardinality(E) : i < j => Place(E, i) < Place(E, j)
           /\ \A m \in E : \E j \in 1..Cardinality(E) : Place(E, j) = m
<1>1. DOMAIN s = 1..Len(s) /\ Len(s) \in Nat /\ \A m \in DOMAIN s : s[m] \in T
  BY LenProperties, ElementOfSeq
<1>2. /\ IsFiniteSet(E) /\ Cardinality(E) <= Len(s) /\ E \subseteq Nat
  <2>1. IsFiniteSet(1..Len(s)) /\ Cardinality(1..Len(s)) = Len(s)
    <3>1. Len(s) \in Int /\ 1 \in Int
      BY <1>1
    <3>2. /\ IsFiniteSet(1..Len(s))
          /\ Cardinality(1..Len(s)) = IF 1 > Len(s) THEN 0 ELSE Len(s) - 1 + 1
      BY ONLY <3>1, FS_Interval
    <3>3. QED
      BY <1>1, <3>2
  <2>2. QED
    BY <1>1, <2>1, FS_Subset
<1>3. /\ Cardinality(E) \in Nat
      /\ \A j \in 1..Cardinality(E) : Place(E, j) \in E
      /\ \A i, j \in 1..Cardinality(E) : i < j => Place(E, i) < Place(E, j)
      /\ \A m \in E : \E j \in 1..Cardinality(E) : Place(E, j) = m
  BY <1>2, PlaceProperties
<1>4. \A j \in 1..Cardinality(E) : s[Place(E, j)] \in T
  BY <1>1, <1>3
<1>5. /\ Kept(s, E) \in Seq(T) /\ Len(Kept(s, E)) = Cardinality(E)
      /\ \A j \in 1..Cardinality(E) : Kept(s, E)[j] = s[Place(E, j)]
  BY <1>3, <1>4 DEF Kept
<1>6. QED
  BY <1>2, <1>3, <1>5

LEMMA FirstProperties ==
    ASSUME NEW T, NEW s \in Seq(T), NEW n \in Nat
    PROVE  /\ First(s, n) \in Seq(T) /\ Len(First(s, n)) = Least(n, Len(s))
           /\ Least(n, Len(s)) \in Nat /\ Least(n, Len(s)) <= n /\ Least(n, Len(s)) <= Len(s)
           /\ \A j \in 1..Least(n, Len(s)) : First(s, n)[j] = s[j]
<1> DEFINE l == Least(n, Len(s))
<1>1. Len(s) \in Nat /\ \A m \in 1..Len(s) : s[m] \in T
  BY LenProperties, ElementOfSeq
<1>2. l \in Nat /\ l <= n /\ l <= Len(s)
  BY <1>1 DEF Least
<1> HIDE DEF l
<1>3. \A m \in 1..l : s[m] \in T
  BY <1>1, <1>2
<1>4. /\ SubSeq(s, 1, l) \in Seq(T) /\ Len(SubSeq(s, 1, l)) = l
      /\ \A m \in 1..l : SubSeq(s, 1, l)[m] = s[m]
  BY <1>1, <1>2, <1>3, SubSeqProperties
<1>5. QED
  BY <1>2, <1>4 DEF First, l

LEMMA RemoveAtProperties ==
    ASSUME NEW S, NEW s \in Seq(S), NEW p \in 1..Len(s)
    PROVE  /\ RemoveAt(s, p) \in Seq(S) /\ Len(RemoveAt(s, p)) = Len(s) - 1
           /\ \A m \in 1..(Len(s) - 1) :
                RemoveAt(s, p)[m] = IF m < p THEN s[m] ELSE s[m + 1]
<1> DEFINE u == SubSeq(s, 1, p - 1)
           v == SubSeq(s, p + 1, Len(s))
<1>1. Len(s) \in Nat /\ \A m \in 1..Len(s) : s[m] \in S
  BY LenProperties, ElementOfSeq
<1>2. \A m \in 1..(p - 1) : s[m] \in S
  BY <1>1
<1>3. \A m \in (p + 1)..Len(s) : s[m] \in S
  BY <1>1
<1>4. /\ u \in Seq(S) /\ Len(u) = p - 1
      /\ \A m \in 1..(p - 1) : u[m] = s[m]
  BY <1>1, <1>2, SubSeqProperties
<1>5. /\ v \in Seq(S) /\ Len(v) = Len(s) - p
      /\ \A m \in 1..(Len(s) - p) : v[m] = s[p + m]
  BY <1>1, <1>3, SubSeqProperties
<1> HIDE DEF u, v
<1>6. /\ u \o v \in Seq(S) /\ Len(u \o v) = Len(s) - 1
      /\ \A m \in 1..(Len(s) - 1) : (u \o v)[m] = IF m < p THEN u[m] ELSE v[m - (p - 1)]
  <2>1. /\ u \o v \in Seq(S) /\ Len(u \o v) = Len(u) + Len(v)
        /\ \A m \in 1..(Len(u) + Len(v)) :
             (u \o v)[m] = IF m <= Len(u) THEN u[m] ELSE v[m - Len(u)]
    BY <1>4, <1>5, ConcatProperties
  <2>2. Len(u) + Len(v) = Len(s) - 1
    BY <1>1, <1>4, <1>5
  <2>3. \A m \in 1..(Len(s) - 1) : m <= Len(u) <=> m < p
    BY <1>1, <1>4
  <2>4. QED
    BY <1>4, <2>1, <2>2, <2>3
<1>7. \A m \in 1..(Len(s) - 1) : (u \o v)[m] = IF m < p THEN s[m] ELSE s[m + 1]
  BY <1>1, <1>4, <1>5, <1>6
<1>8. QED
  BY <1>6, <1>7 DEF RemoveAt, u, v

LEMMA InsertAtProperties ==
    ASSUME NEW S, NEW s \in Seq(S), NEW p \in 1..(Len(s) + 1), NEW e \in S
    PROVE  /\ InsertAt(s, p, e) \in Seq(S) /\ Len(InsertAt(s, p, e)) = Len(s) + 1
           /\ \A m \in 1..(Len(s) + 1) :
                InsertAt(s, p, e)[m] = IF m < p THEN s[m] ELSE IF m = p THEN e ELSE s[m - 1]
<1> DEFINE u == SubSeq(s, 1, p - 1)
           v == SubSeq(s, p, Len(s))
           w == u \o <<e>>
<1>1. Len(s) \in Nat /\ \A m \in 1..Len(s) : s[m] \in S
  BY LenProperties, ElementOfSeq
<1>2. \A m \in 1..(p - 1) : s[m] \in S
  BY <1>1
<1>3. \A m \in p..Len(s) : s[m] \in S
  BY <1>1
<1>4. /\ u \in Seq(S) /\ Len(u) = p - 1
      /\ \A m \in 1..(p - 1) : u[m] = s[m]
  BY <1>1, <1>2, SubSeqProperties
<1>5. /\ v \in Seq(S) /\ Len(v) = Len(s) - p + 1
      /\ \A m \in 1..(Len(s) - p + 1) : v[m] = s[p + m - 1]
  BY <1>1, <1>3, SubSeqProperties
<1>6. <<e>> \in Seq(S) /\ Len(<<e>>) = 1 /\ <<e>>[1] = e
  OBVIOUS
<1> HIDE DEF u, v
<1>7. /\ w \in Seq(S) /\ Len(w) = p
      /\ \A m \in 1..p : w[m] = IF m < p THEN s[m] ELSE e
  BY <1>4, <1>6, ConcatProperties
<1> HIDE DEF w
<1>8. /\ w \o v \in Seq(S) /\ Len(w \o v) = Len(s) + 1
      /\ \A m \in 1..(Len(s) + 1) : (w \o v)[m] = IF m <= p THEN w[m] ELSE v[m - p]
  <2>1. /\ w \o v \in Seq(S) /\ Len(w \o v) = Len(w) + Len(v)
        /\ \A m \in 1..(Len(w) + Len(v)) :
             (w \o v)[m] = IF m <= Len(w) THEN w[m] ELSE v[m - Len(w)]
    BY <1>5, <1>7, ConcatProperties
  <2>2. Len(w) + Len(v) = Len(s) + 1
    BY <1>1, <1>5, <1>7
  <2>3. QED
    BY <1>7, <2>1, <2>2
<1>9. \A m \in 1..(Len(s) + 1) :
        (w \o v)[m] = IF m < p THEN s[m] ELSE IF m = p THEN e ELSE s[m - 1]
  BY <1>1, <1>5, <1>7, <1>8
<1>10. QED
  BY <1>8, <1>9 DEF InsertAt, u, v, w

---------------------------------------------------------------------------
(* The fusion of two lists.                                                *)

Positive == Nat \ {0}
Fractions == Positive \X Positive

LEMMA TimesMonotone ==
    ASSUME NEW a \in Nat, NEW b \in Nat, NEW c \in Positive
    PROVE  /\ a * c \in Nat /\ c * a \in Nat /\ a * c = c * a
           /\ a < b => a * c < b * c
           /\ a <= b => a * c <= b * c
           /\ a * c < b * c => a < b
<1>1. c \in Nat /\ c > 0
  BY DEF Positive
<1>2. a < b => a * c < b * c
  BY <1>1
<1>3. a <= b => a * c <= b * c
  BY <1>1
<1>4. a * c < b * c => a < b
  BY <1>1
<1>5. QED
  BY <1>1, <1>2, <1>3, <1>4

\* A score above one that is not above the other is above that one too.
LEMMA HigherOrders ==
    ASSUME NEW s \in Fractions, NEW t \in Fractions, NEW u \in Fractions
    PROVE  /\ ~Higher(s, s)
           /\ Higher(s, t) => ~Higher(t, s)
           /\ Higher(s, t) /\ ~Higher(u, t) => Higher(s, u)
<1>1. PICK s1 \in Positive, s2 \in Positive : s = <<s1, s2>>
  BY DEF Fractions
<1>2. PICK t1 \in Positive, t2 \in Positive : t = <<t1, t2>>
  BY DEF Fractions
<1>3. PICK u1 \in Positive, u2 \in Positive : u = <<u1, u2>>
  BY DEF Fractions
<1>4. /\ s1 \in Nat /\ s2 \in Nat /\ t1 \in Nat /\ t2 \in Nat /\ u1 \in Nat /\ u2 \in Nat
      /\ s1 * t2 \in Nat /\ t1 * s2 \in Nat /\ u1 * t2 \in Nat /\ t1 * u2 \in Nat
      /\ s1 * u2 \in Nat /\ u1 * s2 \in Nat /\ s1 * s2 \in Nat
  BY TimesMonotone DEF Positive
<1>5. /\ Higher(s, t) <=> s1 * t2 > t1 * s2
      /\ Higher(t, s) <=> t1 * s2 > s1 * t2
      /\ Higher(u, t) <=> u1 * t2 > t1 * u2
      /\ Higher(s, u) <=> s1 * u2 > u1 * s2
      /\ Higher(s, s) <=> s1 * s2 > s1 * s2
  BY <1>1, <1>2, <1>3 DEF Higher
<1>6. ASSUME s1 * t2 > t1 * s2, u1 * t2 <= t1 * u2
      PROVE  s1 * u2 > u1 * s2
  <2>1. (t1 * s2) * u2 < (s1 * t2) * u2
    BY <1>4, <1>6, TimesMonotone
  <2>2. (u1 * t2) * s2 <= (t1 * u2) * s2
    BY <1>4, <1>6, TimesMonotone
  <2>3. (t1 * s2) * u2 = (t1 * u2) * s2
    BY <1>4
  <2>4. (s1 * t2) * u2 = (s1 * u2) * t2 /\ (u1 * t2) * s2 = (u1 * s2) * t2
    BY <1>4
  <2>5. (u1 * s2) * t2 < (s1 * u2) * t2
    <3> DEFINE a == (u1 * s2) * t2
               b == (s1 * u2) * t2
               c == (t1 * s2) * u2
    <3>1. c < b /\ a <= c
      BY <2>1, <2>2, <2>3, <2>4
    <3>2. a \in Nat /\ b \in Nat /\ c \in Nat
      BY <1>4, TimesMonotone
    <3> HIDE DEF a, b, c
    <3>3. a < b
      BY <3>1, <3>2
    <3>4. QED
      BY <3>3 DEF a, b
  <2>6. QED
    BY <1>4, <2>5, TimesMonotone
<1>7. QED
  <2>1. /\ s1 * t2 > t1 * s2 => ~(t1 * s2 > s1 * t2)
        /\ ~(u1 * t2 > t1 * u2) => u1 * t2 <= t1 * u2
        /\ ~(s1 * s2 > s1 * s2)
    <3> DEFINE a == s1 * t2
               b == t1 * s2
               c == u1 * t2
               d == t1 * u2
               e == s1 * s2
    <3>1. a \in Nat /\ b \in Nat /\ c \in Nat /\ d \in Nat /\ e \in Nat
      BY <1>4
    <3> HIDE DEF a, b, c, d, e
    <3>2. (a > b => ~(b > a)) /\ (~(c > d) => c <= d) /\ ~(e > e)
      BY <3>1
    <3>3. QED
      BY <3>2 DEF a, b, c, d, e
  <2>2. QED
    BY <1>5, <1>6, <2>1

IsList(s) == s \in Seq(Nat) /\ IsInjective(s)

\* What both lists have is above what one of them has.
LEMMA ScoreProperties ==
    ASSUME NEW a, IsList(a), NEW b, IsList(b)
    PROVE  /\ \A x \in ToSet(a) \cup ToSet(b) : Score(a, b, x) \in Fractions
           /\ Len(a) <= 50 /\ Len(b) <= 50 =>
                \A x \in ToSet(a) \cap ToSet(b), y \in ToSet(a) \cup ToSet(b) :
                  y \notin ToSet(a) \cap ToSet(b) => Higher(Score(a, b, x), Score(a, b, y))
<1>1. \A s : IsList(s) => \A x \in ToSet(s) :
        /\ Divisor(s, x) \in Nat /\ Divisor(s, x) >= 61
        /\ Len(s) <= 50 => Divisor(s, x) <= 110
  <2> SUFFICES ASSUME NEW s, IsList(s), NEW x \in ToSet(s)
               PROVE  /\ Divisor(s, x) \in Nat /\ Divisor(s, x) >= 61
                      /\ Len(s) <= 50 => Divisor(s, x) <= 110
    OBVIOUS
  <2> DEFINE m == CHOOSE k \in DOMAIN s : s[k] = x
  <2>1. DOMAIN s = 1..Len(s) /\ Len(s) \in Nat
    BY LenProperties DEF IsList
  <2>2. m \in DOMAIN s
    BY DEF ToSet
  <2>3. Divisor(s, x) = 60 + m
    BY DEF Divisor, RRF_K
  <2> HIDE DEF m
  <2>4. QED
    BY <2>1, <2>2, <2>3
<1> DEFINE A == ToSet(a)
           B == ToSet(b)
<1>2. \A x \in A \cap B : Score(a, b, x) =
        <<Divisor(a, x) + Divisor(b, x), Divisor(a, x) * Divisor(b, x)>>
  BY DEF Score
<1>3. \A x \in A \ B : Score(a, b, x) = <<1, Divisor(a, x)>>
  BY DEF Score
<1>4. \A x \in B \ A : Score(a, b, x) = <<1, Divisor(b, x)>>
  BY DEF Score
<1> HIDE DEF A, B
<1>5. \A x \in A : Divisor(a, x) \in Positive
  BY <1>1 DEF A, Positive
<1>6. \A x \in B : Divisor(b, x) \in Positive
  BY <1>1 DEF B, Positive
<1>7. \A x \in A \cap B : Score(a, b, x) \in Fractions
  <2> SUFFICES ASSUME NEW x \in A \cap B PROVE Score(a, b, x) \in Fractions
    OBVIOUS
  <2>1. Divisor(a, x) \in Positive /\ Divisor(b, x) \in Positive
    BY <1>5, <1>6
  <2>2. \A m, n \in Positive : m + n \in Positive /\ m * n \in Positive
    BY DEF Positive
  <2>3. QED
    BY <1>2, <2>1, <2>2 DEF Fractions
<1>8. \A x \in (A \cup B) \ (A \cap B) :
        \E d \in Positive : Score(a, b, x) = <<1, d>> /\ d >= 61
  <2>1. \A x \in A \ B : Divisor(a, x) \in Positive /\ Divisor(a, x) >= 61
    BY <1>1, <1>5 DEF A
  <2>2. \A x \in B \ A : Divisor(b, x) \in Positive /\ Divisor(b, x) >= 61
    BY <1>1, <1>6 DEF B
  <2>3. QED
    BY <1>3, <1>4, <2>1, <2>2
<1>9. \A x \in A \cup B : Score(a, b, x) \in Fractions
  <2>1. 1 \in Positive
    BY DEF Positive
  <2>2. QED
    BY <1>7, <1>8, <2>1 DEF Fractions
<1>10. ASSUME Len(a) <= 50, Len(b) <= 50,
              NEW x \in A \cap B, NEW y \in (A \cup B) \ (A \cap B)
       PROVE  Higher(Score(a, b, x), Score(a, b, y))
  <2>1. PICK d \in Positive : Score(a, b, y) = <<1, d>> /\ d >= 61
    BY <1>8
  <2> DEFINE m == Divisor(a, x)
             n == Divisor(b, x)
  <2>2. m \in Nat /\ n \in Nat /\ m >= 61 /\ n >= 61 /\ m <= 110 /\ n <= 110
    BY <1>1, <1>10 DEF A, B
  <2>3. Score(a, b, x) = <<m + n, m * n>>
    BY <1>2
  <2> HIDE DEF m, n
  <2>4. m * n \in Nat
    BY <2>2
  <2>5. m * n < (m + n) * 61
    <3>1. (m - 61) * (n - 61) \in Nat /\ (m - 61) * (n - 61) <= 49 * 49
      <4>1. \A v, w \in 0..49 : v * w \in Nat /\ v * w <= v * 49 /\ v * 49 <= 49 * 49
        OBVIOUS
      <4>2. m - 61 \in 0..49 /\ n - 61 \in 0..49
        BY <2>2
      <4>3. QED
        BY <4>1, <4>2
    <3>2. (m - 61) * (n - 61) = m * n - 61 * m - 61 * n + 61 * 61
      BY <2>2
    <3>3. QED
      BY <2>2, <2>4, <3>1, <3>2
  <2>6. (m + n) * 61 <= (m + n) * d
    <3>1. d \in Nat /\ m + n \in Positive
      BY <2>2 DEF Positive
    <3>2. 61 * (m + n) <= d * (m + n) /\ 61 * (m + n) = (m + n) * 61 /\ d * (m + n) = (m + n) * d
      BY ONLY <3>1, <2>1, TimesMonotone
    <3>3. QED
      BY <3>2
  <2>7. (m + n) * d > 1 * (m * n)
    BY <2>1, <2>2, <2>4, <2>5, <2>6 DEF Positive
  <2>8. QED
    BY <2>1, <2>3, <2>7 DEF Higher
<1>11. QED
  BY <1>9, <1>10 DEF A, B

LEMMA AheadIsTotal ==
    ASSUME NEW a, IsList(a), NEW b, IsList(b)
    PROVE  LET ids == ToSet(a) \cup ToSet(b)
           IN IsTotalOrder({p \in ids \X ids : Ahead(a, b, p[1], p[2])}, ids)
<1> DEFINE ids == ToSet(a) \cup ToSet(b)
           R == {p \in ids \X ids : Ahead(a, b, p[1], p[2])}
<1>1. \A x, y \in ids : <<x, y>> \in R <=> Ahead(a, b, x, y)
  OBVIOUS
<1>2. ids \subseteq Nat
  <2>1. \A s : IsList(s) => ToSet(s) \subseteq Nat
    BY LenProperties, ElementOfSeq DEF IsList, ToSet
  <2>2. QED
    BY <2>1
<1>3. \A x \in ids : Score(a, b, x) \in Fractions
  BY ScoreProperties
<1> HIDE DEF ids, R
<1>4. \A x, y \in ids : x = y \/ Ahead(a, b, x, y) \/ Ahead(a, b, y, x)
  <2> SUFFICES ASSUME NEW x \in ids, NEW y \in ids, x < y
               PROVE  Ahead(a, b, x, y) \/ Ahead(a, b, y, x)
    BY <1>2
  <2>1. QED
    BY DEF Ahead
<1>5. \A x \in ids : ~Ahead(a, b, x, x)
  <2> SUFFICES ASSUME NEW x \in ids PROVE ~Ahead(a, b, x, x)
    OBVIOUS
  <2>1. ~Higher(Score(a, b, x), Score(a, b, x))
    BY <1>3, HigherOrders
  <2>2. ~(x < x)
    BY <1>2
  <2>3. QED
    BY <2>1, <2>2 DEF Ahead
<1>6. \A x, y, z \in ids : Ahead(a, b, x, y) /\ Ahead(a, b, y, z) => Ahead(a, b, x, z)
  <2> SUFFICES ASSUME NEW x \in ids, NEW y \in ids, NEW z \in ids,
                      Ahead(a, b, x, y), Ahead(a, b, y, z)
               PROVE  Ahead(a, b, x, z)
    OBVIOUS
  <2> DEFINE s == Score(a, b, x)
             t == Score(a, b, y)
             u == Score(a, b, z)
  <2>1. s \in Fractions /\ t \in Fractions /\ u \in Fractions
    BY <1>3
  <2>2. x < y /\ y < z => x < z
    BY <1>2
  <2>3. /\ Higher(s, t) \/ (~Higher(t, s) /\ x < y)
        /\ Higher(t, u) \/ (~Higher(u, t) /\ y < z)
    BY DEF Ahead
  <2> HIDE DEF s, t, u
  <2>4. /\ Higher(s, t) => ~Higher(t, s)
        /\ Higher(t, u) => ~Higher(u, t)
        /\ Higher(s, t) /\ ~Higher(u, t) => Higher(s, u)
        /\ Higher(t, u) /\ ~Higher(s, u) => Higher(t, s)
        /\ Higher(u, s) /\ ~Higher(t, s) => Higher(u, t)
    BY <2>1, HigherOrders
  <2>5. Higher(s, u) \/ (~Higher(u, s) /\ x < z)
    BY <2>2, <2>3, <2>4
  <2>6. QED
    BY <2>5 DEF Ahead, s, u
<1>7. IsTotalOrder(R, ids)
  BY <1>1, <1>4, <1>5, <1>6 DEF IsTotalOrder
<1>8. QED
  BY <1>7 DEF R, ids

LEMMA FuseProperties ==
    ASSUME NEW a, IsList(a), NEW b, IsList(b)
    PROVE  /\ IsList(Fuse(a, b)) /\ ToSet(Fuse(a, b)) = ToSet(a) \cup ToSet(b)
           /\ \A j, k \in DOMAIN Fuse(a, b) :
                j < k => Ahead(a, b, Fuse(a, b)[j], Fuse(a, b)[k])
<1> DEFINE ids == ToSet(a) \cup ToSet(b)
           R == {p \in ids \X ids : Ahead(a, b, p[1], p[2])}
<1>1. IsFiniteSet(ids) /\ ids \subseteq Nat
  <2>1. ASSUME NEW s, IsList(s) PROVE IsFiniteSet(ToSet(s)) /\ ToSet(s) \subseteq Nat
    <3>1. {s[m] : m \in DOMAIN s} = ToSet(s)
      BY DEF ToSet
    <3>2. IsFiniteSet({s[m] : m \in DOMAIN s})
      BY <2>1, ElementsAt DEF IsList
    <3>3. ToSet(s) \subseteq Nat
      BY <2>1, LenProperties, ElementOfSeq DEF IsList, ToSet
    <3>4. QED
      BY <3>1, <3>2, <3>3
  <2>2. QED
    BY <2>1, FS_Union
<1>2. IsTotalOrder(R, ids)
  BY AheadIsTotal
<1>3. Fuse(a, b) = Sorted(R, ids)
  BY DEF Fuse
<1>4. \A x, y : <<x, y>> \in R => Ahead(a, b, x, y)
  OBVIOUS
<1> HIDE DEF ids, R
<1>5. /\ Fuse(a, b) \in Seq(ids) /\ IsInjective(Fuse(a, b)) /\ ToSet(Fuse(a, b)) = ids
      /\ \A j, k \in DOMAIN Fuse(a, b) : j < k => <<Fuse(a, b)[j], Fuse(a, b)[k]>> \in R
  BY <1>1, <1>2, <1>3, SortedProperties
<1>6. Fuse(a, b) \in Seq(Nat)
  BY <1>1, <1>5, SeqMonotonic
<1>7. QED
  BY <1>4, <1>5, <1>6 DEF IsList, ids

---------------------------------------------------------------------------
(* A request.                                                              *)

Stages == {"idle", "source", "rank", "hydrate", "lane", "done", "blank", "failed"}
Answers == [id : 1..MaxId, path : Paths]

RequestTyped ==
    /\ row \in [Paths -> 0..MaxId] /\ changes \in Nat
    /\ \A p, q \in Paths : row[p] = row[q] => p = q \/ row[p] = 0
    /\ request \in Requests
    /\ pc \in Stages
    /\ waiting \subseteq Rankers
    /\ found \in [Rankers -> Seq(1..MaxId)]
    /\ hits \in Seq(Answers)

PoolHoldsAll == changes = 0 /\ Cardinality(Indexed) <= PoolSize

\* No list has an id twice.  While nothing is committed the lists are of rows,
\* and of all the rows if the pool holds them.
ListsInv ==
    /\ \A r \in Rankers : IsInjective(found[r]) /\ Len(found[r]) <= 50
    /\ changes = 0 => \A r \in Rankers : ToSet(found[r]) \subseteq Scanned(r)
    /\ PoolHoldsAll /\ pc \in {"rank", "hydrate", "lane"} =>
         \A r \in Asked(request.mode) \ waiting :
           r # "fts" => ToSet(found[r]) = Scanned(r)
    /\ pc \in {"hydrate", "lane"} => waiting = {}

\* While nothing is committed the hits are of rows of the corpus.
HitsInv ==
    /\ pc = "source" => request.mode = "similar"
    /\ pc = "lane" => request.mode = "lane"
    /\ pc \notin {"lane", "done"} => hits = <<>>
    /\ \A k \in DOMAIN hits :
         /\ request.mode = "similar" => hits[k].path # request.source
         /\ changes = 0 => hits[k].path \in Corpus /\ hits[k].id = row[hits[k].path]

PageInv ==
    /\ Len(hits) <= request.limit
    /\ /\ PoolHoldsAll /\ pc \in {"lane", "done"}
       /\ request.mode = "similar" => row[request.source] # 0
       => Len(hits) = Least(request.limit, Cardinality(Corpus))

RequestInv ==
    RequestTyped /\ ListsInv /\ HitsInv /\ HitsAreDistinct /\ PageInv /\ FoundByBothFirst

LEMMA FilesCounted ==
    /\ IsFiniteSet(Paths)
    /\ \A P \in SUBSET Paths : IsFiniteSet(P) /\ Cardinality(P) \in Nat
<1>1. IsFiniteSet(Paths)
  BY SearchAssumption, FS_Union DEF Paths
<1>2. QED
  BY <1>1, FS_Subset, FS_CardinalityType

\* A row is one file's.
LEMMA RowsOfFiles ==
    ASSUME RequestTyped
    PROVE  /\ \A p \in Indexed : row[p] \in 1..MaxId /\ OwnerOf(row[p]) = {p}
           /\ \A id : Owned(id) => /\ id \in 1..MaxId /\ Hit(id) \in Answers
                                  /\ Hit(id).id = id /\ row[Hit(id).path] = id
                                  /\ Hit(id).path \in Indexed
                                  /\ OwnerOf(id) = {Hit(id).path}
           /\ \A P \in SUBSET Indexed : /\ IsFiniteSet({row[p] : p \in P})
                                        /\ Cardinality({row[p] : p \in P}) = Cardinality(P)
<1>1. \A p \in Indexed : row[p] \in 1..MaxId /\ OwnerOf(row[p]) = {p} /\ p \in Paths
  <2>1. MaxId \in Nat
    BY SearchAssumption
  <2>2. QED
    BY <2>1 DEF RequestTyped, Indexed, OwnerOf
<1>2. ASSUME NEW id, Owned(id)
      PROVE  /\ id \in 1..MaxId /\ Hit(id) \in Answers
             /\ Hit(id).id = id /\ row[Hit(id).path] = id
             /\ Hit(id).path \in Indexed /\ OwnerOf(id) = {Hit(id).path}
  <2>1. PICK p \in Indexed : row[p] = id
    BY <1>2 DEF Owned, OwnerOf, Indexed
  <2>2. OwnerOf(id) = {p} /\ id \in 1..MaxId /\ p \in Paths
    BY <1>1, <2>1
  <2>3. Hit(id) = [id |-> id, path |-> p]
    BY <2>2 DEF Hit
  <2>4. QED
    BY <2>1, <2>2, <2>3 DEF Answers
<1>3. ASSUME NEW P \in SUBSET Indexed
      PROVE  /\ IsFiniteSet({row[p] : p \in P})
             /\ Cardinality({row[p] : p \in P}) = Cardinality(P)
  <2> DEFINE T == {row[p] : p \in P}
             f == [p \in P |-> row[p]]
  <2>1. IsFiniteSet(P)
    BY <1>1, <1>3, FilesCounted
  <2>2. \A x, y \in P : f[x] = f[y] => x = y
    BY <1>1, <1>3
  <2>3. f \in [P -> T] /\ \A t \in T : \E p \in P : f[p] = t
    OBVIOUS
  <2> HIDE DEF T, f
  <2>4. f \in Bijection(P, T)
    BY <2>2, <2>3, Fun_IsBij, Fun_IsSurj
  <2>5. QED
    BY <2>1, <2>4, FS_Bijection DEF ExistsBijection, T
<1>4. QED
  BY <1>1, <1>2, <1>3

\* The lookup keeps the order, and leaves out what is no row or the source's.
LEMMA HydrateProperties ==
    ASSUME RequestTyped, NEW ids, IsList(ids), NEW n \in Nat
    PROVE  /\ Hydrate(ids, n) \in Seq(Answers)
           /\ Cardinality(Answering(ids)) \in Nat /\ Cardinality(Answering(ids)) <= Len(ids)
           /\ Len(Hydrate(ids, n)) = Least(n, Cardinality(Answering(ids)))
           /\ \A j \in DOMAIN Hydrate(ids, n) :
                /\ Hydrate(ids, n)[j].id \in ToSet(ids)
                /\ Hydrate(ids, n)[j].path \in Indexed
                /\ row[Hydrate(ids, n)[j].path] = Hydrate(ids, n)[j].id
                /\ request.mode = "similar" => Hydrate(ids, n)[j].path # request.source
           /\ \A j, k \in DOMAIN Hydrate(ids, n) :
                Hydrate(ids, n)[j].id = Hydrate(ids, n)[k].id => j = k
           /\ \A j, k \in DOMAIN Hydrate(ids, n) :
                j < k => \E l, m \in DOMAIN ids :
                           l < m /\ Hydrate(ids, n)[j].id = ids[l]
                                 /\ Hydrate(ids, n)[k].id = ids[m]
<1> DEFINE E == Answering(ids)
           s == Kept(ids, E)
           f == First(s, n)
           h == Hydrate(ids, n)
           c == Least(n, Cardinality(E))
<1>1. ids \in Seq(Nat) /\ DOMAIN ids = 1..Len(ids) /\ Len(ids) \in Nat
  BY LenProperties DEF IsList
<1>2. E \subseteq DOMAIN ids /\ \A m \in E : Owned(ids[m]) /\ ~Excluded(ids[m])
  BY DEF Answering
<1>3. /\ Cardinality(E) \in Nat /\ Cardinality(E) <= Len(ids)
      /\ s \in Seq(Nat) /\ Len(s) = Cardinality(E)
      /\ \A j \in 1..Cardinality(E) : s[j] = ids[Place(E, j)] /\ Place(E, j) \in E
      /\ \A i, j \in 1..Cardinality(E) : i < j => Place(E, i) < Place(E, j)
  BY <1>1, <1>2, KeptProperties
<1>4. /\ f \in Seq(Nat) /\ Len(f) = c /\ c \in Nat /\ c <= Cardinality(E)
      /\ \A j \in 1..c : f[j] = s[j]
  BY <1>3, FirstProperties
<1>5. h = [j \in DOMAIN f |-> Hit(f[j])]
  BY DEF Hydrate, HitsOf
<1> HIDE DEF E, s, f, h, c
<1>6. \A j \in 1..c : f[j] = ids[Place(E, j)] /\ Place(E, j) \in E
  BY <1>3, <1>4
<1>7. h = [j \in 1..c |-> Hit(ids[Place(E, j)])]
  BY <1>4, <1>5, <1>6, LenProperties
<1>8. \A m \in E : /\ Hit(ids[m]) \in Answers /\ Hit(ids[m]).id = ids[m]
                   /\ row[Hit(ids[m]).path] = ids[m] /\ Hit(ids[m]).path \in Indexed
                   /\ request.mode = "similar" => Hit(ids[m]).path # request.source
  <2> SUFFICES ASSUME NEW m \in E
               PROVE  /\ Hit(ids[m]) \in Answers /\ Hit(ids[m]).id = ids[m]
                      /\ row[Hit(ids[m]).path] = ids[m] /\ Hit(ids[m]).path \in Indexed
                      /\ request.mode = "similar" => Hit(ids[m]).path # request.source
    OBVIOUS
  <2>1. Owned(ids[m]) /\ ~Excluded(ids[m])
    BY <1>2
  <2>2. /\ Hit(ids[m]) \in Answers /\ Hit(ids[m]).id = ids[m]
        /\ row[Hit(ids[m]).path] = ids[m] /\ Hit(ids[m]).path \in Indexed
        /\ OwnerOf(ids[m]) = {Hit(ids[m]).path}
    BY <2>1, RowsOfFiles
  <2>3. QED
    BY <2>1, <2>2 DEF Excluded
<1>9. h \in Seq(Answers) /\ Len(h) = c /\ DOMAIN h = 1..c
  BY <1>4, <1>6, <1>7, <1>8
<1>10. \A j \in 1..c : /\ h[j].id = ids[Place(E, j)] /\ h[j].path \in Indexed
                       /\ row[h[j].path] = h[j].id
                       /\ request.mode = "similar" => h[j].path # request.source
  BY <1>6, <1>7, <1>8
<1>11. \A j \in 1..c : h[j].id \in ToSet(ids)
  BY <1>2, <1>6, <1>10 DEF ToSet
<1>12. \A j, k \in 1..c : j < k => Place(E, j) < Place(E, k)
  BY <1>3, <1>4
<1>13. \A j \in 1..c : Place(E, j) \in DOMAIN ids /\ Place(E, j) \in Nat
  BY <1>1, <1>2, <1>6
<1>14. \A j, k \in 1..c : h[j].id = h[k].id => j = k
  <2> SUFFICES ASSUME NEW j \in 1..c, NEW k \in 1..c, h[j].id = h[k].id PROVE j = k
    OBVIOUS
  <2>1. Place(E, j) = Place(E, k)
    BY <1>10, <1>13 DEF IsList, IsInjective
  <2>2. ~(j < k) /\ ~(k < j)
    BY <1>12, <1>13, <2>1
  <2>3. QED
    BY <1>4, <2>2
<1>15. \A j, k \in 1..c :
         j < k => \E l, m \in DOMAIN ids : l < m /\ h[j].id = ids[l] /\ h[k].id = ids[m]
  BY <1>10, <1>12, <1>13
<1>16. /\ h \in Seq(Answers) /\ Len(h) = c
       /\ \A j \in DOMAIN h : /\ h[j].id \in ToSet(ids) /\ h[j].path \in Indexed
                              /\ row[h[j].path] = h[j].id
                              /\ request.mode = "similar" => h[j].path # request.source
       /\ \A j, k \in DOMAIN h : h[j].id = h[k].id => j = k
       /\ \A j, k \in DOMAIN h :
            j < k => \E l, m \in DOMAIN ids : l < m /\ h[j].id = ids[l] /\ h[k].id = ids[m]
  BY <1>9, <1>10, <1>11, <1>14, <1>15
<1>17. QED
  BY <1>3, <1>16 DEF h, E, c

\* When the list has a row of every file, every file but the source answers.
LEMMA AllAnswer ==
    ASSUME RequestTyped, NEW ids, IsList(ids), NEW P \in SUBSET Indexed,
           ToSet(ids) = {row[p] : p \in P}
    PROVE  Cardinality(Answering(ids)) =
             Cardinality({p \in P : request.mode = "similar" => p # request.source})
<1> DEFINE C == {p \in P : request.mode = "similar" => p # request.source}
           E == Answering(ids)
<1>1. E \in SUBSET DOMAIN ids /\ ids \in Seq(Nat) /\ IsInjective(ids)
  BY DEF Answering, IsList
<1>2. Cardinality({ids[m] : m \in E}) = Cardinality(E)
  BY <1>1, ElementsAt
<1>3. Cardinality({row[p] : p \in C}) = Cardinality(C)
  BY RowsOfFiles
<1>4. \A p \in P : /\ row[p] # 0 /\ OwnerOf(row[p]) = {p}
                   /\ Owned(row[p]) /\ (Excluded(row[p]) <=> p \notin C)
  <2> SUFFICES ASSUME NEW p \in P
               PROVE  /\ row[p] # 0 /\ OwnerOf(row[p]) = {p}
                      /\ Owned(row[p]) /\ (Excluded(row[p]) <=> p \notin C)
    OBVIOUS
  <2>1. row[p] # 0 /\ OwnerOf(row[p]) = {p}
    BY RowsOfFiles DEF Indexed
  <2>2. Owned(row[p])
    BY <2>1 DEF Owned
  <2>3. Excluded(row[p]) <=> request.mode = "similar" /\ p = request.source
    BY <2>1 DEF Excluded
  <2>4. QED
    BY <2>1, <2>2, <2>3
<1>5. ASSUME NEW x PROVE x \in {ids[m] : m \in E} <=> x \in {row[p] : p \in C}
  <2>1. ASSUME NEW m \in E, x = ids[m] PROVE \E p \in C : x = row[p]
    <3>1. ids[m] \in ToSet(ids) /\ ~Excluded(ids[m])
      BY DEF Answering, ToSet
    <3>2. PICK p \in P : ids[m] = row[p]
      BY <3>1
    <3>3. p \in C
      BY <1>4, <3>1, <3>2
    <3>4. QED
      BY <2>1, <3>2, <3>3
  <2>2. ASSUME NEW p \in C, x = row[p] PROVE \E m \in E : x = ids[m]
    <3>1. PICK m \in DOMAIN ids : ids[m] = row[p]
      BY DEF ToSet
    <3>2. m \in E
      BY <1>4, <3>1 DEF Answering
    <3>3. QED
      BY <2>2, <3>1, <3>2
  <2>3. QED
    BY <2>1, <2>2
<1>6. {ids[m] : m \in E} = {row[p] : p \in C}
  BY <1>5
<1>7. QED
  BY <1>2, <1>3, <1>6

LEMMA PoolTyped ==
    ASSUME RequestTyped
    PROVE  /\ request.limit \in 1..50 /\ request.limit \in Nat /\ request.slots \in Nat
           /\ request.source \in Paths /\ request.mode \in Modes
           /\ PoolSize \in 1..50 /\ PoolSize \in Nat /\ request.limit <= PoolSize
<1>1. MaxLimit \in 1..50 /\ CANDIDATE_K \in 1..50
  BY SearchAssumption
<1>2. /\ request.limit \in 1..MaxLimit /\ request.slots \in 0..MaxLimit
      /\ request.source \in Paths /\ request.mode \in Modes
  BY DEF RequestTyped, Requests
<1>3. request.limit \in 1..50
  BY <1>1, <1>2
<1>4. \A a, b \in 1..50 : Max({a, b}) \in 1..50 /\ b <= Max({a, b})
  <2> SUFFICES ASSUME NEW a \in 1..50, NEW b \in 1..50
               PROVE  Max({a, b}) \in 1..50 /\ b <= Max({a, b})
    OBVIOUS
  <2>1. \E x \in {a, b} : \A y \in {a, b} : x >= y
    <3>1. a >= b \/ b >= a
      OBVIOUS
    <3>2. QED
      BY <3>1
  <2>2. Max({a, b}) \in {a, b} /\ \A y \in {a, b} : Max({a, b}) >= y
    BY <2>1 DEF Max
  <2>3. QED
    BY <2>2
<1>5. /\ Max({CANDIDATE_K, request.limit}) \in 1..50
      /\ request.limit <= Max({CANDIDATE_K, request.limit})
  BY ONLY <1>1, <1>3, <1>4
<1>6. PoolSize \in 1..50 /\ request.limit <= PoolSize
  BY <1>5 DEF PoolSize
<1>7. QED
  BY <1>1, <1>2, <1>3, <1>6

\* The files a ranker scans the rows of.
FilesOf(r) ==
    CASE r = "vec"   -> Indexed
      [] r = "fts"   -> IF HasWords THEN Indexed \cap Notes ELSE {}
      [] r = "media" -> {q \in Indexed \ Notes :
                           request.types = {} \/ MediaType(q) \in request.types}

LEMMA ScannedFiles ==
    ASSUME RequestTyped, NEW r \in Rankers
    PROVE  /\ FilesOf(r) \in SUBSET Indexed /\ Scanned(r) = {row[p] : p \in FilesOf(r)}
           /\ Scanned(r) \subseteq 1..MaxId /\ IsFiniteSet(Scanned(r))
           /\ Cardinality(Scanned(r)) = Cardinality(FilesOf(r))
           /\ Cardinality(FilesOf(r)) \in Nat
           /\ Cardinality(FilesOf(r)) <= Cardinality(Indexed)
<1>1. FilesOf(r) \in SUBSET Indexed
  BY DEF FilesOf, Rankers
<1>2. Scanned(r) = {row[p] : p \in FilesOf(r)}
  <2>1. CASE r = "vec"
    BY <2>1 DEF FilesOf, Scanned
  <2>2. CASE r = "fts"
    BY <2>2 DEF FilesOf, Scanned
  <2>3. CASE r = "media"
    BY <2>3 DEF FilesOf, Scanned, MediaRows
  <2>4. QED
    BY <2>1, <2>2, <2>3 DEF Rankers
<1>3. \A p \in FilesOf(r) : row[p] \in 1..MaxId
  BY <1>1, RowsOfFiles
<1>4. /\ IsFiniteSet({row[p] : p \in FilesOf(r)})
      /\ Cardinality({row[p] : p \in FilesOf(r)}) = Cardinality(FilesOf(r))
  BY <1>1, RowsOfFiles
<1>5. Indexed \in SUBSET Paths
  BY DEF Indexed
<1>6. Cardinality(FilesOf(r)) \in Nat /\ Cardinality(FilesOf(r)) <= Cardinality(Indexed)
  BY <1>1, <1>5, FilesCounted, FS_Subset
<1>7. QED
  BY <1>1, <1>2, <1>3, <1>4, <1>6

\* A vector ranking is of every row if the pool holds them all.
LEMMA RankedLists ==
    ASSUME RequestTyped, NEW r \in Rankers, NEW list \in Lists(r)
    PROVE  /\ list \in Seq(1..MaxId) /\ IsInjective(list) /\ Len(list) <= 50
           /\ ToSet(list) \subseteq Scanned(r)
           /\ Cardinality(Indexed) <= PoolSize /\ r # "fts" => ToSet(list) = Scanned(r)
<1> DEFINE S == Scanned(r)
           full == Least(PoolSize, Cardinality(S))
<1>1. /\ S \subseteq 1..MaxId /\ IsFiniteSet(S) /\ Cardinality(S) \in Nat
      /\ Cardinality(S) <= Cardinality(Indexed)
  BY ScannedFiles
<1>2. PoolSize \in Nat /\ PoolSize <= 50
  BY PoolTyped
<1>3. full \in Nat /\ full <= 50
  BY <1>1, <1>2 DEF Least
<1>4. \E n \in 0..full : list \in Rankings(S, n) /\ (r # "fts" => n = full)
  BY <1>3 DEF Lists
<1> HIDE DEF S, full
<1>5. PICK n \in 0..full : list \in Rankings(S, n) /\ (r # "fts" => n = full)
  BY <1>4
<1>6. list \in [1..n -> S] /\ IsInjective(list) /\ n \in Nat /\ n <= 50
  BY <1>3, <1>5 DEF Rankings
<1>7. list \in Seq(S) /\ Len(list) = n /\ DOMAIN list = 1..n
  BY <1>6
<1>8. list \in Seq(1..MaxId)
  BY <1>1, <1>7, SeqMonotonic
<1>9. ToSet(list) \subseteq S
  BY <1>6, <1>7 DEF ToSet
<1>10. ASSUME Cardinality(Indexed) <= PoolSize, r # "fts"
       PROVE  ToSet(list) = S
  <2>1. n = Cardinality(S)
    <3>1. Cardinality(Indexed) \in Nat
      BY FilesCounted DEF Indexed
    <3>2. full = Cardinality(S)
      BY <1>1, <1>2, <1>10, <3>1 DEF full, Least
    <3>3. QED
      BY <1>5, <1>10, <3>2
  <2>2. Cardinality({list[m] : m \in 1..n}) = Cardinality(1..n)
    <3> DEFINE P == 1..n
    <3>1. P \in SUBSET DOMAIN list /\ list \in Seq(S) /\ IsInjective(list)
      BY <1>6, <1>7
    <3> HIDE DEF P
    <3>2. Cardinality({list[m] : m \in P}) = Cardinality(P)
      BY ONLY <3>1, ElementsAt
    <3>3. QED
      BY <3>2 DEF P
  <2>3. Cardinality(1..n) = n
    <3>1. n \in Int /\ 1 \in Int
      BY <1>6
    <3>2. Cardinality(1..n) = IF 1 > n THEN 0 ELSE n - 1 + 1
      BY ONLY <3>1, FS_Interval
    <3>3. QED
      BY <1>6, <3>2
  <2>4. {list[m] : m \in 1..n} = ToSet(list)
    BY <1>7 DEF ToSet
  <2>5. QED
    BY <1>1, <1>9, <2>1, <2>2, <2>3, <2>4, FS_Subset
<1>11. QED
  BY <1>6, <1>7, <1>8, <1>9, <1>10 DEF S

---------------------------------------------------------------------------
(* The steps of a request and of the writer beside it.                     *)

\* A step of the request leaves the index and what is asked.
SameIndex == row' = row /\ changes' = changes /\ request' = request

LEMMA IndexStays ==
    ASSUME SameIndex
    PROVE  /\ Indexed' = Indexed /\ Corpus' = Corpus /\ PoolSize' = PoolSize
           /\ PoolHoldsAll' <=> PoolHoldsAll
           /\ \A r \in Rankers : Scanned(r)' = Scanned(r)
<1>1. Indexed' = Indexed /\ PoolSize' = PoolSize
  BY DEF SameIndex, Indexed, PoolSize
<1>2. Corpus' = Corpus
  BY <1>1 DEF SameIndex, Corpus
<1>3. PoolHoldsAll' <=> PoolHoldsAll
  BY <1>1 DEF SameIndex, PoolHoldsAll
<1>4. ASSUME NEW r \in Rankers PROVE Scanned(r)' = Scanned(r)
  <2>1. HasWords' <=> HasWords
    BY DEF SameIndex, HasWords
  <2>2. MediaRows' = MediaRows
    BY <1>1 DEF SameIndex, MediaRows
  <2>3. {row[p] : p \in Indexed}' = {row[p] : p \in Indexed}
    BY <1>1 DEF SameIndex
  <2>4. {row[p] : p \in Indexed \cap Notes}' = {row[p] : p \in Indexed \cap Notes}
    BY <1>1 DEF SameIndex
  <2>5. QED
    BY <2>1, <2>2, <2>3, <2>4 DEF Scanned
<1>5. QED
  BY <1>1, <1>2, <1>3, <1>4

\* Without hits there is nothing to say of them.
LEMMA NoHits ==
    ASSUME RequestTyped', hits' = <<>>
    PROVE  HitsAreDistinct' /\ FoundByBothFirst' /\ Len(hits') = 0 /\ DOMAIN hits' = {}
<1>1. Len(hits') = 0 /\ DOMAIN hits' = {}
  OBVIOUS
<1>2. QED
  BY <1>1 DEF HitsAreDistinct, FoundByBothFirst

\* A commit takes a file's row, or gives it one whose id no other has.
LEMMA RowStaysTyped ==
    ASSUME RequestTyped, NEW p \in Paths, ReplaceFile(p) \/ RemoveFile(p)
    PROVE  /\ row' \in [Paths -> 0..MaxId]
           /\ \A q, r \in Paths : row'[q] = row'[r] => q = r \/ row'[q] = 0
<1> DEFINE T == {Unrow(p)[q] : q \in Paths}
<1>1. /\ Unrow(p) \in [Paths -> 0..MaxId] /\ MaxId \in Nat
      /\ \A q, r \in Paths : Unrow(p)[q] = Unrow(p)[r] => q = r \/ Unrow(p)[q] = 0
  BY SearchAssumption DEF RequestTyped, Unrow
<1>2. CASE RemoveFile(p)
  BY <1>1, <1>2 DEF RemoveFile
<1>3. CASE ReplaceFile(p)
  <2>1. T \subseteq 0..MaxId /\ T # {}
    BY <1>1
  <2>2. IsFiniteSet(T)
    <3>1. 0 \in Int /\ MaxId \in Int
      BY <1>1
    <3>2. IsFiniteSet(0..MaxId)
      BY ONLY <3>1, FS_Interval
    <3>3. QED
      BY <2>1, <3>2, FS_Subset
  <2> HIDE DEF T
  <2>3. PICK m \in T : \A n \in T : n <= m
    <3>1. T \subseteq Nat
      BY <1>1, <2>1
    <3>2. QED
      BY <2>1, <2>2, <3>1, CountingUp
  <2>4. \A n \in T : n \in Nat
    BY <1>1, <2>1
  <2>5. \E x \in T : \A y \in T : x >= y
    BY <2>3, <2>4
  <2>6. Max(T) \in T /\ \A y \in T : Max(T) >= y
    BY <2>5 DEF Max
  <2>7. /\ row' = [row EXCEPT ![p] = 1 + Max(T)]
        /\ 1 + Max(T) <= MaxId
    BY <1>3 DEF ReplaceFile, T
  <2>8. \A q \in Paths : q # p => row[q] # 1 + Max(T)
    <3> SUFFICES ASSUME NEW q \in Paths, q # p PROVE row[q] # 1 + Max(T)
      OBVIOUS
    <3>1. row[q] = Unrow(p)[q] /\ Unrow(p)[q] \in T
      BY DEF T, Unrow, RequestTyped
    <3>2. Max(T) \in Nat /\ row[q] \in Nat /\ Max(T) >= row[q]
      BY <2>4, <2>6, <3>1
    <3>3. QED
      BY <3>2
  <2>9. 1 + Max(T) \in 0..MaxId
    BY <1>1, <2>4, <2>6, <2>7
  <2>10. QED
    BY <2>7, <2>8, <2>9 DEF RequestTyped
<1>4. QED
  BY <1>2, <1>3

LEMMA CommitKeeps ==
    ASSUME RequestInv, Commit
    PROVE  RequestInv'
<1>1. /\ request' = request /\ pc' = pc /\ waiting' = waiting /\ found' = found /\ hits' = hits
      /\ changes' = changes + 1
      /\ \E p \in Paths : ReplaceFile(p) \/ RemoveFile(p)
  BY DEF Commit
<1>2. changes \in Nat /\ changes' \in Nat /\ changes' # 0
  BY <1>1 DEF RequestInv, RequestTyped
<1>3. RequestTyped'
  <2>1. /\ row' \in [Paths -> 0..MaxId]
        /\ \A q, r \in Paths : row'[q] = row'[r] => q = r \/ row'[q] = 0
    BY <1>1, RowStaysTyped DEF RequestInv
  <2>2. QED
    BY <1>1, <1>2, <2>1 DEF RequestInv, RequestTyped
<1>4. ListsInv'
  BY <1>1, <1>2 DEF RequestInv, ListsInv, PoolHoldsAll
<1>5. HitsInv'
  BY <1>1, <1>2 DEF RequestInv, HitsInv
<1>6. PageInv'
  BY <1>1, <1>2 DEF RequestInv, PageInv, PoolHoldsAll
<1>7. HitsAreDistinct' /\ FoundByBothFirst'
  BY <1>1 DEF RequestInv, HitsAreDistinct, FoundByBothFirst
<1>8. QED
  BY <1>3, <1>4, <1>5, <1>6, <1>7 DEF RequestInv

LEMMA AsksKeep ==
    ASSUME RequestInv, EmbedQuery \/ AskSimilar \/ ReadSource \/ StoreError
    PROVE  RequestInv'
<1>1. /\ SameIndex /\ found' = found /\ hits' = <<>>
      /\ pc' \in {"source", "rank", "blank", "failed", "done"}
      /\ pc' = "source" => request.mode = "similar"
      /\ pc' = "rank" => waiting' = Asked(request.mode)
      /\ pc' = "done" => request.mode = "similar" /\ row[request.source] = 0
      /\ waiting' \in {waiting, Asked(request.mode)}
  <2>1. CASE EmbedQuery
    BY <2>1 DEF RequestInv, HitsInv, EmbedQuery, SameIndex
  <2>2. CASE AskSimilar
    BY <2>2 DEF RequestInv, HitsInv, AskSimilar, SameIndex
  <2>3. CASE ReadSource
    <3>1. request.mode = "similar"
      BY <2>3 DEF RequestInv, HitsInv, ReadSource
    <3>2. chunks_for_similar(request.source) = {} => row[request.source] = 0
      BY DEF chunks_for_similar
    <3>3. QED
      BY <2>3, <3>1, <3>2 DEF RequestInv, HitsInv, ReadSource, SameIndex
  <2>4. CASE StoreError
    BY <2>4 DEF RequestInv, StoreError, SameIndex
  <2>5. QED
    BY <2>1, <2>2, <2>3, <2>4
<1>2. RequestTyped'
  <2>1. Asked(request.mode) \subseteq Rankers
    BY DEF Asked, Rankers
  <2>2. waiting' \subseteq Rankers
    BY <1>1, <2>1 DEF RequestInv, RequestTyped
  <2>3. pc' \in Stages
    BY <1>1 DEF Stages
  <2>4. hits' \in Seq(Answers)
    BY <1>1
  <2>5. QED
    BY <1>1, <2>2, <2>3, <2>4 DEF RequestInv, RequestTyped, SameIndex
<1>3. HitsAreDistinct' /\ FoundByBothFirst' /\ Len(hits') = 0 /\ DOMAIN hits' = {}
  BY <1>1, <1>2, NoHits
<1>4. ListsInv'
  <2>1. /\ request' = request /\ (changes' = 0 <=> changes = 0)
        /\ \A r \in Rankers : Scanned(r)' = Scanned(r)
    BY <1>1, IndexStays DEF SameIndex
  <2>2. changes' = 0 => \A r \in Rankers : ToSet(found'[r]) \subseteq Scanned(r)'
    BY <1>1, <2>1 DEF RequestInv, ListsInv
  <2>3. \A r \in Rankers : IsInjective(found'[r]) /\ Len(found'[r]) <= 50
    BY <1>1 DEF RequestInv, ListsInv
  <2>4. pc' \notin {"hydrate", "lane"}
    BY <1>1
  <2>5. pc' = "rank" => Asked(request'.mode) \ waiting' = {}
    BY <1>1, <2>1
  <2>6. QED
    BY <2>2, <2>3, <2>4, <2>5 DEF ListsInv
<1>5. HitsInv'
  BY <1>1, <1>3 DEF HitsInv, SameIndex
<1>6. PageInv'
  <2>1. request.limit \in Nat
    BY PoolTyped DEF RequestInv
  <2>2. QED
    BY <1>1, <1>3, <2>1 DEF PageInv, SameIndex
<1>7. QED
  BY <1>2, <1>3, <1>4, <1>5, <1>6 DEF RequestInv

LEMMA RankKeeps ==
    ASSUME RequestInv, Rank
    PROVE  RequestInv'
<1>1. PICK r \in waiting :
        /\ waiting' = waiting \ {r}
        /\ \E list \in Lists(r) : found' = [found EXCEPT ![r] = list]
  BY DEF Rank
<1>2. PICK list \in Lists(r) : found' = [found EXCEPT ![r] = list]
  BY <1>1
<1>3. /\ SameIndex /\ hits' = hits /\ pc = "rank" /\ pc' \in {"rank", "hydrate"}
      /\ pc' = "hydrate" => waiting' = {}
  BY DEF Rank, SameIndex
<1>4. hits' = <<>> /\ r \in Rankers
  BY <1>1, <1>3 DEF RequestInv, HitsInv, RequestTyped
<1>5. /\ list \in Seq(1..MaxId) /\ IsInjective(list) /\ Len(list) <= 50
      /\ ToSet(list) \subseteq Scanned(r)
      /\ Cardinality(Indexed) <= PoolSize /\ r # "fts" => ToSet(list) = Scanned(r)
  BY <1>4, RankedLists DEF RequestInv
<1>6. /\ found' \in [Rankers -> Seq(1..MaxId)] /\ found'[r] = list
      /\ \A x \in Rankers : x # r => found'[x] = found[x]
  BY <1>2, <1>4, <1>5 DEF RequestInv, RequestTyped
<1>7. RequestTyped'
  <2>1. pc' \in Stages /\ waiting' \subseteq Rankers
    BY <1>1, <1>3 DEF RequestInv, RequestTyped, Stages
  <2>2. QED
    BY <1>3, <1>6, <2>1 DEF RequestInv, RequestTyped, SameIndex
<1>8. HitsAreDistinct' /\ FoundByBothFirst' /\ Len(hits') = 0 /\ DOMAIN hits' = {}
  BY <1>4, <1>7, NoHits
<1>9. ListsInv'
  <2>1. /\ request' = request /\ changes' = changes /\ (PoolHoldsAll' <=> PoolHoldsAll)
        /\ \A x \in Rankers : Scanned(x)' = Scanned(x)
    BY <1>3, IndexStays DEF SameIndex
  <2>2. \A x \in Rankers : IsInjective(found'[x]) /\ Len(found'[x]) <= 50
    BY <1>5, <1>6 DEF RequestInv, ListsInv
  <2>3. changes' = 0 => \A x \in Rankers : ToSet(found'[x]) \subseteq Scanned(x)'
    BY <1>5, <1>6, <2>1 DEF RequestInv, ListsInv
  <2>4. ASSUME PoolHoldsAll', NEW x \in Asked(request'.mode) \ waiting', x # "fts"
        PROVE  ToSet(found'[x]) = Scanned(x)'
    <3>1. x \in Rankers
      BY <2>4 DEF Asked, Rankers
    <3>2. CASE x = r
      <4>1. Cardinality(Indexed) <= PoolSize
        BY <2>1, <2>4 DEF PoolHoldsAll
      <4>2. QED
        BY <1>5, <1>6, <2>1, <2>4, <3>1, <3>2, <4>1
    <3>3. CASE x # r
      <4>1. x \in Asked(request.mode) \ waiting
        BY <1>1, <2>1, <2>4, <3>3
      <4>2. ToSet(found[x]) = Scanned(x)
        BY <1>3, <2>1, <2>4, <4>1 DEF RequestInv, ListsInv
      <4>3. QED
        BY <1>6, <2>1, <3>1, <3>3, <4>2
    <3>4. QED
      BY <3>2, <3>3
  <2>5. QED
    BY <1>3, <2>2, <2>3, <2>4 DEF ListsInv
<1>10. HitsInv'
  BY <1>3, <1>4, <1>8 DEF HitsInv
<1>11. PageInv'
  <2>1. request.limit \in Nat
    BY PoolTyped DEF RequestInv
  <2>2. QED
    BY <1>3, <1>8, <2>1 DEF PageInv, SameIndex
<1>12. QED
  BY <1>7, <1>8, <1>9, <1>10, <1>11 DEF RequestInv

\* The lists while they are looked up.
LEMMA FoundLists ==
    ASSUME RequestInv
    PROVE  /\ \A r \in Rankers : IsList(found[r]) /\ Len(found[r]) <= 50
           /\ IsList(<<>>) /\ ToSet(<<>>) = {} /\ IsList(Fused)
           /\ ToSet(Fused) = IF request.mode = "media" THEN ToSet(found["media"])
                             ELSE ToSet(found["vec"]) \cup ToSet(found["fts"])
<1>1. ASSUME NEW r \in Rankers PROVE IsList(found[r]) /\ Len(found[r]) <= 50
  <2>1. found[r] \in Seq(1..MaxId) /\ MaxId \in Nat
    BY SearchAssumption DEF RequestInv, RequestTyped
  <2>2. 1..MaxId \subseteq Nat
    BY <2>1
  <2>3. found[r] \in Seq(Nat)
    BY <2>1, <2>2, SeqMonotonic
  <2>4. QED
    BY <2>3 DEF RequestInv, ListsInv, IsList
<1>2. IsList(<<>>) /\ ToSet(<<>>) = {}
  BY DEF IsList, IsInjective, ToSet
<1>3. /\ IsList(found["vec"]) /\ IsList(found["fts"]) /\ IsList(found["media"])
  BY <1>1 DEF Rankers
<1>4. CASE request.mode = "media"
  <2>1. Fused = Fuse(found["media"], <<>>)
    BY <1>4 DEF Fused
  <2>2. /\ IsList(Fuse(found["media"], <<>>))
        /\ ToSet(Fuse(found["media"], <<>>)) = ToSet(found["media"]) \cup ToSet(<<>>)
    BY ONLY <1>2, <1>3, FuseProperties
  <2>3. QED
    BY <1>1, <1>2, <1>4, <2>1, <2>2
<1>5. CASE request.mode # "media"
  <2>1. Fused = Fuse(found["vec"], found["fts"])
    BY <1>5 DEF Fused
  <2>2. QED
    BY <1>1, <1>2, <1>3, <1>5, <2>1, FuseProperties
<1>6. QED
  BY <1>4, <1>5

\* The files whose rows are fused.
FusedFiles == IF request.mode = "media" THEN FilesOf("media") ELSE Indexed

LEMMA CorpusFused ==
    ASSUME RequestTyped
    PROVE  /\ FusedFiles \in SUBSET Indexed
           /\ Corpus = {p \in FusedFiles : request.mode = "similar" => p # request.source}
<1>1. FusedFiles \in SUBSET Indexed
  BY ScannedFiles DEF FusedFiles, Rankers
<1>2. CASE request.mode = "media"
  BY <1>2 DEF Corpus, FusedFiles, FilesOf
<1>3. CASE request.mode = "similar"
  BY <1>3 DEF Corpus, FusedFiles
<1>4. CASE request.mode \notin {"media", "similar"}
  BY <1>4 DEF Corpus, FusedFiles
<1>5. QED
  BY <1>1, <1>2, <1>3, <1>4

\* While nothing is committed, what is fused are rows of the files asked about,
\* and all of them when the pool holds them.
LEMMA FusedRows ==
    ASSUME RequestInv, pc = "hydrate", changes = 0
    PROVE  /\ ToSet(Fused) \subseteq {row[p] : p \in FusedFiles}
           /\ PoolHoldsAll => ToSet(Fused) = {row[p] : p \in FusedFiles}
<1>1. /\ \A r \in Rankers : ToSet(found[r]) \subseteq Scanned(r)
      /\ PoolHoldsAll => \A r \in Asked(request.mode) :
                           r # "fts" => ToSet(found[r]) = Scanned(r)
  BY DEF RequestInv, ListsInv
<1>2. /\ Scanned("vec") = {row[p] : p \in Indexed}
      /\ Scanned("fts") \subseteq {row[p] : p \in Indexed}
      /\ Scanned("media") = {row[p] : p \in FilesOf("media")}
  <2>1. \A r \in Rankers : FilesOf(r) \in SUBSET Indexed /\ Scanned(r) = {row[p] : p \in FilesOf(r)}
    BY ScannedFiles DEF RequestInv
  <2>2. "vec" \in Rankers /\ "fts" \in Rankers /\ "media" \in Rankers /\ FilesOf("vec") = Indexed
    BY DEF Rankers, FilesOf
  <2>3. QED
    BY <2>1, <2>2
<1>3. CASE request.mode = "media"
  <2>1. "media" \in Asked(request.mode) /\ "media" \in Rankers
    BY <1>3 DEF Asked, Rankers
  <2>2. ToSet(Fused) = ToSet(found["media"]) /\ FusedFiles = FilesOf("media")
    BY <1>3, FoundLists DEF FusedFiles
  <2>3. QED
    BY <1>1, <1>2, <2>1, <2>2
<1>4. CASE request.mode # "media"
  <2>1. "vec" \in Asked(request.mode) /\ "vec" \in Rankers /\ "fts" \in Rankers
    BY <1>4 DEF Asked, Rankers
  <2>2. ToSet(Fused) = ToSet(found["vec"]) \cup ToSet(found["fts"]) /\ FusedFiles = Indexed
    BY <1>4, FoundLists DEF FusedFiles
  <2>3. ToSet(found["fts"]) \subseteq {row[p] : p \in Indexed}
    BY <1>1, <1>2, <2>1
  <2>4. ToSet(found["vec"]) \subseteq {row[p] : p \in Indexed}
    BY <1>1, <1>2, <2>1
  <2>5. PoolHoldsAll => ToSet(found["vec"]) = {row[p] : p \in Indexed}
    BY <1>1, <1>2, <2>1
  <2>6. QED
    BY <2>2, <2>3, <2>4, <2>5
<1>5. QED
  BY <1>3, <1>4

\* What both rankers found is looked up before what one of them did.
LEMMA BothAheadOfOne ==
    ASSUME RequestInv, request.mode # "media",
           NEW l \in DOMAIN Fused, NEW m \in DOMAIN Fused, l < m
    PROVE  LET Both == ToSet(found["vec"]) \cap ToSet(found["fts"])
           IN ~(Fused[m] \in Both /\ Fused[l] \notin Both)
<1> DEFINE a == found["vec"]
           b == found["fts"]
           Both == ToSet(a) \cap ToSet(b)
<1>1. IsList(a) /\ IsList(b) /\ Len(a) <= 50 /\ Len(b) <= 50 /\ Fused = Fuse(a, b)
  BY FoundLists DEF Rankers, Fused
<1> HIDE DEF a, b
<1>2. /\ Ahead(a, b, Fused[l], Fused[m])
      /\ Fused[l] \in ToSet(a) \cup ToSet(b) /\ Fused[m] \in ToSet(a) \cup ToSet(b)
  <2>1. \A j \in DOMAIN Fused : Fused[j] \in ToSet(Fused)
    BY DEF ToSet
  <2>2. QED
    BY <1>1, <2>1, FuseProperties
<1>3. SUFFICES ASSUME Fused[m] \in Both, Fused[l] \notin Both PROVE FALSE
  BY DEF a, b
<1> DEFINE s == Score(a, b, Fused[l])
           t == Score(a, b, Fused[m])
<1>4. s \in Fractions /\ t \in Fractions /\ Higher(t, s)
  BY <1>1, <1>2, <1>3, ScoreProperties
<1>5. ~Higher(s, t)
  BY <1>4, HigherOrders
<1>6. QED
  BY <1>2, <1>4, <1>5 DEF Ahead

LEMMA HydrateKeeps ==
    ASSUME RequestInv, HydrateHits
    PROVE  RequestInv'
<1> DEFINE n == request.limit
           h == Hydrate(Fused, n)
<1>1. /\ SameIndex /\ pc = "hydrate" /\ hits' = h /\ waiting' = waiting /\ found' = found
      /\ pc' = IF request.mode = "lane" THEN "lane" ELSE "done"
      /\ waiting = {}
  BY DEF HydrateHits, SameIndex, RequestInv, ListsInv
<1>2. n \in Nat /\ IsList(Fused)
  BY PoolTyped, FoundLists DEF RequestInv
<1>3. /\ h \in Seq(Answers) /\ Cardinality(Answering(Fused)) \in Nat
      /\ Len(h) = Least(n, Cardinality(Answering(Fused)))
      /\ \A j \in DOMAIN h : /\ h[j].id \in ToSet(Fused) /\ h[j].path \in Indexed
                             /\ row[h[j].path] = h[j].id
                             /\ request.mode = "similar" => h[j].path # request.source
      /\ \A j, k \in DOMAIN h : h[j].id = h[k].id => j = k
      /\ \A j, k \in DOMAIN h : j < k => \E l, m \in DOMAIN Fused :
           l < m /\ h[j].id = Fused[l] /\ h[k].id = Fused[m]
  BY <1>2, HydrateProperties DEF RequestInv
<1> HIDE DEF h, n
<1>4. RequestTyped'
  BY <1>1, <1>3 DEF RequestInv, RequestTyped, SameIndex, Stages
<1>5. /\ Indexed' = Indexed /\ Corpus' = Corpus /\ (PoolHoldsAll' <=> PoolHoldsAll)
      /\ \A r \in Rankers : Scanned(r)' = Scanned(r)
      /\ row' = row /\ changes' = changes /\ request' = request
  BY <1>1, IndexStays DEF SameIndex
<1>6. ListsInv'
  <2>1. \A r \in Asked(request.mode) : r \in Rankers
    BY DEF Asked, Rankers
  <2>2. QED
    BY <1>1, <1>5, <2>1 DEF RequestInv, ListsInv
<1>7. HitsInv'
  <2>1. ASSUME changes = 0, NEW j \in DOMAIN h
        PROVE  h[j].path \in Corpus
    <3>1. h[j].id \in {row[p] : p \in FusedFiles}
      BY <1>1, <1>3, <2>1, FusedRows
    <3>2. PICK p \in FusedFiles : row[p] = h[j].id
      BY <3>1
    <3>3. /\ FusedFiles \in SUBSET Indexed
          /\ Corpus = {q \in FusedFiles : request.mode = "similar" => q # request.source}
      BY CorpusFused DEF RequestInv
    <3>4. p = h[j].path
      BY <1>3, <3>2, <3>3 DEF RequestInv, RequestTyped, Indexed
    <3>5. QED
      BY <1>3, <3>2, <3>3, <3>4
  <2>2. \A j \in DOMAIN hits' :
          /\ request'.mode = "similar" => hits'[j].path # request'.source
          /\ changes' = 0 => hits'[j].path \in Corpus' /\ hits'[j].id = row'[hits'[j].path]
    BY <1>1, <1>3, <1>5, <2>1
  <2>3. pc' # "source" /\ (pc' = "lane" => request'.mode = "lane") /\ pc' \in {"lane", "done"}
    BY <1>1, <1>5
  <2>4. QED
    BY <2>2, <2>3 DEF HitsInv
<1>8. HitsAreDistinct'
  BY <1>1, <1>3 DEF HitsAreDistinct
<1>9. PageInv'
  <2>1. Len(h) <= n
    BY <1>2, <1>3 DEF Least
  <2>2. ASSUME PoolHoldsAll PROVE Len(h) = Least(n, Cardinality(Corpus))
    <3>1. /\ FusedFiles \in SUBSET Indexed
          /\ Corpus = {q \in FusedFiles : request.mode = "similar" => q # request.source}
      BY CorpusFused DEF RequestInv
    <3>2. ToSet(Fused) = {row[p] : p \in FusedFiles}
      BY <1>1, <2>2, FusedRows DEF PoolHoldsAll
    <3>3. Cardinality(Answering(Fused)) = Cardinality(Corpus)
      BY <1>2, <3>1, <3>2, AllAnswer DEF RequestInv
    <3>4. QED
      BY <1>3, <3>3
  <2>3. QED
    BY <1>1, <1>5, <2>1, <2>2 DEF PageInv, n
<1>10. FoundByBothFirst'
  <2> DEFINE Both == ToSet(found["vec"]) \cap ToSet(found["fts"])
  <2>1. ASSUME request.mode \in {"blended", "similar"}, NEW j \in DOMAIN h, NEW k \in DOMAIN h,
               h[j].id \in Both, h[k].id \notin Both
        PROVE  j < k
    <3>1. j # k /\ j \in Nat /\ k \in Nat
      BY <1>3, <2>1, LenProperties
    <3>2. ASSUME k < j PROVE FALSE
      <4>1. PICK l \in DOMAIN Fused :
              \E m \in DOMAIN Fused : l < m /\ h[k].id = Fused[l] /\ h[j].id = Fused[m]
        BY <1>3, <3>2
      <4>2. PICK m \in DOMAIN Fused : l < m /\ h[k].id = Fused[l] /\ h[j].id = Fused[m]
        BY <4>1
      <4>3. ~(Fused[m] \in Both /\ Fused[l] \notin Both)
        BY <2>1, <4>2, BothAheadOfOne
      <4>4. QED
        BY <2>1, <4>2, <4>3
    <3>3. QED
      BY <3>1, <3>2
  <2>2. QED
    BY <1>1, <1>5, <2>1 DEF FoundByBothFirst
<1>11. QED
  BY <1>4, <1>6, <1>7, <1>8, <1>9, <1>10 DEF RequestInv

---------------------------------------------------------------------------
(* The media lane's second lookup.                                         *)

\* As many of the last of a set of numbers as one likes.
LEMMA LastOnes ==
    ASSUME NEW S, S \subseteq Nat, IsFiniteSet(S), NEW n \in 0..Cardinality(S)
    PROVE  Cardinality({k \in S : Cardinality({m \in S : m >= k}) <= n}) = n
<1>1. PICK R : \A x, y \in S : <<x, y>> \in R <=> x > y
  <2>1. \A x, y \in S : <<x, y>> \in {p \in S \X S : p[1] > p[2]} <=> x > y
    OBVIOUS
  <2>2. QED
    BY <2>1
<1>2. IsTotalOrder(R, S)
  BY <1>1 DEF IsTotalOrder
<1>3. \A k \in S : RankIn(R, S, k) = Cardinality({m \in S : m >= k})
  <2> SUFFICES ASSUME NEW k \in S
               PROVE  {y \in S : y = k \/ <<y, k>> \in R} = {m \in S : m >= k}
    BY DEF RankIn
  <2>1. \A m \in S : m >= k <=> m = k \/ <<m, k>> \in R
    BY <1>1
  <2>2. QED
    BY <2>1
<1> DEFINE L == {k \in S : RankIn(R, S, k) <= n}
           f == [k \in L |-> RankIn(R, S, k)]
<1>4. /\ \A x \in S : RankIn(R, S, x) \in 1..Cardinality(S)
      /\ \A x, y \in S : <<x, y>> \in R <=> RankIn(R, S, x) < RankIn(R, S, y)
      /\ \A j \in 1..Cardinality(S) : \E x \in S : RankIn(R, S, x) = j
  BY ONLY <1>2, IsFiniteSet(S), RankReaches
<1>5. Cardinality(S) \in Nat /\ n \in Nat /\ n <= Cardinality(S)
  BY FS_CardinalityType
<1>6. \A x, y \in S : RankIn(R, S, x) = RankIn(R, S, y) => x = y
  <2> SUFFICES ASSUME NEW x \in S, NEW y \in S, RankIn(R, S, x) = RankIn(R, S, y) PROVE x = y
    OBVIOUS
  <2>1. <<x, y>> \notin R /\ <<y, x>> \notin R
    BY <1>4, <1>5
  <2>2. QED
    BY <1>2, <2>1 DEF IsTotalOrder
<1>7. \A k \in L : f[k] \in 1..n /\ k \in S
  BY <1>4, <1>5
<1>8. \A j \in 1..n : \E k \in L : f[k] = j
  <2> SUFFICES ASSUME NEW j \in 1..n PROVE \E k \in L : f[k] = j
    OBVIOUS
  <2>1. PICK x \in S : RankIn(R, S, x) = j
    BY <1>4, <1>5
  <2>2. x \in L
    BY <1>5, <2>1
  <2>3. QED
    BY <2>1, <2>2
<1>9. f \in [L -> 1..n] /\ \A x, y \in L : f[x] = f[y] => x = y
  BY <1>6, <1>7
<1>10. IsFiniteSet(L)
  BY FS_Subset
<1> HIDE DEF f, L
<1>11. f \in Bijection(L, 1..n)
  BY <1>8, <1>9, Fun_IsBij, Fun_IsSurj
<1>12. Cardinality(L) = Cardinality(1..n)
  BY <1>10, <1>11, FS_Bijection DEF ExistsBijection
<1>13. Cardinality(1..n) = n
  <2>1. n \in Int /\ 1 \in Int
    BY <1>5
  <2>2. Cardinality(1..n) = IF 1 > n THEN 0 ELSE n - 1 + 1
    BY ONLY <2>1, FS_Interval
  <2>3. QED
    BY <1>5, <2>2
<1>14. L = {k \in S : Cardinality({m \in S : m >= k}) <= n}
  BY <1>3 DEF L
<1>15. QED
  BY <1>12, <1>13, <1>14

\* What is in an answer after the media came in: hits it had, and new ones.
LEMMA InsertProperties ==
    ASSUME RequestTyped, HitsAreDistinct, Len(hits) <= request.limit,
           NEW new \in Seq(Answers),
           \A j, k \in DOMAIN new : new[j].id = new[k].id => j = k,
           \A j \in DOMAIN new, k \in DOMAIN hits : new[j].id # hits[k].id
    PROVE  /\ InsertMediaLane(new) \in Seq(Answers)
           /\ \A m \in DOMAIN InsertMediaLane(new) :
                \/ \E k \in DOMAIN hits : InsertMediaLane(new)[m] = hits[k]
                \/ \E k \in DOMAIN new : InsertMediaLane(new)[m] = new[k]
           /\ \A l, m \in DOMAIN InsertMediaLane(new) :
                InsertMediaLane(new)[l].id = InsertMediaLane(new)[m].id => l = m
           /\ Len(InsertMediaLane(new)) <= request.limit
           /\ new = <<>> \/ Len(hits) = request.limit =>
                Len(InsertMediaLane(new)) = Len(hits)
<1> DEFINE texts == {k \in DOMAIN hits : IsNote(hits[k])}
           free == request.limit - Len(hits)
           room == Least(request.slots, free + Cardinality(texts))
           admitted == First(new, room)
           gone == {k \in texts : Cardinality({m \in texts : m >= k}) + free <= Len(admitted)}
           stay == Kept(hits, DOMAIN hits \ gone)
           all == InsertMediaLane(new)
<1>1. /\ DOMAIN hits = 1..Len(hits) /\ Len(hits) \in Nat /\ hits \in Seq(Answers)
      /\ DOMAIN new = 1..Len(new) /\ Len(new) \in Nat
  BY LenProperties DEF RequestTyped
<1>2. request.limit \in Nat /\ request.slots \in Nat /\ free \in Nat
  BY <1>1, PoolTyped
<1>3. texts \subseteq DOMAIN hits /\ texts \subseteq Nat /\ gone \subseteq texts
  BY <1>1
<1>4. IsFiniteSet(texts) /\ Cardinality(texts) \in Nat
  <2>1. 1 \in Int /\ Len(hits) \in Int
    BY <1>1
  <2>2. IsFiniteSet(DOMAIN hits)
    BY <1>1, <2>1, FS_Interval
  <2>3. QED
    BY <1>3, <2>2, FS_Subset, FS_CardinalityType
<1>5. all = stay \o admitted
  BY DEF InsertMediaLane
<1>6. room \in Nat /\ room <= free + Cardinality(texts)
  BY <1>2, <1>4 DEF Least
<1> HIDE DEF texts, free, room, stay, admitted, all
<1>7. /\ admitted \in Seq(Answers) /\ Len(admitted) = Least(room, Len(new))
      /\ Len(admitted) \in Nat /\ Len(admitted) <= room /\ Len(admitted) <= Len(new)
      /\ \A j \in 1..Len(admitted) : admitted[j] = new[j]
  <2>1. admitted = First(new, room) /\ new \in Seq(Answers)
    BY DEF admitted
  <2>2. /\ First(new, room) \in Seq(Answers) /\ Len(First(new, room)) = Least(room, Len(new))
        /\ Least(room, Len(new)) \in Nat /\ Least(room, Len(new)) <= room
        /\ Least(room, Len(new)) <= Len(new)
        /\ \A j \in 1..Least(room, Len(new)) : First(new, room)[j] = new[j]
    BY ONLY <1>6, <2>1, FirstProperties
  <2>3. QED
    BY <2>1, <2>2
<1>8. \A k \in texts : /\ Cardinality({m \in texts : m >= k}) \in Nat
                       /\ Cardinality({m \in texts : m >= k}) # 0
  <2> SUFFICES ASSUME NEW k \in texts
               PROVE  /\ Cardinality({m \in texts : m >= k}) \in Nat
                      /\ Cardinality({m \in texts : m >= k}) # 0
    OBVIOUS
  <2>1. {m \in texts : m >= k} \in SUBSET texts /\ k \in {m \in texts : m >= k}
    BY <1>3
  <2>2. QED
    BY <1>4, <2>1, FS_Subset, FS_CardinalityType, FS_EmptySet
<1>9. /\ Cardinality(gone) \in Nat
      /\ Cardinality(gone) = IF Len(admitted) > free THEN Len(admitted) - free ELSE 0
  <2>1. CASE Len(admitted) > free
    <3> DEFINE d == Len(admitted) - free
    <3>1. d \in 0..Cardinality(texts)
      BY <1>2, <1>4, <1>6, <1>7, <2>1
    <3>2. Cardinality({k \in texts : Cardinality({m \in texts : m >= k}) <= d}) = d
      BY ONLY <1>3, <1>4, <3>1, LastOnes
    <3>3. \A k \in texts : Cardinality({m \in texts : m >= k}) + free <= Len(admitted)
                           <=> Cardinality({m \in texts : m >= k}) <= d
      BY <1>2, <1>7, <1>8
    <3>4. gone = {k \in texts : Cardinality({m \in texts : m >= k}) <= d}
      BY <3>3
    <3> HIDE DEF gone
    <3>5. QED
      BY <1>2, <1>7, <2>1, <3>1, <3>2, <3>4
  <2>2. CASE ~(Len(admitted) > free)
    <3>1. \A k \in texts : ~(Cardinality({m \in texts : m >= k}) + free <= Len(admitted))
      BY <1>2, <1>7, <1>8, <2>2
    <3>2. gone = {}
      BY <3>1
    <3> HIDE DEF gone
    <3>3. QED
      BY <2>2, <3>2, FS_EmptySet
  <2>3. QED
    BY <2>1, <2>2
<1> HIDE DEF gone
<1> DEFINE E == DOMAIN hits \ gone
<1>10. Cardinality(E) = Len(hits) - Cardinality(gone)
  <2>1. 1 \in Int /\ Len(hits) \in Int
    BY <1>1
  <2>2. /\ IsFiniteSet(1..Len(hits))
        /\ Cardinality(1..Len(hits)) = IF 1 > Len(hits) THEN 0 ELSE Len(hits) - 1 + 1
    BY ONLY <2>1, FS_Interval
  <2>3. IsFiniteSet(DOMAIN hits) /\ Cardinality(DOMAIN hits) = Len(hits)
    BY <1>1, <2>2
  <2>4. IsFiniteSet(gone) /\ gone \subseteq DOMAIN hits
    BY <1>3, <1>4, FS_Subset
  <2>5. Cardinality(DOMAIN hits \ gone) = Cardinality(DOMAIN hits) - Cardinality(DOMAIN hits \cap gone)
    BY ONLY <2>3, <2>4, FS_Difference
  <2>6. DOMAIN hits \cap gone = gone
    BY <2>4
  <2>7. QED
    BY <2>3, <2>5, <2>6
<1>11. /\ stay \in Seq(Answers) /\ Len(stay) = Cardinality(E) /\ Cardinality(E) \in Nat
       /\ \A j \in 1..Cardinality(E) : stay[j] = hits[Place(E, j)] /\ Place(E, j) \in E
       /\ \A i, j \in 1..Cardinality(E) : i < j => Place(E, i) < Place(E, j)
  <2>1. stay = Kept(hits, E) /\ E \subseteq DOMAIN hits
    BY DEF stay
  <2> HIDE DEF E
  <2>2. QED
    BY ONLY <1>1, <2>1, KeptProperties
<1>12. \A j \in 1..Len(stay) : Place(E, j) \in DOMAIN hits /\ Place(E, j) \in Nat
  <2>1. \A m \in E : m \in DOMAIN hits /\ m \in Nat
    BY <1>1
  <2> HIDE DEF E
  <2>2. QED
    BY <1>11, <2>1
<1> HIDE DEF E
<1>13. /\ all \in Seq(Answers) /\ Len(all) = Len(stay) + Len(admitted)
       /\ \A m \in 1..(Len(stay) + Len(admitted)) :
            all[m] = IF m <= Len(stay) THEN stay[m] ELSE admitted[m - Len(stay)]
  <2>1. /\ stay \o admitted \in Seq(Answers)
        /\ Len(stay \o admitted) = Len(stay) + Len(admitted)
        /\ \A m \in 1..(Len(stay) + Len(admitted)) :
             (stay \o admitted)[m] = IF m <= Len(stay) THEN stay[m] ELSE admitted[m - Len(stay)]
    BY ONLY <1>7, <1>11, ConcatProperties
  <2>2. QED
    BY <1>5, <2>1
<1>14. \A m \in DOMAIN all :
         /\ m \in Nat
         /\ m <= Len(stay) => m \in 1..Len(stay) /\ all[m] = hits[Place(E, m)]
         /\ m > Len(stay) => m - Len(stay) \in 1..Len(admitted) /\ m - Len(stay) \in DOMAIN new
                             /\ all[m] = new[m - Len(stay)]
  <2> SUFFICES ASSUME NEW m \in DOMAIN all
               PROVE  /\ m \in Nat
                      /\ m <= Len(stay) => m \in 1..Len(stay) /\ all[m] = hits[Place(E, m)]
                      /\ m > Len(stay) =>
                           m - Len(stay) \in 1..Len(admitted) /\ m - Len(stay) \in DOMAIN new
                           /\ all[m] = new[m - Len(stay)]
    OBVIOUS
  <2>1. m \in 1..(Len(stay) + Len(admitted)) /\ Len(stay) \in Nat
    BY <1>11, <1>13, LenProperties
  <2>2. CASE m <= Len(stay)
    BY <1>11, <1>13, <2>1, <2>2
  <2>3. CASE m > Len(stay)
    <3>1. m - Len(stay) \in 1..Len(admitted) /\ all[m] = admitted[m - Len(stay)]
      BY <1>7, <1>13, <2>1, <2>3
    <3>2. QED
      BY <1>1, <1>7, <2>1, <2>3, <3>1
  <2>4. QED
    BY <1>7, <2>1, <2>2, <2>3
<1>15. \A m \in DOMAIN all : \/ \E k \in DOMAIN hits : all[m] = hits[k]
                             \/ \E k \in DOMAIN new : all[m] = new[k]
  BY <1>11, <1>12, <1>14
<1>16. ASSUME NEW l \in DOMAIN all, NEW m \in DOMAIN all, all[l].id = all[m].id
       PROVE  l = m
  <2>1. CASE l <= Len(stay) /\ m <= Len(stay)
    <3>1. Place(E, l) = Place(E, m)
      BY <1>12, <1>14, <1>16, <2>1 DEF HitsAreDistinct
    <3>2. ~(l < m) /\ ~(m < l)
      BY <1>11, <1>12, <1>14, <2>1, <3>1
    <3>3. QED
      BY <1>14, <3>2
  <2>2. CASE l > Len(stay) /\ m > Len(stay)
    <3>1. l - Len(stay) = m - Len(stay)
      BY <1>14, <1>16, <2>2
    <3>2. QED
      BY <1>11, <1>14, <3>1
  <2>3. CASE l <= Len(stay) /\ m > Len(stay)
    BY <1>12, <1>14, <1>16, <2>3
  <2>4. CASE l > Len(stay) /\ m <= Len(stay)
    BY <1>12, <1>14, <1>16, <2>4
  <2>5. QED
    BY <1>11, <1>14, <2>1, <2>2, <2>3, <2>4
<1>17. /\ Len(all) <= request.limit
       /\ new = <<>> \/ Len(hits) = request.limit => Len(all) = Len(hits)
  <2>1. Len(all) = Len(hits) - Cardinality(gone) + Len(admitted)
    BY <1>10, <1>11, <1>13
  <2>2. free = request.limit - Len(hits)
    BY DEF free
  <2>3. new = <<>> => Len(admitted) = 0
    BY <1>1, <1>7
  <2>4. QED
    BY <1>1, <1>2, <1>7, <1>9, <2>1, <2>2, <2>3
<1>18. QED
  BY <1>13, <1>15, <1>16, <1>17 DEF all

\* What the second lookup brings is new, and of rows.
LEMMA NewHitsProperties ==
    ASSUME RequestInv, NEW within
    PROVE  LET new == NewHits(MediaHits, within)
           IN /\ new \in Seq(Answers)
              /\ \A j, k \in DOMAIN new : new[j].id = new[k].id => j = k
              /\ \A j \in DOMAIN new : /\ \A k \in DOMAIN hits : new[j].id # hits[k].id
                                       /\ new[j].path \in Indexed
                                       /\ row[new[j].path] = new[j].id
<1> DEFINE ids == Fuse(found["media"], <<>>)
           media == MediaHits
           E == {k \in DOMAIN media : /\ InGate(media[k], within)
                                      /\ \A j \in DOMAIN hits : hits[j].id # media[k].id}
           new == NewHits(media, within)
<1>1. IsList(ids)
  <2>1. IsList(found["media"]) /\ IsList(<<>>)
    BY FoundLists DEF Rankers
  <2>2. QED
    BY ONLY <2>1, FuseProperties
<1>2. media = Hydrate(ids, PoolSize) /\ PoolSize \in Nat
  BY PoolTyped DEF MediaHits, RequestInv
<1> HIDE DEF ids, media
<1>3. /\ media \in Seq(Answers)
      /\ \A j \in DOMAIN media : media[j].path \in Indexed /\ row[media[j].path] = media[j].id
      /\ \A j, k \in DOMAIN media : media[j].id = media[k].id => j = k
  BY <1>1, <1>2, HydrateProperties DEF RequestInv
<1>4. /\ new = Kept(media, E) /\ E \subseteq DOMAIN media
      /\ \A m \in E : \A k \in DOMAIN hits : media[m].id # hits[k].id
  BY DEF NewHits
<1> HIDE DEF E, new
<1>5. /\ new \in Seq(Answers) /\ Len(new) = Cardinality(E) /\ Cardinality(E) \in Nat
      /\ \A j \in 1..Cardinality(E) : new[j] = media[Place(E, j)] /\ Place(E, j) \in E
      /\ \A i, j \in 1..Cardinality(E) : i < j => Place(E, i) < Place(E, j)
  BY ONLY <1>3, <1>4, KeptProperties
<1>6. DOMAIN new = 1..Cardinality(E) /\ DOMAIN media = 1..Len(media) /\ Len(media) \in Nat
  BY <1>3, <1>5, LenProperties
<1>7. \A j \in DOMAIN new : /\ \A k \in DOMAIN hits : new[j].id # hits[k].id
                            /\ new[j].path \in Indexed /\ row[new[j].path] = new[j].id
  BY <1>3, <1>4, <1>5, <1>6
<1>8. ASSUME NEW j \in DOMAIN new, NEW k \in DOMAIN new, new[j].id = new[k].id
      PROVE  j = k
  <2>1. /\ Place(E, j) \in DOMAIN media /\ Place(E, k) \in DOMAIN media
        /\ Place(E, j) = Place(E, k) /\ Place(E, j) \in Nat
    BY <1>3, <1>4, <1>5, <1>6, <1>8
  <2>2. ~(j < k) /\ ~(k < j)
    BY <1>5, <1>6, <2>1
  <2>3. QED
    BY <1>5, <1>6, <2>2
<1>9. QED
  BY <1>5, <1>7, <1>8 DEF new, media

\* When every row is in the answer, nothing is new.
LEMMA NothingNew ==
    ASSUME RequestInv, NEW within, changes = 0, Len(hits) = Cardinality(Indexed)
    PROVE  NewHits(MediaHits, within) = <<>>
<1> DEFINE new == NewHits(MediaHits, within)
           s == [k \in DOMAIN hits |-> hits[k].id]
           T == {row[p] : p \in Indexed}
<1>1. DOMAIN hits = 1..Len(hits) /\ Len(hits) \in Nat /\ \A k \in DOMAIN hits : hits[k] \in Answers
  BY LenProperties, ElementOfSeq DEF RequestInv, RequestTyped
<1>2. s \in Seq(1..MaxId) /\ DOMAIN s = DOMAIN hits /\ IsInjective(s)
  <2>1. \A k \in DOMAIN hits : hits[k].id \in 1..MaxId
    BY <1>1 DEF Answers
  <2>2. \A j, k \in DOMAIN hits : hits[j].id = hits[k].id => j = k
    BY DEF RequestInv, HitsAreDistinct
  <2>3. s \in [1..Len(hits) -> 1..MaxId] /\ \A k \in DOMAIN hits : s[k] = hits[k].id
    BY <1>1, <2>1
  <2> HIDE DEF s
  <2>4. s \in Seq(1..MaxId) /\ DOMAIN s = DOMAIN hits
    <3> DEFINE D == 1..MaxId
    <3>1. s \in [1..Len(hits) -> D] /\ Len(hits) \in Nat
      BY <1>1, <2>3
    <3> HIDE DEF D
    <3>2. s \in Seq(D)
      BY ONLY <3>1
    <3>3. QED
      BY <1>1, <3>1, <3>2 DEF D
  <2>5. IsInjective(s)
    BY <2>2, <2>3, <2>4 DEF IsInjective
  <2>6. QED
    BY <2>4, <2>5
<1>3. \A k \in DOMAIN s : s[k] \in T
  <2>1. \A k \in DOMAIN hits : hits[k].path \in Corpus /\ hits[k].id = row[hits[k].path]
    BY DEF RequestInv, HitsInv
  <2>2. Corpus \subseteq Indexed
    BY DEF Corpus
  <2>3. QED
    BY <1>2, <2>1, <2>2
<1>4. IsFiniteSet(T) /\ Cardinality(T) = Cardinality(Indexed)
  BY RowsOfFiles DEF RequestInv
<1> HIDE DEF s, T
<1>5. Cardinality({s[k] : k \in DOMAIN s}) = Cardinality(DOMAIN s)
  <2> DEFINE N == 1..MaxId
             P == DOMAIN s
  <2>1. s \in Seq(N) /\ IsInjective(s) /\ P \in SUBSET DOMAIN s
    BY ONLY <1>2
  <2> HIDE DEF N, P
  <2>2. Cardinality({s[k] : k \in P}) = Cardinality(P)
    BY ONLY <2>1, ElementsAt
  <2>3. QED
    BY ONLY <2>2 DEF P
<1>6. Cardinality(DOMAIN s) = Len(hits)
  <2>1. 1 \in Int /\ Len(hits) \in Int
    BY <1>1
  <2>2. Cardinality(1..Len(hits)) = IF 1 > Len(hits) THEN 0 ELSE Len(hits) - 1 + 1
    BY ONLY <2>1, FS_Interval
  <2>3. QED
    BY <1>1, <1>2, <2>2
<1>7. {s[k] : k \in DOMAIN s} = T
  <2> DEFINE U == {s[k] : k \in DOMAIN s}
  <2>1. U \in SUBSET T
    BY <1>3
  <2>2. Cardinality(U) = Cardinality(T)
    BY <1>4, <1>5, <1>6
  <2> HIDE DEF U
  <2>3. U = T
    BY ONLY <1>4, <2>1, <2>2, FS_Subset
  <2>4. QED
    BY <2>3 DEF U
<1>8. /\ new \in Seq(Answers)
      /\ \A j \in DOMAIN new : /\ \A k \in DOMAIN hits : new[j].id # hits[k].id
                               /\ new[j].path \in Indexed /\ row[new[j].path] = new[j].id
  BY NewHitsProperties
<1> HIDE DEF new
<1>9. DOMAIN new = {}
  <2> SUFFICES ASSUME NEW j \in DOMAIN new PROVE FALSE
    OBVIOUS
  <2>1. new[j].id \in T
    BY <1>8 DEF T
  <2>2. PICK k \in DOMAIN s : s[k] = new[j].id
    BY <1>7, <2>1
  <2>3. k \in DOMAIN hits /\ hits[k].id = new[j].id
    BY <1>2, <2>2 DEF s
  <2>4. QED
    BY <1>8, <2>3
<1>10. new = <<>>
  <2>1. Len(new) \in Nat /\ DOMAIN new = 1..Len(new)
    BY <1>8, LenProperties
  <2>2. Len(new) = 0
    BY <1>9, <2>1
  <2>3. QED
    BY <1>8, <2>2, EmptySeq
<1>11. QED
  BY <1>10 DEF new

LEMMA AddMediaKeeps ==
    ASSUME RequestInv, AddMedia
    PROVE  RequestInv'
<1>1. /\ SameIndex /\ pc = "lane" /\ pc' = "done" /\ waiting' = waiting /\ found' = found
      /\ request.mode = "lane"
  BY DEF AddMedia, SameIndex, RequestInv, HitsInv
<1>2. PICK within \in SUBSET ToSet(found["media"]) :
        hits' = InsertMediaLane(NewHits(MediaHits, within))
  BY DEF AddMedia
<1> DEFINE new == NewHits(MediaHits, within)
<1>3. /\ new \in Seq(Answers)
      /\ \A j, k \in DOMAIN new : new[j].id = new[k].id => j = k
      /\ \A j \in DOMAIN new : /\ \A k \in DOMAIN hits : new[j].id # hits[k].id
                               /\ new[j].path \in Indexed /\ row[new[j].path] = new[j].id
  BY NewHitsProperties
<1>4. hits' = InsertMediaLane(new)
  BY <1>2
<1>5. changes = 0 /\ Len(hits) = Cardinality(Indexed) => new = <<>>
  BY NothingNew
<1> HIDE DEF new
<1>6. Len(hits) <= request.limit /\ HitsAreDistinct /\ RequestTyped
  BY DEF RequestInv, PageInv
<1>7. /\ hits' \in Seq(Answers)
      /\ \A m \in DOMAIN hits' : \/ \E k \in DOMAIN hits : hits'[m] = hits[k]
                                 \/ \E k \in DOMAIN new : hits'[m] = new[k]
      /\ \A l, m \in DOMAIN hits' : hits'[l].id = hits'[m].id => l = m
      /\ Len(hits') <= request.limit
      /\ new = <<>> \/ Len(hits) = request.limit => Len(hits') = Len(hits)
  BY <1>3, <1>4, <1>6, InsertProperties
<1>8. /\ Indexed' = Indexed /\ Corpus' = Corpus /\ (PoolHoldsAll' <=> PoolHoldsAll)
      /\ \A r \in Rankers : Scanned(r)' = Scanned(r)
      /\ row' = row /\ changes' = changes /\ request' = request
  BY <1>1, IndexStays DEF SameIndex
<1>9. Corpus = Indexed
  BY <1>1 DEF Corpus
<1>10. RequestTyped'
  BY <1>1, <1>6, <1>7, <1>8 DEF RequestTyped, Stages
<1>11. ListsInv'
  BY <1>1, <1>8 DEF RequestInv, ListsInv
<1>12. HitsInv'
  <2>1. \A m \in DOMAIN hits' :
          changes' = 0 => hits'[m].path \in Corpus' /\ hits'[m].id = row'[hits'[m].path]
    BY <1>3, <1>7, <1>8, <1>9 DEF RequestInv, HitsInv
  <2>2. request'.mode # "similar"
    BY <1>1, <1>8
  <2>3. QED
    BY <1>1, <2>1, <2>2 DEF HitsInv
<1>13. HitsAreDistinct'
  BY <1>7 DEF HitsAreDistinct
<1>14. PageInv'
  <2>1. ASSUME PoolHoldsAll PROVE Len(hits') = Least(request.limit, Cardinality(Corpus))
    <3>1. Len(hits) = Least(request.limit, Cardinality(Indexed)) /\ changes = 0
      BY <1>1, <1>9, <2>1 DEF RequestInv, PageInv, PoolHoldsAll
    <3>2. Len(hits) = request.limit \/ Len(hits) = Cardinality(Indexed)
      BY <3>1 DEF Least
    <3>3. Len(hits') = Len(hits)
      BY <1>5, <1>7, <3>1, <3>2
    <3>4. QED
      BY <1>9, <3>1, <3>3
  <2>2. QED
    BY <1>7, <1>8, <2>1 DEF PageInv
<1>15. FoundByBothFirst'
  BY <1>1, <1>8 DEF FoundByBothFirst
<1>16. QED
  BY <1>10, <1>11, <1>12, <1>13, <1>14, <1>15 DEF RequestInv

---------------------------------------------------------------------------
(* The request's invariant, and what follows.                              *)

LEMMA RequestStarts == Init => RequestInv
<1> SUFFICES ASSUME Init PROVE RequestInv
  OBVIOUS
<1>1. /\ row \in [Paths -> 0..MaxId] /\ changes = 0 /\ request \in Requests
      /\ \A p, q \in Paths : row[p] = row[q] => p = q \/ row[p] = 0
      /\ pc = "idle" /\ waiting = {} /\ found = [k \in Rankers |-> <<>>] /\ hits = <<>>
  BY DEF Init
<1>2. \A r \in Rankers : found[r] = <<>>
  BY <1>1
<1>3. /\ <<>> \in Seq(1..MaxId) /\ <<>> \in Seq(Answers) /\ DOMAIN <<>> = {} /\ Len(<<>>) = 0
      /\ IsInjective(<<>>) /\ ToSet(<<>>) = {}
  BY DEF IsInjective, ToSet
<1>4. RequestTyped
  BY <1>1, <1>3 DEF RequestTyped, Stages
<1>5. ListsInv
  <2>1. \A r \in Rankers : IsInjective(found[r]) /\ Len(found[r]) <= 50 /\ ToSet(found[r]) = {}
    BY <1>2, <1>3
  <2>2. QED
    BY <1>1, <2>1 DEF ListsInv
<1>6. HitsInv /\ HitsAreDistinct /\ FoundByBothFirst
  BY <1>1, <1>3 DEF HitsInv, HitsAreDistinct, FoundByBothFirst
<1>7. PageInv
  BY <1>1, <1>3, <1>4, PoolTyped DEF PageInv
<1>8. QED
  BY <1>4, <1>5, <1>6, <1>7 DEF RequestInv

LEMMA RequestStep == RequestInv /\ [Next]_vars => RequestInv'
<1> SUFFICES ASSUME RequestInv, [Next]_vars PROVE RequestInv'
  OBVIOUS
<1>1. CASE Commit
  BY <1>1, CommitKeeps
<1>2. CASE EmbedQuery \/ AskSimilar \/ ReadSource \/ StoreError
  BY <1>2, AsksKeep
<1>3. CASE Rank
  BY <1>3, RankKeeps
<1>4. CASE HydrateHits
  BY <1>4, HydrateKeeps
<1>5. CASE AddMedia
  BY <1>5, AddMediaKeeps
<1>6. CASE UNCHANGED vars
  <2>1. /\ row' = row /\ changes' = changes /\ request' = request /\ pc' = pc
        /\ waiting' = waiting /\ found' = found /\ hits' = hits
    BY <1>6 DEF vars
  <2>2. /\ Indexed' = Indexed /\ Corpus' = Corpus /\ (PoolHoldsAll' <=> PoolHoldsAll)
        /\ \A r \in Rankers : Scanned(r)' = Scanned(r)
    BY <2>1, IndexStays DEF SameIndex
  <2>3. RequestTyped'
    BY <2>1 DEF RequestInv, RequestTyped
  <2>4. ListsInv'
    <3>1. \A r \in Asked(request.mode) : r \in Rankers
      BY DEF Asked, Rankers
    <3>2. QED
      BY <2>1, <2>2, <3>1 DEF RequestInv, ListsInv
  <2>5. HitsInv' /\ PageInv'
    BY <2>1, <2>2 DEF RequestInv, HitsInv, PageInv
  <2>6. HitsAreDistinct' /\ FoundByBothFirst'
    BY <2>1 DEF RequestInv, HitsAreDistinct, FoundByBothFirst
  <2>7. QED
    BY <2>3, <2>4, <2>5, <2>6 DEF RequestInv
<1>7. QED
  BY <1>1, <1>2, <1>3, <1>4, <1>5, <1>6 DEF Next

\* The inductive invariant of a request: its lists and its hits are of rows, and
\* while nothing is committed of the rows of the corpus (search_with_options,
\* similar).
THEOREM RequestInductive == Spec => []RequestInv
<1>1. Init => RequestInv
  BY RequestStarts
<1>2. RequestInv /\ [Next]_vars => RequestInv'
  BY RequestStep
<1>3. QED
  BY <1>1, <1>2, PTL DEF Spec

\* No chunk is in an answer twice, whatever is committed between the lookup of
\* the hits and that of the media lane (search_with_options).
THEOREM AnswersAreDistinct == Spec => []HitsAreDistinct
<1>1. RequestInv => HitsAreDistinct
  BY DEF RequestInv
<1>2. QED
  BY <1>1, RequestInductive, PTL

\* An answer is of the corpus asked for, and never of the file one asks about,
\* whatever ids it is given meanwhile (hydrate, search_media_vec).
THEOREM AnswersAreOfTheCorpus == Spec => []AnswersTheCorpus
<1>1. RequestInv => AnswersTheCorpus
  BY DEF RequestInv, HitsInv, AnswersTheCorpus, Quiet
<1>2. QED
  BY <1>1, RequestInductive, PTL

\* A page is never too long, and full whenever the pool holds every chunk and
\* nothing is committed (hydrate, insert_media_lane).
THEOREM PagesAreFull == Spec => []PageIsFull
<1>1. RequestInv => PageIsFull
  BY DEF RequestInv, PageInv, PageIsFull, PoolHoldsAll, Quiet
<1>2. QED
  BY <1>1, RequestInductive, PTL

\* For every limit the code admits, what both rankers found is ahead of what
\* one of them found (fuse_rrf_ranked).
THEOREM BothComeFirst == Spec => []FoundByBothFirst
<1>1. RequestInv => FoundByBothFirst
  BY DEF RequestInv
<1>2. QED
  BY <1>1, RequestInductive, PTL

---------------------------------------------------------------------------
(* The scan.                                                               *)

Entry(id) == <<distance[id], id>>
Passed == Media \ ToSet(rows)

RowsTyped ==
    /\ candidate_k \in Nat \ {0}
    /\ Media \subseteq MediaIds
    /\ distance \in [Media -> Nat]

\* The heap holds the nearest of what was scanned: a row it has not comes after
\* every row it has.
HeapInv ==
    /\ rows \in Seq(Media) /\ IsInjective(rows)
    /\ heap \subseteq {Entry(id) : id \in Passed}
    /\ Cardinality(heap) = Least(candidate_k, Cardinality(Passed))
    /\ \A a \in heap, id \in Passed : Entry(id) \notin heap => Closer(a, Entry(id))

LEMMA MediaFinite ==
    ASSUME RowsTyped
    PROVE  /\ IsFiniteSet(Media) /\ Media \subseteq Nat
           /\ \A T \in SUBSET Media : IsFiniteSet(T) /\ Cardinality(T) \in Nat
<1>1. IsFiniteSet(MediaIds)
  BY LaneAssumption, FS_Union DEF MediaIds
<1>2. IsFiniteSet(Media)
  BY <1>1, FS_Subset DEF RowsTyped
<1>3. QED
  BY <1>2, FS_Subset, FS_CardinalityType, LaneAssumption DEF RowsTyped, MediaIds

\* The entries are ordered by distance and id, and there are as many as rows.
LEMMA EntriesOrdered ==
    ASSUME RowsTyped
    PROVE  /\ \A a, b \in Media : Entry(a) = Entry(b) => a = b
           /\ \A a \in Media : Entry(a)[1] = distance[a] /\ Entry(a)[2] = a
           /\ \A a, b \in Media :
                a = b \/ Closer(Entry(a), Entry(b)) \/ Closer(Entry(b), Entry(a))
           /\ \A a, b, c \in Media :
                Closer(Entry(a), Entry(b)) /\ Closer(Entry(b), Entry(c))
                  => Closer(Entry(a), Entry(c))
           /\ \A a \in Media : ~Closer(Entry(a), Entry(a))
<1>1. \A a \in Media : a \in Nat /\ distance[a] \in Nat
  BY MediaFinite DEF RowsTyped
<1>2. QED
  BY <1>1 DEF Entry, Closer

LEMMA EntriesCounted ==
    ASSUME RowsTyped, NEW T, T \subseteq Media
    PROVE  /\ IsFiniteSet({Entry(id) : id \in T})
           /\ Cardinality({Entry(id) : id \in T}) = Cardinality(T)
<1> DEFINE E == {Entry(id) : id \in T}
           f == [id \in T |-> Entry(id)]
<1>1. IsFiniteSet(T)
  BY MediaFinite
<1>2. \A x, y \in T : f[x] = f[y] => x = y
  BY EntriesOrdered
<1>3. f \in [T -> E] /\ \A e \in E : \E x \in T : f[x] = e
  OBVIOUS
<1> HIDE DEF E, f
<1>4. f \in Bijection(T, E)
  BY <1>2, <1>3, Fun_IsBij, Fun_IsSurj
<1>5. QED
  BY <1>1, <1>4, FS_Bijection DEF ExistsBijection, E

\* What a heap of entries is ordered by is a total order.
LEMMA HeapOrder ==
    ASSUME RowsTyped, heap \subseteq {Entry(id) : id \in Media}
    PROVE  /\ IsFiniteSet(heap)
           /\ IsTotalOrder({p \in heap \X heap : Closer(p[1], p[2])}, heap)
<1> DEFINE R == {p \in heap \X heap : Closer(p[1], p[2])}
<1>1. IsFiniteSet(heap)
  BY EntriesCounted, FS_Subset
<1>2. \A a, b \in heap : <<a, b>> \in R <=> Closer(a, b)
  OBVIOUS
<1>3. \A a \in heap : \E id \in Media : a = Entry(id)
  OBVIOUS
<1> HIDE DEF R
<1>4. /\ \A a, b \in heap : a = b \/ Closer(a, b) \/ Closer(b, a)
      /\ \A a, b, c \in heap : Closer(a, b) /\ Closer(b, c) => Closer(a, c)
      /\ \A a \in heap : ~Closer(a, a)
  BY <1>3, EntriesOrdered
<1>5. IsTotalOrder(R, heap)
  BY <1>2, <1>4 DEF IsTotalOrder
<1>6. QED
  BY <1>1, <1>5 DEF R

\* The root of the heap comes after all the rest.
LEMMA TopIsLast ==
    ASSUME RowsTyped, heap \subseteq {Entry(id) : id \in Media}, heap # {}
    PROVE  Furthest \in heap /\ \A b \in heap \ {Furthest} : Closer(b, Furthest)
<1> DEFINE R == {p \in heap \X heap : Closer(p[1], p[2])}
<1>1. /\ \A a, b \in heap : <<a, b>> \in R <=> Closer(a, b)
      /\ IsTotalOrder(R, heap)
  BY HeapOrder
<1> HIDE DEF R
<1>2. IsFiniteSet(heap) /\ Cardinality(heap) \in Nat \ {0}
  BY HeapOrder, FS_CardinalityType, FS_EmptySet
<1>3. PICK a \in heap : RankIn(R, heap, a) = Cardinality(heap)
  BY <1>1, <1>2, RankReaches
<1>4. \A b \in heap : RankIn(R, heap, b) \in 1..Cardinality(heap)
  BY <1>1, <1>2, RankReaches
<1>5. \A b \in heap : <<a, b>> \in R <=> RankIn(R, heap, a) < RankIn(R, heap, b)
  BY <1>1, <1>2, RankReaches
<1>6. \A b \in heap : ~Closer(a, b)
  <2>1. \A b \in heap : ~(RankIn(R, heap, a) < RankIn(R, heap, b))
    BY <1>2, <1>3, <1>4
  <2>2. QED
    BY <1>1, <1>5, <2>1
<1>7. \A b \in heap \ {a} : Closer(b, a)
  BY <1>1, <1>6 DEF IsTotalOrder
<1>8. QED
  BY <1>7 DEF Furthest

LEMMA ScanKeeps ==
    ASSUME RowsTyped, HeapInv, Scan
    PROVE  RowsTyped' /\ HeapInv'
<1> DEFINE r == Head(rows)
           new == Entry(r)
<1>1. rows # <<>> /\ rows' = Tail(rows) /\ candidate_k' = candidate_k /\ distance' = distance
  BY DEF Scan
<1>2. /\ Cardinality(heap) < candidate_k => heap' = heap \cup {new}
      /\ ~(Cardinality(heap) < candidate_k) /\ Cardinality(heap) >= candidate_k =>
           heap' = IF Closer(new, Furthest) THEN (heap \ {Furthest}) \cup {new} ELSE heap
  <2>1. heap' = CASE Cardinality(heap) < candidate_k -> heap \cup {new}
                  [] Cardinality(heap) >= candidate_k /\ Closer(new, Furthest) ->
                        (heap \ {Furthest}) \cup {new}
                  [] OTHER -> heap
    BY DEF Scan, Entry
  <2>2. Cardinality(heap) \in Nat /\ candidate_k \in Nat
    <3>1. heap \subseteq {Entry(id) : id \in Media}
      BY DEF HeapInv, Passed
    <3>2. QED
      BY <3>1, HeapOrder, FS_CardinalityType DEF RowsTyped
  <2> HIDE DEF new
  <2>3. CASE Cardinality(heap) < candidate_k
    BY <2>1, <2>2, <2>3
  <2>4. CASE ~(Cardinality(heap) < candidate_k) /\ Closer(new, Furthest)
    BY <2>1, <2>2, <2>4
  <2>5. CASE ~(Cardinality(heap) < candidate_k) /\ ~Closer(new, Furthest)
    BY <2>1, <2>2, <2>5
  <2>6. QED
    BY <2>3, <2>4, <2>5
<1>3. RowsTyped' /\ Media' = Media
  BY <1>1 DEF RowsTyped, Media
<1>4. rows' \in Seq(Media) /\ IsInjective(rows') /\ ToSet(rows') = ToSet(rows) \ {r} /\ r \in ToSet(rows)
  <2>1. /\ rows \in Seq(Media) /\ IsInjective(rows)
        /\ Len(rows) \in Nat \ {0} /\ DOMAIN rows = 1..Len(rows)
    BY <1>1, LenProperties, EmptySeq DEF HeapInv
  <2>2. /\ Tail(rows) \in Seq(Media) /\ Len(Tail(rows)) = Len(rows) - 1
        /\ \A m \in 1..(Len(rows) - 1) : Tail(rows)[m] = rows[m + 1]
    BY <1>1, <2>1, HeadTailProperties
  <2>3. DOMAIN Tail(rows) = 1..(Len(rows) - 1)
    BY <2>2, LenProperties
  <2>4. r = rows[1]
    BY <1>1, <2>1
  <2>5. IsInjective(Tail(rows))
    BY <2>1, <2>2, <2>3 DEF IsInjective
  <2>6. \A m \in 1..Len(rows) : m # 1 =>
          rows[m] # r /\ rows[m] = Tail(rows)[m - 1] /\ m - 1 \in 1..(Len(rows) - 1)
    BY <2>1, <2>2, <2>4 DEF IsInjective
  <2>7. ToSet(Tail(rows)) = ToSet(rows) \ {r}
    <3>1. \A x \in ToSet(Tail(rows)) : x \in ToSet(rows) /\ x # r
      <4>1. \A m \in 1..(Len(rows) - 1) :
              m + 1 \in 1..Len(rows) /\ m + 1 # 1 /\ Tail(rows)[m] = rows[m + 1]
        BY <2>1, <2>2
      <4>2. QED
        BY <2>1, <2>3, <2>6, <4>1 DEF ToSet
    <3>2. \A x \in ToSet(rows) : x # r => x \in ToSet(Tail(rows))
      <4>1. SUFFICES ASSUME NEW x \in ToSet(rows), x # r PROVE x \in ToSet(Tail(rows))
        OBVIOUS
      <4>2. PICK m \in 1..Len(rows) : x = rows[m]
        BY <2>1 DEF ToSet
      <4>3. m - 1 \in DOMAIN Tail(rows) /\ x = Tail(rows)[m - 1]
        BY <2>3, <2>4, <2>6, <4>1, <4>2
      <4>4. QED
        BY <4>3 DEF ToSet
    <3>3. QED
      BY <3>1, <3>2
  <2>8. r \in ToSet(rows)
    BY <2>1, <2>4 DEF ToSet
  <2>9. QED
    BY <1>1, <2>2, <2>5, <2>7, <2>8
<1>5. r \in Media /\ r \notin Passed
  <2>1. ToSet(rows) \subseteq Media
    BY LenProperties, ElementOfSeq DEF HeapInv, ToSet
  <2>2. QED
    BY <1>4, <2>1 DEF Passed
<1>6. Media' = Media /\ Passed' = Passed \cup {r} /\ \A id : Entry(id)' = Entry(id)
  BY <1>1, <1>3, <1>4, <1>5 DEF Passed, Entry
<1>7. /\ Passed \subseteq Media /\ IsFiniteSet(Passed) /\ Cardinality(Passed) \in Nat
      /\ Cardinality(Passed') = Cardinality(Passed) + 1
  BY <1>5, <1>6, MediaFinite, FS_AddElement DEF Passed
<1>8. heap \subseteq {Entry(id) : id \in Media} /\ IsFiniteSet(heap) /\ Cardinality(heap) \in Nat
  <2>1. IsFiniteSet({Entry(id) : id \in Passed})
    BY <1>7, EntriesCounted
  <2>2. heap \in SUBSET {Entry(id) : id \in Passed}
    BY DEF HeapInv
  <2>3. IsFiniteSet(heap)
    BY <2>1, <2>2, FS_Subset
  <2>4. Cardinality(heap) \in Nat
    BY <2>3, FS_CardinalityType
  <2>5. QED
    BY <1>7, <2>2, <2>3, <2>4
<1>9. new \notin heap
  BY <1>5, <1>7, EntriesOrdered DEF HeapInv
<1>10. CASE Cardinality(heap) < candidate_k
  <2>1. heap = {Entry(id) : id \in Passed}
    <3>1. Cardinality(heap) = Cardinality(Passed)
      BY <1>7, <1>10 DEF HeapInv, Least, RowsTyped
    <3>2. QED
      BY <1>7, <3>1, EntriesCounted, FS_Subset DEF HeapInv
  <2>2. heap' = {Entry(id) : id \in Passed \cup {r}}
    <3>1. heap' = heap \cup {new}
      BY <1>2, <1>10
    <3>2. QED
      BY <2>1, <3>1
  <2>3. Cardinality(heap') = Cardinality(heap) + 1
    <3>1. heap' = heap \cup {new}
      BY <1>2, <1>10
    <3>2. QED
      BY <1>8, <1>9, <3>1, FS_AddElement
  <2>4. Cardinality(heap') = Least(candidate_k, Cardinality(Passed'))
    BY <1>7, <1>8, <1>10, <2>3 DEF HeapInv, Least, RowsTyped
  <2>5. QED
    BY <1>1, <1>3, <1>4, <1>6, <2>2, <2>4 DEF HeapInv, Least, Closer
<1>11. CASE ~(Cardinality(heap) < candidate_k)
  <2>1. Cardinality(heap) = candidate_k /\ candidate_k <= Cardinality(Passed) /\ candidate_k \in Nat \ {0}
    BY <1>7, <1>8, <1>11 DEF HeapInv, Least, RowsTyped
  <2>2. Least(candidate_k, Cardinality(Passed')) = candidate_k
    BY <1>7, <2>1 DEF Least
  <2>3. Furthest \in heap /\ \A b \in heap \ {Furthest} : Closer(b, Furthest)
    <3>1. heap # {}
      BY <2>1, FS_EmptySet
    <3>2. QED
      BY <1>8, <3>1, TopIsLast
  <2>4. PICK t \in Passed : Furthest = Entry(t)
    BY <2>3 DEF HeapInv
  <2>5. t \in Media
    BY <1>7, <2>4
  <2>6. CASE Closer(new, Furthest)
    <3>1. heap' = (heap \ {Furthest}) \cup {new}
      BY <1>2, <1>11, <2>1, <2>6
    <3>2. Cardinality(heap') = candidate_k
      <4>1. /\ IsFiniteSet(heap \ {Furthest}) /\ new \notin heap \ {Furthest}
            /\ Cardinality(heap \ {Furthest}) = Cardinality(heap) - 1
        BY <1>8, <1>9, <2>3, FS_RemoveElement
      <4>2. Cardinality(heap') = Cardinality(heap \ {Furthest}) + 1
        BY <3>1, <4>1, FS_AddElement
      <4>3. QED
        BY <2>1, <4>1, <4>2
    <3>3. ASSUME NEW a \in heap', NEW id \in Passed \cup {r}, Entry(id) \notin heap'
          PROVE  Closer(a, Entry(id))
      <4>1. id \in Passed /\ id \in Media
        BY <1>7, <3>1, <3>3
      <4>2. PICK n \in Media : a = Entry(n)
        BY <1>5, <1>8, <3>1
      <4>3. Closer(a, Furthest)
        BY <2>3, <2>6, <3>1
      <4>4. CASE Entry(id) = Furthest
        BY <4>3, <4>4
      <4>5. CASE Entry(id) # Furthest
        <5>1. Closer(Furthest, Entry(id))
          BY <2>3, <3>1, <3>3, <4>1, <4>5 DEF HeapInv
        <5>2. QED
          BY <2>4, <2>5, <4>1, <4>2, <4>3, <5>1, EntriesOrdered
      <4>6. QED
        BY <4>4, <4>5
    <3>4. heap' \subseteq {Entry(id) : id \in Passed \cup {r}}
      BY <3>1 DEF HeapInv
    <3>5. QED
      BY <1>1, <1>3, <1>4, <1>6, <2>2, <3>2, <3>3, <3>4 DEF HeapInv, Least, Closer
  <2>7. CASE ~Closer(new, Furthest)
    <3>1. heap' = heap
      BY <1>2, <1>11, <2>1, <2>7
    <3>2. Closer(Furthest, new)
      BY <1>5, <1>9, <2>3, <2>4, <2>5, <2>7, EntriesOrdered
    <3>3. ASSUME NEW a \in heap, NEW id \in Passed \cup {r}, Entry(id) \notin heap
          PROVE  Closer(a, Entry(id))
      <4>1. CASE id \in Passed
        BY <3>3, <4>1 DEF HeapInv
      <4>2. CASE id = r
        <5>1. PICK n \in Media : a = Entry(n)
          BY <1>8
        <5>2. a = Furthest \/ Closer(a, Furthest)
          BY <2>3
        <5>3. QED
          BY <1>5, <2>4, <2>5, <3>2, <4>2, <5>1, <5>2, EntriesOrdered
      <4>3. QED
        BY <4>1, <4>2
    <3>4. heap' \subseteq {Entry(id) : id \in Passed \cup {r}}
      BY <3>1 DEF HeapInv
    <3>5. QED
      BY <1>1, <1>3, <1>4, <1>6, <2>1, <2>2, <3>1, <3>3, <3>4 DEF HeapInv, Least, Closer
  <2>8. QED
    BY <2>6, <2>7
<1>12. QED
  BY <1>10, <1>11, <1>8 DEF RowsTyped

\* Before a row is scanned the heap is empty, and so is what was scanned.
LEMMA InitScan == LaneInit => RowsTyped /\ HeapInv /\ stage = "scan"
<1> SUFFICES ASSUME LaneInit PROVE RowsTyped /\ HeapInv /\ stage = "scan"
  OBVIOUS
<1>1. RowsTyped
  <2>1. candidate_k \in Nat \ {0}
    BY LaneAssumption DEF LaneInit
  <2>2. PICK S \in SUBSET MediaIds : distance \in [S -> Distances]
    BY DEF LaneInit
  <2>3. S = Media /\ distance \in [Media -> Nat]
    BY <2>2, LaneAssumption DEF Media
  <2>4. QED
    BY <2>1, <2>2, <2>3 DEF RowsTyped
<1>2. Cardinality(Media) \in Nat /\ IsFiniteSet(Media)
  BY <1>1, MediaFinite
<1> DEFINE D == 1..Cardinality(Media)
<1>3. rows \in [D -> Media] /\ \A a, b \in D : a # b => rows[a] # rows[b]
  BY DEF LaneInit, SetToSeqs, Media
<1>4. rows \in Injection(D, Media)
  BY <1>3, Fun_IsInj
<1>5. IsFiniteSet(D) /\ Cardinality(D) = Cardinality(Media)
  BY <1>2, FS_Interval
<1>6. rows \in Surjection(D, Media)
  BY <1>2, <1>4, <1>5, FS_Injection
<1>7. ToSet(rows) = Media
  BY <1>3, <1>6 DEF ToSet, Surjection
<1>8. rows \in Seq(Media) /\ IsInjective(rows)
  BY <1>2, <1>3 DEF IsInjective
<1>9. Passed = {} /\ heap = {}
  BY <1>7 DEF Passed, LaneInit
<1>10. Cardinality(heap) = Least(candidate_k, Cardinality(Passed))
  BY <1>1, <1>9, FS_EmptySet DEF Least, RowsTyped
<1>11. QED
  BY <1>1, <1>8, <1>9, <1>10 DEF HeapInv, LaneInit

Nearer(a, b) == distance[a] < distance[b] \/ (distance[a] = distance[b] /\ a < b)

\* What the property says of the candidates.
Nearest(c) ==
    /\ c \in Seq(Media) /\ IsInjective(c)
    /\ Len(c) = Least(candidate_k, Cardinality(Media))
    /\ \A a, b \in DOMAIN c : a < b => Nearer(c[a], c[b])
    /\ \A a \in ToSet(c), b \in Media \ ToSet(c) : Nearer(a, b)

LEMMA HandsOverNearest ==
    ASSUME RowsTyped, HeapInv, rows = <<>>
    PROVE  Nearest(into_sorted_vec)
<1> DEFINE R == {p \in heap \X heap : Closer(p[1], p[2])}
           c == into_sorted_vec
           n == Cardinality(heap)
           sorted == Sorted(R, heap)
<1>1. Passed = Media
  BY DEF Passed, ToSet
<1>2. heap \subseteq {Entry(id) : id \in Media} /\ n = Least(candidate_k, Cardinality(Media))
  BY <1>1 DEF HeapInv
<1>3. IsFiniteSet(heap) /\ n \in Nat /\ IsTotalOrder(R, heap)
  BY <1>2, HeapOrder, FS_CardinalityType
<1>4. \A x, y : <<x, y>> \in R => Closer(x, y)
  OBVIOUS
<1>5. c = [j \in DOMAIN sorted |-> sorted[j][2]]
  BY DEF into_sorted_vec
<1> HIDE DEF c, n, R
<1>6. /\ sorted \in Seq(heap) /\ Len(sorted) = n /\ IsInjective(sorted) /\ ToSet(sorted) = heap
      /\ \A j, l \in DOMAIN sorted : j < l => <<sorted[j], sorted[l]>> \in R
  BY <1>3, SortedProperties DEF n
<1> HIDE DEF sorted
<1>7. DOMAIN sorted = 1..n /\ \A j \in 1..n : sorted[j] \in heap
  BY <1>6, LenProperties, ElementOfSeq
<1>8. \A a \in heap : \E j \in 1..n : sorted[j] = a
  BY <1>6, <1>7 DEF ToSet
<1>9. \A a \in heap : \E id \in Media : a = Entry(id) /\ a[2] = id
  BY <1>2, EntriesOrdered
<1>10. \A j \in 1..n : c[j] \in Media /\ Entry(c[j]) = sorted[j]
  <2> SUFFICES ASSUME NEW j \in 1..n PROVE c[j] \in Media /\ Entry(c[j]) = sorted[j]
    OBVIOUS
  <2>1. c[j] = sorted[j][2] /\ sorted[j] \in heap
    BY <1>5, <1>7
  <2>2. QED
    BY <1>9, <2>1
<1>12. c \in Seq(Media) /\ Len(c) = n /\ DOMAIN c = 1..n
  <2>1. c \in [1..n -> Media]
    BY <1>5, <1>7, <1>10
  <2>2. QED
    BY <1>3, <2>1
<1>13. \A a, b \in Media : Closer(Entry(a), Entry(b)) <=> Nearer(a, b)
  BY DEF Closer, Entry, Nearer
<1>14. \A a, b \in 1..n : a < b => Nearer(c[a], c[b])
  <2> SUFFICES ASSUME NEW a \in 1..n, NEW b \in 1..n, a < b PROVE Nearer(c[a], c[b])
    OBVIOUS
  <2>1. Closer(sorted[a], sorted[b])
    BY <1>4, <1>6, <1>7
  <2>2. QED
    BY <1>10, <1>13, <2>1
<1>15. IsInjective(c)
  <2>1. \A a, b \in 1..n : c[a] = c[b] => a = b
    BY <1>6, <1>7, <1>10 DEF IsInjective
  <2>2. QED
    BY <1>12, <2>1 DEF IsInjective
<1>16. ASSUME NEW a \in ToSet(c), NEW b \in Media \ ToSet(c)
       PROVE  Nearer(a, b)
  <2>1. PICK j \in 1..n : a = c[j]
    BY <1>12 DEF ToSet
  <2>2. Entry(a) \in heap /\ a \in Media
    BY <1>7, <1>10, <2>1
  <2>3. Entry(b) \notin heap
    <3>1. SUFFICES ASSUME Entry(b) \in heap PROVE b \in ToSet(c)
      OBVIOUS
    <3>2. PICK j2 \in 1..n : sorted[j2] = Entry(b)
      BY <1>8, <3>1
    <3>3. c[j2] = b
      BY <1>10, <3>2, EntriesOrdered
    <3>4. QED
      BY <1>12, <3>3 DEF ToSet
  <2>4. Closer(Entry(a), Entry(b))
    BY <1>1, <2>2, <2>3 DEF HeapInv
  <2>5. QED
    BY <1>13, <2>2, <2>4
<1>17. QED
  BY <1>2, <1>12, <1>14, <1>15, <1>16 DEF Nearest, c, n

---------------------------------------------------------------------------
(* The candidates that are taken.                                          *)

LEMMA TakeProperties ==
    ASSUME candidates \in Seq(Media), IsInjective(candidates), slots \in Nat,
           NEW E, E \subseteq DOMAIN candidates
    PROVE  /\ IsFiniteSet(E) /\ Cardinality(E) \in Nat
           /\ Take(E) \in Seq(Media) /\ IsInjective(Take(E))
           /\ Len(Take(E)) = Least(slots, Cardinality(E))
           /\ \A j \in DOMAIN Take(E) : \E m \in E : Take(E)[j] = candidates[m]
<1> DEFINE s == Kept(candidates, E)
           t == Take(E)
           n == Least(slots, Cardinality(E))
<1>1. DOMAIN candidates = 1..Len(candidates) /\ Len(candidates) \in Nat
  BY LenProperties
<1>2. /\ IsFiniteSet(E) /\ Cardinality(E) \in Nat
      /\ s \in Seq(Media) /\ Len(s) = Cardinality(E)
      /\ \A j \in 1..Cardinality(E) : s[j] = candidates[Place(E, j)] /\ Place(E, j) \in E
      /\ \A l, m \in 1..Cardinality(E) : l < m => Place(E, l) < Place(E, m)
  BY KeptProperties
<1>3. t = First(s, slots)
  BY DEF Take
<1> HIDE DEF s, t
<1>4. /\ t \in Seq(Media) /\ Len(t) = n /\ n \in Nat /\ n <= Cardinality(E)
      /\ \A j \in 1..n : t[j] = s[j]
  BY <1>2, <1>3, FirstProperties
<1> HIDE DEF n
<1>5. DOMAIN t = 1..n
  BY <1>4, LenProperties
<1>6. \A j \in 1..n : /\ j \in 1..Cardinality(E) /\ j \in Nat
                      /\ t[j] = candidates[Place(E, j)] /\ Place(E, j) \in E
                      /\ Place(E, j) \in Nat
  BY <1>1, <1>2, <1>4
<1>7. ASSUME NEW a \in 1..n, NEW b \in 1..n, t[a] = t[b]
      PROVE  a = b
  <2>1. Place(E, a) = Place(E, b)
    BY <1>6, <1>7 DEF IsInjective
  <2>2. ~(a < b) /\ ~(b < a)
    BY <1>2, <1>6, <2>1
  <2>3. QED
    BY <1>6, <2>2
<1>8. IsInjective(t) /\ \A j \in DOMAIN t : \E m \in E : t[j] = candidates[m]
  BY <1>5, <1>6, <1>7 DEF IsInjective
<1>9. QED
  BY <1>2, <1>4, <1>8 DEF t, n

---------------------------------------------------------------------------
(* The fusion in a result.                                                 *)

Hits == TextIds \cup Media

\* What a result keeps of the fusion.
Keeps(s) ==
    /\ IsInjective(s)
    /\ \A id \in ToSet(before) : IsMedia(id) => id \in ToSet(s)
    /\ \A id \in ToSet(s) : IsText(id) => id \in ToSet(before)
    /\ \A a, b \in TextAt(before) : a < b /\ before[b] \in ToSet(s) => before[a] \in ToSet(s)
    /\ \A a, b \in DOMAIN before, m, n \in DOMAIN s :
         s[m] = before[a] /\ s[n] = before[b] /\ a < b => m < n

LEMMA TextOrMedia ==
    ASSUME RowsTyped
    PROVE  /\ \A id \in TextIds : IsText(id) /\ ~IsMedia(id)
           /\ \A id \in Media : IsMedia(id) /\ ~IsText(id)
BY LaneAssumption DEF RowsTyped, MediaIds, IsText, IsMedia

\* The last text is there if any text is.
LEMMA LastTextIsThere ==
    ASSUME NEW s \in Seq(Hits), TextAt(s) # {}
    PROVE  /\ LastText(s) \in 1..Len(s) /\ IsText(s[LastText(s)])
           /\ \A j \in TextAt(s) : j <= LastText(s)
<1>1. DOMAIN s = 1..Len(s) /\ Len(s) \in Nat
  BY LenProperties
<1>2. TextAt(s) \subseteq Nat /\ IsFiniteSet(TextAt(s))
  <2>1. IsFiniteSet(1..Len(s))
    BY <1>1, FS_Interval
  <2>2. TextAt(s) \subseteq 1..Len(s)
    BY <1>1 DEF TextAt
  <2>3. QED
    BY <2>1, <2>2, FS_Subset
<1>3. \E m \in TextAt(s) : \A j \in TextAt(s) : j <= m
  BY <1>2, CountingUp
<1>4. LastText(s) \in TextAt(s) /\ \A j \in TextAt(s) : j <= LastText(s)
  BY <1>3 DEF LastText
<1>5. QED
  BY <1>1, <1>4 DEF TextAt

\* Displacing the last text keeps all else, and the order.
LEMMA DisplacingKeeps ==
    ASSUME RowsTyped, before \in Seq(Hits), NEW s \in Seq(Hits), Keeps(s), TextAt(s) # {}
    PROVE  LET t == RemoveAt(s, LastText(s))
           IN  /\ t \in Seq(Hits) /\ Len(t) = Len(s) - 1 /\ Keeps(t)
               /\ ToSet(t) = ToSet(s) \ {s[LastText(s)]}
               /\ IsText(s[LastText(s)]) /\ s[LastText(s)] \in ToSet(s)
<1> DEFINE p == LastText(s)
           t == RemoveAt(s, p)
           From(m) == IF m < p THEN m ELSE m + 1
<1>1. p \in 1..Len(s) /\ IsText(s[p]) /\ \A j \in TextAt(s) : j <= p
  BY LastTextIsThere
<1>2. /\ DOMAIN s = 1..Len(s) /\ Len(s) \in Nat
      /\ DOMAIN before = 1..Len(before) /\ Len(before) \in Nat
  BY LenProperties
<1> HIDE DEF p
<1>3. /\ t \in Seq(Hits) /\ Len(t) = Len(s) - 1 /\ DOMAIN t = 1..(Len(s) - 1)
      /\ \A m \in 1..(Len(s) - 1) : t[m] = s[From(m)]
  <2>1. /\ t \in Seq(Hits) /\ Len(t) = Len(s) - 1
        /\ \A m \in 1..(Len(s) - 1) : t[m] = IF m < p THEN s[m] ELSE s[m + 1]
    BY <1>1, RemoveAtProperties
  <2>2. DOMAIN t = 1..(Len(s) - 1)
    BY <2>1, LenProperties
  <2>3. QED
    BY <2>1, <2>2
<1> HIDE DEF t
<1>4. /\ \A m \in 1..(Len(s) - 1) : From(m) \in 1..Len(s) /\ From(m) # p
      /\ \A m, n \in 1..(Len(s) - 1) : m < n <=> From(m) < From(n)
  BY <1>1, <1>2
<1>5. \A m \in 1..Len(s) : m # p => \E n \in 1..(Len(s) - 1) : m = From(n)
  <2> SUFFICES ASSUME NEW m \in 1..Len(s), m # p
               PROVE  \E n \in 1..(Len(s) - 1) : m = From(n)
    OBVIOUS
  <2>1. CASE m < p
    <3>1. m \in 1..(Len(s) - 1) /\ m = From(m)
      BY <1>1, <1>2, <2>1
    <3>2. QED
      BY <3>1
  <2>2. CASE p < m
    <3>1. m - 1 \in 1..(Len(s) - 1) /\ m = From(m - 1)
      BY <1>1, <1>2, <2>2
    <3>2. QED
      BY <3>1
  <2>3. QED
    BY <1>1, <1>2, <2>1, <2>2
<1> HIDE DEF From
<1>6. \A m \in 1..Len(s) : s[m] = s[p] => m = p
  BY <1>1, <1>2 DEF Keeps, IsInjective
<1>7. ToSet(t) = ToSet(s) \ {s[p]} /\ s[p] \in ToSet(s)
  <2>1. ASSUME NEW x \in ToSet(t) PROVE x \in ToSet(s) /\ x # s[p]
    <3>1. PICK m \in 1..(Len(s) - 1) : x = s[From(m)]
      BY <1>3 DEF ToSet
    <3>2. QED
      BY <1>2, <1>4, <1>6, <3>1 DEF ToSet
  <2>2. ASSUME NEW x \in ToSet(s), x # s[p] PROVE x \in ToSet(t)
    <3>1. PICK m \in 1..Len(s) : x = s[m]
      BY <1>2 DEF ToSet
    <3>2. PICK n \in 1..(Len(s) - 1) : m = From(n)
      BY <1>5, <2>2, <3>1
    <3>3. x = t[n]
      BY <1>3, <3>1, <3>2
    <3>4. QED
      BY <1>3, <3>3 DEF ToSet
  <2>3. s[p] \in ToSet(s)
    BY <1>1, <1>2 DEF ToSet
  <2>4. QED
    BY <2>1, <2>2, <2>3
<1>8. IsInjective(t)
  <2> SUFFICES ASSUME NEW m \in 1..(Len(s) - 1), NEW n \in 1..(Len(s) - 1), t[m] = t[n]
               PROVE  m = n
    BY <1>3 DEF IsInjective
  <2>1. From(m) = From(n)
    BY <1>2, <1>3, <1>4 DEF Keeps, IsInjective
  <2>2. From(m) \in Int /\ From(n) \in Int
    BY <1>4
  <2>3. ~(m < n) /\ ~(n < m)
    BY <1>4, <2>1, <2>2
  <2>4. QED
    BY <2>3
<1>9. \A id \in ToSet(before) : IsMedia(id) => id \in ToSet(t)
  <2>1. s[p] \in Hits
    BY <1>1, ElementOfSeq
  <2>2. ~IsMedia(s[p])
    BY <1>1, <2>1, TextOrMedia DEF Hits
  <2>3. QED
    BY <1>7, <2>2 DEF Keeps
<1>10. \A id \in ToSet(t) : IsText(id) => id \in ToSet(before)
  BY <1>7 DEF Keeps
<1>11. ASSUME NEW a \in TextAt(before), NEW b \in TextAt(before), a < b, before[b] \in ToSet(t)
       PROVE  before[a] \in ToSet(t)
  <2>1. before[b] \in ToSet(s) /\ before[a] \in ToSet(s)
    BY <1>7, <1>11 DEF Keeps
  <2>2. before[a] # s[p]
    <3>1. SUFFICES ASSUME before[a] = s[p] PROVE FALSE
      OBVIOUS
    <3>2. PICK n \in 1..Len(s) : s[n] = before[b]
      BY <1>2, <2>1 DEF ToSet
    <3>3. a \in DOMAIN before /\ b \in DOMAIN before /\ IsText(before[b])
      BY DEF TextAt
    <3>4. p < n
      BY <1>1, <1>2, <1>11, <3>1, <3>2, <3>3 DEF Keeps
    <3>5. n <= p
      BY <1>1, <1>2, <3>2, <3>3 DEF TextAt
    <3>6. QED
      BY <1>1, <1>2, <3>4, <3>5
  <2>3. QED
    BY <1>7, <2>1, <2>2
<1>12. ASSUME NEW a \in DOMAIN before, NEW b \in DOMAIN before, NEW m \in DOMAIN t, NEW n \in DOMAIN t,
              t[m] = before[a], t[n] = before[b], a < b
       PROVE  m < n
  <2>1. From(m) < From(n)
    BY <1>2, <1>3, <1>4, <1>12 DEF Keeps
  <2>2. QED
    BY <1>3, <1>4, <2>1
<1>13. Keeps(t)
  BY <1>8, <1>9, <1>10, <1>11, <1>12 DEF Keeps
<1>14. QED
  BY <1>1, <1>3, <1>7, <1>13 DEF t, p

\* A hit that neither the result nor the fusion has can go anywhere.
LEMMA AdmittingKeeps ==
    ASSUME RowsTyped, before \in Seq(Hits), NEW s \in Seq(Hits), Keeps(s),
           NEW p \in 1..(Len(s) + 1), NEW e \in Media, e \notin ToSet(s), e \notin ToSet(before)
    PROVE  LET t == InsertAt(s, p, e)
           IN  /\ t \in Seq(Hits) /\ Len(t) = Len(s) + 1 /\ Keeps(t)
               /\ ToSet(t) = ToSet(s) \cup {e}
<1> DEFINE t == InsertAt(s, p, e)
           From(m) == IF m < p THEN m ELSE m - 1
<1>1. /\ DOMAIN s = 1..Len(s) /\ Len(s) \in Nat
      /\ DOMAIN before = 1..Len(before) /\ Len(before) \in Nat
  BY LenProperties
<1>2. /\ t \in Seq(Hits) /\ Len(t) = Len(s) + 1 /\ DOMAIN t = 1..(Len(s) + 1)
      /\ t[p] = e
      /\ \A m \in 1..(Len(s) + 1) : m # p => t[m] = s[From(m)]
  <2>1. e \in Hits
    BY DEF Hits
  <2>2. /\ t \in Seq(Hits) /\ Len(t) = Len(s) + 1
        /\ \A m \in 1..(Len(s) + 1) :
             t[m] = IF m < p THEN s[m] ELSE IF m = p THEN e ELSE s[m - 1]
    <3>1. s \in Seq(Hits) /\ p \in 1..(Len(s) + 1)
      OBVIOUS
    <3>2. QED
      BY ONLY <2>1, <3>1, InsertAtProperties DEF t
  <2>3. DOMAIN t = 1..(Len(s) + 1)
    BY <2>2, LenProperties
  <2>4. t[p] = e
    BY <1>1, <2>2
  <2>5. QED
    BY <2>2, <2>3, <2>4
<1> HIDE DEF t
<1>3. /\ \A m \in 1..(Len(s) + 1) : m # p => From(m) \in 1..Len(s)
      /\ \A m, n \in 1..(Len(s) + 1) : m # p /\ n # p => (m < n <=> From(m) < From(n))
  BY <1>1
<1>4. \A m \in 1..Len(s) : \E n \in 1..(Len(s) + 1) : n # p /\ m = From(n)
  <2> SUFFICES ASSUME NEW m \in 1..Len(s)
               PROVE  \E n \in 1..(Len(s) + 1) : n # p /\ m = From(n)
    OBVIOUS
  <2>1. CASE m < p
    <3>1. m \in 1..(Len(s) + 1) /\ m # p /\ m = From(m)
      BY <1>1, <2>1
    <3>2. QED
      BY <3>1
  <2>2. CASE ~(m < p)
    <3>1. m + 1 \in 1..(Len(s) + 1) /\ m + 1 # p /\ m = From(m + 1)
      BY <1>1, <2>2
    <3>2. QED
      BY <3>1
  <2>3. QED
    BY <2>1, <2>2
<1> HIDE DEF From
<1>5. \A m \in 1..(Len(s) + 1) : m # p => t[m] \in ToSet(s) /\ t[m] # e
  <2> SUFFICES ASSUME NEW m \in 1..(Len(s) + 1), m # p PROVE t[m] \in ToSet(s)
    OBVIOUS
  <2>1. t[m] = s[From(m)] /\ From(m) \in DOMAIN s
    BY <1>1, <1>2, <1>3
  <2>2. QED
    BY <2>1 DEF ToSet
<1>6. ToSet(t) = ToSet(s) \cup {e}
  <2>1. \A x \in ToSet(t) : x \in ToSet(s) \cup {e}
    BY <1>2, <1>5 DEF ToSet
  <2>2. ASSUME NEW x \in ToSet(s) PROVE x \in ToSet(t)
    <3>1. PICK m \in 1..Len(s) : x = s[m]
      BY <1>1 DEF ToSet
    <3>2. PICK n \in 1..(Len(s) + 1) : n # p /\ m = From(n)
      BY <1>4
    <3>3. x = t[n]
      BY <1>2, <3>1, <3>2
    <3>4. QED
      BY <1>2, <3>3 DEF ToSet
  <2>3. e \in ToSet(t)
    BY <1>2 DEF ToSet
  <2>4. QED
    BY <2>1, <2>2, <2>3
<1>7. IsInjective(t)
  <2> SUFFICES ASSUME NEW m \in 1..(Len(s) + 1), NEW n \in 1..(Len(s) + 1), t[m] = t[n]
               PROVE  m = n
    BY <1>2 DEF IsInjective
  <2>1. CASE m = p \/ n = p
    BY <1>2, <1>5, <2>1
  <2>2. CASE m # p /\ n # p
    <3>1. From(m) = From(n)
      BY <1>1, <1>2, <1>3, <2>2 DEF Keeps, IsInjective
    <3>2. From(m) \in Int /\ From(n) \in Int
      BY <1>3, <2>2
    <3>3. ~(m < n) /\ ~(n < m)
      BY <1>3, <2>2, <3>1, <3>2
    <3>4. QED
      BY <3>3
  <2>3. QED
    BY <2>1, <2>2
<1>8. ~IsText(e)
  BY TextOrMedia
<1>9. ASSUME NEW a \in DOMAIN before, NEW b \in DOMAIN before, NEW m \in DOMAIN t, NEW n \in DOMAIN t,
             t[m] = before[a], t[n] = before[b], a < b
      PROVE  m < n
  <2>1. m # p /\ n # p
    BY <1>2, <1>9 DEF ToSet
  <2>2. From(m) < From(n)
    BY <1>1, <1>2, <1>3, <1>9, <2>1 DEF Keeps
  <2>3. QED
    BY <1>2, <1>3, <2>1, <2>2
<1>10. \A a \in TextAt(before) : before[a] \in ToSet(t) <=> before[a] \in ToSet(s)
  BY <1>6, <1>8 DEF TextAt
<1>11. Keeps(t)
  BY <1>6, <1>7, <1>8, <1>9, <1>10 DEF Keeps
<1>12. QED
  BY <1>2, <1>6, <1>11 DEF t

---------------------------------------------------------------------------
(* The lane.                                                               *)

Admitted == {inserted[j] : j \in 1..turn}

LaneTyped ==
    /\ limit \in Nat \ {0} /\ slots \in Nat
    /\ before \in Seq(Hits) /\ IsInjective(before) /\ Len(before) <= limit
    /\ gated \subseteq ToSet(candidates)

\* What was admitted is all the result has more than the fusion, and the lane
\* does not end before all of it is.
AdmitInv ==
    /\ inserted \in Seq(Media) /\ IsInjective(inserted) /\ Len(inserted) = Admissible
    /\ ToSet(inserted) \subseteq gated \ ToSet(before)
    /\ ToSet(results) \ ToSet(before) = Admitted
    /\ turn \in 0..Len(inserted)
    /\ stage = "admit" => turn < Len(inserted)
    /\ stage = "done" => turn = Len(inserted)

LaneInv ==
    /\ Nearest(candidates) /\ LaneTyped
    /\ results \in Seq(Hits) /\ Len(results) <= limit /\ Keeps(results)
    /\ stage = "gate" => turn = 0 /\ results = before
    /\ stage # "gate" => AdmitInv

LaneInductiveInv ==
    /\ RowsTyped
    /\ stage \in {"scan", "gate", "admit", "done"}
    /\ turn \in Nat /\ (stage = "scan" => turn = 0 /\ results = <<>>)
    /\ stage = "scan" => HeapInv
    /\ stage # "scan" => LaneInv

\* How many candidates are eligible, and how many there is room for.
LEMMA RoomCounted ==
    ASSUME RowsTyped, Nearest(candidates), LaneTyped
    PROVE  /\ Eligible \in Seq(Media) /\ IsInjective(Eligible)
           /\ ToSet(Eligible) \subseteq gated \ ToSet(before)
           /\ Cardinality(gated \ ToSet(before)) \in Nat
           /\ Len(Eligible) = Least(slots, Cardinality(gated \ ToSet(before)))
           /\ Cardinality(TextAt(before)) \in Nat
           /\ Admissible \in Nat
           /\ Admissible = Least((limit - Len(before)) + Cardinality(TextAt(before)), Len(Eligible))
<1> DEFINE E == {m \in WithinGate : candidates[m] \notin ToSet(before)}
<1>1. candidates \in Seq(Media) /\ IsInjective(candidates) /\ slots \in Nat
  BY DEF Nearest, LaneTyped
<1>2. E \subseteq DOMAIN candidates /\ E \in SUBSET DOMAIN candidates
  BY DEF WithinGate
<1>3. {candidates[m] : m \in E} = gated \ ToSet(before)
  BY DEF LaneTyped, ToSet, WithinGate
<1>4. Eligible = Take(E)
  BY DEF Eligible
<1> HIDE DEF E
<1>5. /\ Cardinality(E) \in Nat
      /\ Eligible \in Seq(Media) /\ IsInjective(Eligible)
      /\ Len(Eligible) = Least(slots, Cardinality(E))
      /\ \A j \in DOMAIN Eligible : \E m \in E : Eligible[j] = candidates[m]
  BY <1>1, <1>2, <1>4, TakeProperties
<1>6. ToSet(Eligible) \subseteq gated \ ToSet(before)
  BY <1>3, <1>5 DEF ToSet
<1>7. Cardinality(E) = Cardinality(gated \ ToSet(before))
  <2>1. Cardinality({candidates[m] : m \in E}) = Cardinality(E)
    BY <1>1, <1>2, ElementsAt
  <2>2. QED
    BY <1>3, <2>1
<1>8. Cardinality(TextAt(before)) \in Nat
  <2>1. TextAt(before) \in SUBSET DOMAIN before
    BY DEF TextAt
  <2>2. QED
    BY <2>1, ElementsAt, FS_CardinalityType DEF LaneTyped
<1>9. /\ Len(before) \in Nat /\ limit - Len(before) \in Nat
      /\ Len(Eligible) \in Nat
  BY <1>5, LenProperties DEF LaneTyped
<1>10. Admissible = Least((limit - Len(before)) + Cardinality(TextAt(before)), Len(Eligible))
  BY DEF Admissible
<1>11. Admissible \in Nat
  BY <1>8, <1>9, <1>10 DEF Least
<1>12. QED
  BY <1>5, <1>6, <1>7, <1>8, <1>10, <1>11

LEMMA BlendKeeps ==
    ASSUME LaneInductiveInv, Blend
    PROVE  LaneInductiveInv'
<1>1. /\ stage = "scan" /\ rows = <<>> /\ stage' = "gate" /\ turn' = turn /\ turn = 0 /\ turn \in Nat
      /\ candidate_k' = candidate_k /\ distance' = distance
      /\ candidates' = into_sorted_vec /\ results' = before'
      /\ limit' \in 1..candidate_k /\ slots' \in 0..limit'
      /\ before' \in Blends(TextIds \cup Media, limit')
  BY DEF Blend, LaneInductiveInv
<1>2. RowsTyped' /\ Media' = Media /\ Hits' = Hits
  BY <1>1 DEF LaneInductiveInv, RowsTyped, Media, Hits
<1>3. Nearest(candidates)'
  <2>1. Nearest(into_sorted_vec)
    BY <1>1, HandsOverNearest DEF LaneInductiveInv
  <2>2. QED
    BY <1>1, <1>2, <2>1 DEF Nearest, Nearer
<1>4. LaneTyped'
  <2>1. gated' \subseteq ToSet(candidates')
    BY DEF Blend
  <2>2. limit' \in Nat \ {0} /\ slots' \in Nat
    BY <1>1 DEF LaneInductiveInv, RowsTyped
  <2>3. PICK len \in 0..limit' : before' \in [1..len -> Hits] /\ IsInjective(before')
    BY <1>1 DEF Blends, Hits
  <2>4. before' \in Seq(Hits) /\ Len(before') <= limit'
    BY <2>2, <2>3
  <2>5. QED
    BY <1>2, <2>1, <2>2, <2>3, <2>4 DEF LaneTyped
<1>5. Keeps(results)'
  <2>1. IsInjective(before')
    BY <1>4 DEF LaneTyped
  <2>2. \A a, b \in DOMAIN before', m, n \in DOMAIN before' :
          before'[m] = before'[a] /\ before'[n] = before'[b] /\ a < b => m < n
    BY <2>1 DEF IsInjective
  <2>3. \A a \in TextAt(before)' : before'[a] \in ToSet(before')
    BY DEF TextAt, ToSet
  <2>4. QED
    BY <1>1, <2>1, <2>2, <2>3 DEF Keeps
<1>6. QED
  BY <1>1, <1>2, <1>3, <1>4, <1>5 DEF LaneInductiveInv, LaneInv, LaneTyped

LEMMA GateKeeps ==
    ASSUME LaneInductiveInv, Gate
    PROVE  LaneInductiveInv'
<1>1. /\ stage = "gate" /\ inserted' = SubSeq(Eligible, 1, Admissible) /\ turn = 0 /\ turn' = 0
      /\ stage' = IF slots = 0 \/ Admissible = 0 THEN "done" ELSE "admit"
      /\ UNCHANGED <<candidate_k, distance, rows, heap, candidates>>
      /\ UNCHANGED <<limit, slots, before, gated, results>> /\ results = before
  BY DEF Gate, LaneInductiveInv, LaneInv, scan, input
<1>2. RowsTyped' /\ Media' = Media /\ Hits' = Hits
  BY <1>1 DEF LaneInductiveInv, RowsTyped, Media, Hits
<1>3. Admissible' = Admissible
  BY <1>1 DEF Admissible, Eligible, Take, WithinGate, TextAt
<1>4. /\ RowsTyped /\ Nearest(candidates) /\ LaneTyped
  BY <1>1 DEF LaneInductiveInv, LaneInv
<1>5. /\ Eligible \in Seq(Media) /\ IsInjective(Eligible)
      /\ ToSet(Eligible) \subseteq gated \ ToSet(before)
      /\ Admissible \in Nat /\ Admissible <= Len(Eligible)
      /\ slots = 0 => Admissible = 0
  <2>1. /\ Eligible \in Seq(Media) /\ IsInjective(Eligible)
        /\ ToSet(Eligible) \subseteq gated \ ToSet(before)
        /\ Cardinality(gated \ ToSet(before)) \in Nat
        /\ Len(Eligible) = Least(slots, Cardinality(gated \ ToSet(before)))
        /\ Cardinality(TextAt(before)) \in Nat
        /\ Admissible \in Nat
        /\ Admissible = Least((limit - Len(before)) + Cardinality(TextAt(before)), Len(Eligible))
    BY <1>4, RoomCounted
  <2>2. limit - Len(before) \in Nat /\ Len(Eligible) \in Nat /\ slots \in Nat
    BY <1>4, <2>1, LenProperties DEF LaneTyped
  <2>3. Admissible <= Len(Eligible)
    BY <2>1, <2>2 DEF Least
  <2>4. slots = 0 => Admissible = 0
    BY <2>1, <2>2, <2>3 DEF Least
  <2>5. QED
    BY <2>1, <2>3, <2>4
<1>6. /\ inserted' \in Seq(Media) /\ Len(inserted') = Admissible /\ DOMAIN inserted' = 1..Admissible
      /\ \A m \in 1..Admissible : m \in DOMAIN Eligible /\ inserted'[m] = Eligible[m]
  <2>1. /\ DOMAIN Eligible = 1..Len(Eligible) /\ Len(Eligible) \in Nat
        /\ \A m \in 1..Len(Eligible) : Eligible[m] \in Media
    BY <1>5, LenProperties, ElementOfSeq
  <2>2. \A m \in 1..Admissible : m \in DOMAIN Eligible /\ Eligible[m] \in Media
    BY <1>5, <2>1
  <2>3. /\ inserted' \in Seq(Media) /\ Len(inserted') = Admissible
        /\ \A m \in 1..Admissible : inserted'[m] = Eligible[m]
    BY <1>1, <1>5, <2>2, SubSeqProperties
  <2>4. QED
    BY <2>2, <2>3, LenProperties
<1>7. IsInjective(inserted') /\ ToSet(inserted') \subseteq gated \ ToSet(before)
  BY <1>5, <1>6 DEF IsInjective, ToSet
<1>8. ToSet(results') \ ToSet(before') = Admitted'
  BY <1>1 DEF Admitted
<1>9. /\ stage' \in {"admit", "done"} /\ turn' \in 0..Len(inserted')
      /\ stage' = "admit" => turn' < Len(inserted')
      /\ stage' = "done" => turn' = Len(inserted')
  BY <1>1, <1>5, <1>6
<1>10. AdmitInv'
  BY <1>1, <1>2, <1>3, <1>6, <1>7, <1>8, <1>9 DEF AdmitInv
<1>11. Nearest(candidates)' /\ LaneTyped' /\ Keeps(results)'
  BY <1>1, <1>2, <1>4 DEF LaneInductiveInv, LaneInv, Nearest, Nearer, LaneTyped, Keeps, TextAt
<1>12. QED
  BY <1>1, <1>2, <1>9, <1>10, <1>11 DEF LaneInductiveInv, LaneInv

\* While there is something to admit there is room, or a text to displace: the
\* media of the result are those of the fusion and those admitted.
LEMMA RoomOrText ==
    ASSUME LaneInductiveInv, stage = "admit", Len(results) >= limit
    PROVE  TextAt(results) # {}
<1>1. /\ RowsTyped /\ Nearest(candidates) /\ LaneTyped /\ AdmitInv
      /\ results \in Seq(Hits) /\ Len(results) <= limit /\ Keeps(results)
  BY DEF LaneInductiveInv, LaneInv
<1> DEFINE MediaAt == {m \in DOMAIN before : ~IsText(before[m])}
           Old == {before[m] : m \in MediaAt}
<1>2. SUFFICES ASSUME TextAt(results) = {} PROVE FALSE
  OBVIOUS
<1>3. /\ DOMAIN results = 1..Len(results) /\ Len(results) = limit
      /\ DOMAIN before = 1..Len(before) /\ Len(before) \in Nat
      /\ DOMAIN inserted = 1..Len(inserted) /\ Len(inserted) \in Nat
      /\ limit \in Nat
  BY <1>1, LenProperties DEF LaneTyped, AdmitInv
<1>4. Cardinality(ToSet(results)) = limit
  <2>1. Cardinality({results[m] : m \in DOMAIN results}) = Cardinality(DOMAIN results)
    BY <1>1, ElementsAt DEF Keeps
  <2>2. Cardinality(DOMAIN results) = limit
    BY <1>3, FS_Interval
  <2>3. QED
    BY <2>1, <2>2 DEF ToSet
<1>5. /\ IsFiniteSet(Admitted) /\ Cardinality(Admitted) = turn /\ turn \in Nat /\ turn < Len(inserted)
  <2>1. turn \in Nat /\ turn < Len(inserted) /\ 1..turn \in SUBSET DOMAIN inserted
    BY <1>1, <1>3 DEF AdmitInv
  <2>2. IsFiniteSet(Admitted) /\ Cardinality(Admitted) = Cardinality(1..turn)
    <3>1. inserted \in Seq(Media) /\ IsInjective(inserted)
      BY <1>1 DEF AdmitInv
    <3>2. \A P \in SUBSET DOMAIN inserted :
            /\ IsFiniteSet({inserted[m] : m \in P})
            /\ Cardinality({inserted[m] : m \in P}) = Cardinality(P)
      BY <3>1, ElementsAt
    <3>3. QED
      BY <2>1, <3>2 DEF Admitted
  <2>3. Cardinality(1..turn) = turn
    BY <2>1, FS_Interval
  <2>4. QED
    BY <2>1, <2>2, <2>3
<1>6. /\ IsFiniteSet(Old) /\ Cardinality(Old) = Cardinality(MediaAt)
      /\ Cardinality(MediaAt) \in Nat /\ IsFiniteSet(MediaAt)
  <2>1. MediaAt \in SUBSET DOMAIN before
    OBVIOUS
  <2> HIDE DEF MediaAt
  <2>2. QED
    BY <1>1, <2>1, ElementsAt, FS_CardinalityType DEF LaneTyped
<1>7. Cardinality(TextAt(before)) + Cardinality(MediaAt) = Len(before)
  <2>1. TextAt(before) \in SUBSET DOMAIN before
    BY DEF TextAt
  <2>2. IsFiniteSet(TextAt(before))
    BY <1>1, <2>1, ElementsAt DEF LaneTyped
  <2>3. TextAt(before) \cup MediaAt = DOMAIN before /\ TextAt(before) \cap MediaAt = {}
    BY DEF TextAt
  <2> HIDE DEF MediaAt
  <2>4. Cardinality(DOMAIN before) = Cardinality(TextAt(before)) + Cardinality(MediaAt) - 0
    BY <1>6, <2>2, <2>3, FS_Union, FS_EmptySet
  <2>5. Cardinality(DOMAIN before) = Len(before)
    <3>1. \A n \in Nat : Cardinality(1..n) = n
      BY FS_Interval
    <3>2. QED
      BY <1>3, <3>1
  <2>6. Cardinality(TextAt(before)) \in Nat
    BY <2>2, FS_CardinalityType
  <2>7. QED
    BY <1>3, <1>6, <2>4, <2>5, <2>6
<1>8. ToSet(results) = Old \cup Admitted /\ Old \cap Admitted = {}
  <2>1. \A x \in ToSet(results) : ~IsText(x)
    BY <1>2 DEF TextAt, ToSet
  <2>2. \A x \in ToSet(before) : ~IsText(x) => IsMedia(x)
    <3>1. \A x \in ToSet(before) : x \in Hits
      BY <1>1, <1>3, ElementOfSeq DEF LaneTyped, ToSet
    <3>2. QED
      BY <1>1, <3>1, TextOrMedia DEF Hits
  <2>3. Old = {x \in ToSet(before) : ~IsText(x)}
    BY DEF ToSet
  <2> HIDE DEF Old
  <2>4. Old \subseteq ToSet(results)
    BY <1>1, <2>2, <2>3 DEF Keeps
  <2>5. \A x \in ToSet(results) : x \in ToSet(before) => x \in Old
    BY <2>1, <2>3
  <2>6. ToSet(results) \ ToSet(before) = Admitted /\ Old \subseteq ToSet(before)
    BY <1>1, <2>3 DEF AdmitInv
  <2>7. QED
    BY <2>4, <2>5, <2>6
<1>9. limit = Cardinality(MediaAt) + turn
  <2> HIDE DEF Old, MediaAt
  <2>1. Cardinality(Old \cup Admitted) = Cardinality(Old) + Cardinality(Admitted) - 0
    <3>1. Cardinality(Old \cup Admitted)
            = Cardinality(Old) + Cardinality(Admitted) - Cardinality(Old \cap Admitted)
      BY <1>5, <1>6, FS_Union
    <3>2. Cardinality(Old \cap Admitted) = 0
      BY <1>8, FS_EmptySet
    <3>3. QED
      BY <3>1, <3>2
  <2>2. QED
    BY <1>4, <1>5, <1>6, <1>8, <2>1
<1>10. Len(inserted) <= (limit - Len(before)) + Cardinality(TextAt(before))
  <2>1. /\ Len(inserted) = Admissible /\ Admissible \in Nat /\ Len(Eligible) \in Nat
        /\ Cardinality(TextAt(before)) \in Nat
        /\ Admissible = Least((limit - Len(before)) + Cardinality(TextAt(before)), Len(Eligible))
    BY <1>1, RoomCounted, LenProperties DEF AdmitInv
  <2>2. QED
    BY <1>3, <2>1 DEF Least
<1>11. Cardinality(TextAt(before)) \in Nat
  BY <1>1, RoomCounted
<1> HIDE DEF MediaAt
<1>12. Cardinality(MediaAt) \in Nat
  BY <1>6
<1>13. QED
  BY <1>3, <1>5, <1>7, <1>9, <1>10, <1>11, <1>12

LEMMA PositionInside ==
    ASSUME NEW a \in Nat \ {0}, NEW b \in Nat \ {0}, NEW j \in Nat, NEW l \in Nat
    PROVE  1 + Least(CeilDiv(a, b) * (j + 1) - 1, l) \in 1..(l + 1)
<1>1. CeilDiv(a, b) \in Nat /\ CeilDiv(a, b) # 0
  <2> DEFINE q == (a + b - 1) \div b
  <2>1. a + b - 1 \in Nat /\ a + b - 1 >= b
    OBVIOUS
  <2>2. q \in Int /\ b * q <= a + b - 1 /\ a + b - 1 < b * q + b
    BY <2>1
  <2>3. q > 0
    <3>1. SUFFICES ASSUME q <= 0 PROVE FALSE
      BY <2>2
    <3>2. b * q <= 0
      BY <2>2, <3>1
    <3>3. QED
      BY <2>1, <2>2, <3>2
  <2>4. QED
    BY <2>2, <2>3 DEF CeilDiv
<1>2. CeilDiv(a, b) * (j + 1) \in Nat /\ CeilDiv(a, b) * (j + 1) >= 1
  <2> DEFINE q == CeilDiv(a, b)
  <2>1. q \in Nat /\ q >= 1
    BY <1>1
  <2> HIDE DEF q
  <2>2. q * j \in Nat
    BY <2>1
  <2>3. q * (j + 1) = q * j + q
    BY <2>1
  <2>4. QED
    BY <2>1, <2>2, <2>3 DEF q
<1>3. QED
  BY <1>2 DEF Least

LEMMA AdmitKeeps ==
    ASSUME LaneInductiveInv, Admit
    PROVE  LaneInductiveInv'
<1> DEFINE s == MakeRoom
           e == inserted[turn + 1]
           p == 1 + Least(CeilDiv(limit, Len(inserted)) * (turn + 1) - 1, Len(s))
<1>1. /\ stage = "admit"
      /\ UNCHANGED <<candidate_k, distance, rows, heap, candidates>>
      /\ UNCHANGED <<limit, slots, before, gated, inserted>>
  BY DEF Admit, scan, input
<1>2. /\ RowsTyped /\ Nearest(candidates) /\ LaneTyped /\ AdmitInv
      /\ results \in Seq(Hits) /\ Len(results) <= limit /\ Keeps(results)
  BY <1>1 DEF LaneInductiveInv, LaneInv
<1>3. /\ DOMAIN results = 1..Len(results) /\ Len(results) \in Nat
      /\ DOMAIN inserted = 1..Len(inserted) /\ Len(inserted) \in Nat
      /\ limit \in Nat \ {0} /\ turn \in Nat /\ turn < Len(inserted)
  BY <1>1, <1>2, LenProperties DEF LaneTyped, AdmitInv
<1>4. ~(Len(results) >= limit /\ \A m \in DOMAIN results : IsMedia(results[m]))
  <2>1. \A m \in TextAt(results) : m \in DOMAIN results /\ ~IsMedia(results[m])
    <3>1. \A m \in DOMAIN results : results[m] \in Hits
      BY <1>2, <1>3, ElementOfSeq
    <3>2. QED
      BY <1>2, <3>1, TextOrMedia DEF TextAt, Hits
  <2>2. QED
    BY <1>1, <2>1, RoomOrText
<1>5. /\ results' = InsertAt(s, p, e) /\ turn' = turn + 1
      /\ stage' = IF turn + 1 = Len(inserted) THEN "done" ELSE "admit"
  BY <1>4 DEF Admit
<1>6. /\ s \in Seq(Hits) /\ Keeps(s) /\ Len(s) < limit
      /\ ToSet(s) \ ToSet(before) = Admitted
  <2>1. CASE Len(results) >= limit
    <3>1. TextAt(results) # {}
      BY <1>1, <2>1, RoomOrText
    <3>2. s = RemoveAt(results, LastText(results))
      BY <2>1 DEF MakeRoom
    <3>3. /\ s \in Seq(Hits) /\ Len(s) = Len(results) - 1 /\ Keeps(s)
          /\ ToSet(s) = ToSet(results) \ {results[LastText(results)]}
          /\ IsText(results[LastText(results)])
          /\ results[LastText(results)] \in ToSet(results)
      BY <1>2, <3>1, <3>2, DisplacingKeeps DEF LaneTyped
    <3>4. results[LastText(results)] \in ToSet(before)
      BY <1>2, <3>3 DEF Keeps
    <3>5. ToSet(s) \ ToSet(before) = Admitted
      BY <1>2, <3>3, <3>4 DEF AdmitInv
    <3>6. Len(s) < limit
      BY <1>2, <1>3, <3>3
    <3>7. QED
      BY <3>3, <3>5, <3>6
  <2>2. CASE ~(Len(results) >= limit)
    BY <1>2, <1>3, <2>2 DEF MakeRoom, AdmitInv
  <2>3. QED
    BY <2>1, <2>2
<1>7. /\ e \in Media /\ e \in gated /\ e \notin ToSet(before) /\ e \notin ToSet(s)
  <2>1. turn + 1 \in DOMAIN inserted
    BY <1>3
  <2>2. e \in ToSet(inserted) /\ e \in Media
    BY <1>2, <1>3, <2>1, ElementOfSeq DEF ToSet, AdmitInv
  <2>3. e \in gated /\ e \notin ToSet(before)
    BY <1>2, <2>2 DEF AdmitInv
  <2>4. e \notin Admitted
    <3>1. \A j \in 1..turn : j \in DOMAIN inserted /\ j # turn + 1
      BY <1>3
    <3>2. QED
      BY <1>2, <2>1, <3>1 DEF Admitted, AdmitInv, IsInjective
  <2>5. QED
    BY <1>6, <2>2, <2>3, <2>4
<1>8. p \in 1..(Len(s) + 1)
  <2>1. Len(s) \in Nat
    BY <1>6, LenProperties
  <2>2. Len(inserted) \in Nat \ {0}
    BY <1>3
  <2>3. QED
    BY <1>3, <2>1, <2>2, PositionInside
<1> HIDE DEF s, e, p
<1>9. /\ results' \in Seq(Hits) /\ Len(results') = Len(s) + 1 /\ Keeps(results')
      /\ ToSet(results') = ToSet(s) \cup {e}
  BY <1>2, <1>5, <1>6, <1>7, <1>8, AdmittingKeeps DEF LaneTyped
<1>10. Len(results') <= limit
  <2>1. Len(s) \in Nat
    BY <1>6, LenProperties
  <2>2. QED
    BY <1>3, <1>6, <1>9, <2>1
<1>11. ToSet(results') \ ToSet(before) = Admitted'
  <2>1. Admitted' = Admitted \cup {e}
    <3>1. 1..(turn + 1) = 1..turn \cup {turn + 1}
      BY <1>3
    <3>2. QED
      BY <1>1, <1>5, <3>1 DEF Admitted, e
  <2>2. QED
    BY <1>6, <1>7, <1>9, <2>1
<1>12. RowsTyped' /\ Media' = Media /\ Hits' = Hits
  BY <1>1, <1>2 DEF RowsTyped, Media, Hits
<1>13. Admissible' = Admissible
  BY <1>1 DEF Admissible, Eligible, Take, WithinGate, TextAt
<1>14. /\ stage' \in {"admit", "done"} /\ turn' \in 0..Len(inserted')
       /\ stage' = "admit" => turn' < Len(inserted')
       /\ stage' = "done" => turn' = Len(inserted')
  <2>1. inserted' = inserted /\ turn' = turn + 1
    BY <1>1, <1>5
  <2>4. Len(inserted) \in Nat /\ turn + 1 \in 0..Len(inserted)
    BY <1>3
  <2>2. CASE turn + 1 = Len(inserted)
    <3>1. stage' = "done"
      BY <1>5, <2>2
    <3>2. QED
      BY <2>4, <2>1, <2>2, <3>1
  <2>3. CASE turn + 1 # Len(inserted)
    <3>1. stage' = "admit"
      BY <1>5, <2>3
    <3>2. QED
      BY <2>4, <2>1, <2>3, <3>1
  <2>5. QED
    BY <2>2, <2>3
<1>15. AdmitInv'
  BY <1>1, <1>2, <1>11, <1>12, <1>13, <1>14 DEF AdmitInv
<1>16. Nearest(candidates)' /\ LaneTyped' /\ Keeps(results)'
  BY <1>1, <1>2, <1>9, <1>12 DEF Nearest, Nearer, LaneTyped, Keeps, TextAt
<1>17. QED
  <2>1. /\ stage' # "scan" /\ stage' # "gate" /\ turn' \in Nat
        /\ stage' \in {"scan", "gate", "admit", "done"}
    <3>1. turn' \in Nat
      <4>1. turn \in Nat
        BY <1>3
      <4>2. turn' = turn + 1
        BY <1>5
      <4>3. QED
        BY <4>1, <4>2
    <3>2. QED
      BY <1>14, <3>1
  <2>2. results' \in Seq(Hits)' /\ Len(results') <= limit'
    BY <1>1, <1>9, <1>10, <1>12
  <2>3. LaneInv'
    BY <1>15, <1>16, <2>1, <2>2 DEF LaneInv
  <2>4. QED
    BY <1>12, <2>1, <2>3 DEF LaneInductiveInv

\* Every step keeps the invariant.
LEMMA StepKeeps == LaneInductiveInv /\ [LaneNext]_laneVars => LaneInductiveInv'
<1> SUFFICES ASSUME LaneInductiveInv, [LaneNext]_laneVars PROVE LaneInductiveInv'
  OBVIOUS
<1>1. CASE UNCHANGED laneVars
  <2>1. UNCHANGED <<candidate_k, distance, rows, heap, candidates, limit, slots, before, gated,
                    results, inserted, turn, stage>>
    BY <1>1 DEF laneVars, scan, input
  <2>2. QED
    <3>1. RowsTyped' = RowsTyped /\ Media' = Media /\ Hits' = Hits
      BY <2>1 DEF RowsTyped, Media, Hits
    <3>2. HeapInv' = HeapInv
      BY <2>1, <3>1 DEF HeapInv, Passed, Entry, Closer
    <3>3. Nearest(candidates)' = Nearest(candidates)
      BY <2>1, <3>1 DEF Nearest, Nearer
    <3>4. Keeps(results)' = Keeps(results)
      BY <2>1 DEF Keeps, TextAt
    <3>5. AdmitInv' = AdmitInv
      BY <2>1, <3>1 DEF AdmitInv, Admitted, Admissible, Eligible, Take, WithinGate, TextAt
    <3>6. LaneTyped' = LaneTyped
      BY <2>1, <3>1 DEF LaneTyped
    <3>7. LaneInv' = LaneInv
      BY <2>1, <3>1, <3>3, <3>4, <3>5, <3>6 DEF LaneInv
    <3>8. QED
      BY <2>1, <3>1, <3>2, <3>7 DEF LaneInductiveInv
<1>2. CASE Scan
  <2>1. stage = "scan" /\ stage' = stage /\ turn' = turn /\ results' = results
    BY <1>2 DEF Scan
  <2>2. QED
    BY <1>2, <2>1, ScanKeeps DEF LaneInductiveInv
<1>3. CASE Blend
  BY <1>3, BlendKeeps
<1>4. CASE Gate
  BY <1>4, GateKeeps
<1>5. CASE Admit
  BY <1>5, AdmitKeeps
<1>6. QED
  BY <1>1, <1>2, <1>3, <1>4, <1>5 DEF LaneNext

\* The invariant holds before the first row, and every step keeps it.
THEOREM LaneInductive == LaneSpec => []LaneInductiveInv
<1>1. LaneInit => LaneInductiveInv
  BY InitScan DEF LaneInit, LaneInductiveInv
<1>2. QED
  BY <1>1, StepKeeps, PTL DEF LaneSpec

\* src/store/mod.rs:608 search_media_vec: for any number of rows in any order
\* the heap ends with the candidate_k nearest, and hands them over nearest first.
THEOREM NearestAreHandedOver == LaneSpec => []NearestAreConsidered
<1>1. LaneInductiveInv => NearestAreConsidered
  BY DEF LaneInductiveInv, LaneInv, Nearest, Nearer, NearestAreConsidered
<1>2. QED
  BY <1>1, LaneInductive, PTL

\* src/search/mod.rs:517 insert_media_lane: for any fusion, limit, share and
\* gates, no media of the fusion is displaced or doubled, the text that is
\* displaced is the last, and what stays keeps its order.
THEOREM FusionStays == LaneSpec => []FusionIsKept
<1>1. LaneInductiveInv => FusionIsKept
  BY DEF LaneInductiveInv, LaneInv, Keeps, FusionIsKept
<1>2. QED
  BY <1>1, LaneInductive, PTL

\* src/search/mod.rs:517 insert_media_lane: the lane admits exactly as many as
\* the share, the gates and the displaceable text allow, all within their gate.
THEOREM LaneAdmitsAllItMay == LaneSpec => []LaneIsFilled
<1>1. LaneInductiveInv => LaneIsFilled
  <2> SUFFICES ASSUME LaneInductiveInv PROVE LaneIsFilled
    OBVIOUS
  <2> DEFINE added == ToSet(results) \ ToSet(before)
             eligible == gated \ ToSet(before)
             room == (limit - Len(before)) + Cardinality(TextAt(before))
  <2>1. CASE stage = "scan"
    BY <2>1 DEF LaneInductiveInv, LaneIsFilled, ToSet
  <2>2. CASE stage = "gate"
    BY <2>2 DEF LaneInductiveInv, LaneInv, LaneIsFilled
  <2>3. CASE stage \in {"admit", "done"}
    <3>1. RowsTyped /\ Nearest(candidates) /\ LaneTyped /\ AdmitInv
      BY <2>3 DEF LaneInductiveInv, LaneInv
    <3>2. added = Admitted /\ DOMAIN inserted = 1..Len(inserted) /\ Len(inserted) \in Nat
      BY <3>1, LenProperties DEF AdmitInv
    <3>3. Admitted \subseteq ToSet(inserted)
      BY <3>1, <3>2 DEF Admitted, AdmitInv, ToSet
    <3>4. added \subseteq gated
      BY <3>1, <3>2, <3>3 DEF AdmitInv
    <3>5. stage = "done" => Cardinality(added) = Len(inserted)
      <4>1. SUFFICES ASSUME stage = "done" PROVE Cardinality(Admitted) = Len(inserted)
        BY <3>2
      <4>2. Admitted = {inserted[m] : m \in DOMAIN inserted}
        BY <3>1, <3>2, <4>1 DEF Admitted, AdmitInv
      <4>3. Cardinality(Admitted) = Cardinality(DOMAIN inserted)
        <5>1. inserted \in Seq(Media) /\ IsInjective(inserted)
          BY <3>1 DEF AdmitInv
        <5>2. \A P \in SUBSET DOMAIN inserted :
                Cardinality({inserted[m] : m \in P}) = Cardinality(P)
          BY <5>1, ElementsAt
        <5>3. QED
          BY <4>2, <5>2
      <4>4. \A n \in Nat : Cardinality(1..n) = n
        BY FS_Interval
      <4>5. QED
        BY <3>2, <4>3, <4>4
    <3>6. Len(inserted) = Least(Least(slots, Cardinality(eligible)), room)
      <4>1. /\ Cardinality(eligible) \in Nat
            /\ Len(Eligible) = Least(slots, Cardinality(eligible))
            /\ Cardinality(TextAt(before)) \in Nat
            /\ Admissible = Least(room, Len(Eligible))
        BY <3>1, RoomCounted
      <4>2. limit - Len(before) \in Nat /\ slots \in Nat
        BY <3>1, LenProperties DEF LaneTyped
      <4>3. Len(inserted) = Least(room, Least(slots, Cardinality(eligible)))
        BY <3>1, <4>1 DEF AdmitInv
      <4> HIDE DEF eligible
      <4>4. \A x, y \in Int : Least(x, y) = Least(y, x)
        BY DEF Least
      <4>5. Least(slots, Cardinality(eligible)) \in Int /\ room \in Int
        BY <4>1, <4>2 DEF Least
      <4>6. QED
        BY <4>3, <4>4, <4>5
    <3>7. QED
      BY <3>4, <3>5, <3>6 DEF LaneIsFilled
  <2>4. QED
    BY <2>1, <2>2, <2>3 DEF LaneInductiveInv
<1>2. QED
  BY <1>1, LaneInductive, PTL

=============================================================================
