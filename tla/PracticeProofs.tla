--------------------------- MODULE PracticeProofs ---------------------------
(***************************************************************************)
(* Theorems about Practice, for any puzzles, diagnoses, requests and       *)
(* bounds: what the surfaces may show, that the queue serves in order,     *)
(* that surfaces which report the same fact agree, and that a solved line  *)
(* is one that /check called solved.                                       *)
(***************************************************************************)
EXTENDS Practice, FiniteSetTheorems, SequenceTheorems, WellFoundedInduction, TLAPS

-----------------------------------------------------------------------------
(* Numbers *)

LEMMA LeastNumber ==
    ASSUME NEW T \in SUBSET Nat, T # {}
    PROVE  \E n \in T : \A m \in T : n <= m
<1>1. PICK n \in T : \A m \in T : ~(<<m, n>> \in OpToRel(<, Nat))
  BY WFMin, NatLessThanWellFounded
<1>2. \A m \in T : ~(m < n)
  BY <1>1 DEF OpToRel
<1> QED BY <1>2

LEMMA NumberInduction ==
    ASSUME NEW T \in SUBSET Nat, 0 \in T, \A n \in T : n + 1 \in T
    PROVE  T = Nat
<1> SUFFICES ASSUME Nat \ T # {} PROVE FALSE
  OBVIOUS
<1>1. PICK n \in Nat \ T : \A m \in Nat \ T : n <= m
  BY LeastNumber
<1>2. n # 0 /\ n - 1 \in Nat /\ n - 1 \in T
  BY <1>1
<1>3. n - 1 + 1 \in T
  BY <1>2
<1> QED BY <1>1, <1>3

\* What holds at 0 and passes from each number to the next up to n holds at n.
LEMMA UptoInduction ==
    ASSUME NEW n \in Nat, NEW T, 0 \in T, \A i \in 1..n : i - 1 \in T => i \in T
    PROVE  \A i \in 0..n : i \in T
<1> DEFINE U == {i \in Nat : i <= n => i \in T}
<1>1. 0 \in U
  OBVIOUS
<1>2. ASSUME NEW i \in U PROVE i + 1 \in U
  <2> SUFFICES ASSUME i + 1 <= n PROVE i + 1 \in T
    OBVIOUS
  <2>1. i \in T /\ i + 1 \in 1..n /\ (i + 1) - 1 = i
    OBVIOUS
  <2> QED BY <2>1
<1>3. U = Nat
  <2>1. U \in SUBSET Nat
    OBVIOUS
  <2> HIDE DEF U
  <2> QED BY <1>1, <1>2, <2>1, NumberInduction
<1> QED BY <1>3

Above(S, x) == {y \in S : y > x}

\* A finite set of numbers that is not empty has a greatest and a least one.
LEMMA GreatestOfFinite ==
    ASSUME NEW S \in SUBSET Int, IsFiniteSet(S), S # {}
    PROVE  Max(S) \in S /\ \A y \in S : Max(S) >= y
<1> DEFINE Sizes == {n \in Nat : \E x \in S : n = Cardinality(Above(S, x))}
<1>1. \A x \in S : IsFiniteSet(Above(S, x)) /\ Cardinality(Above(S, x)) \in Nat
  BY FS_Subset, FS_CardinalityType DEF Above
<1>2. PICK least \in Sizes : \A m \in Sizes : least <= m
  <2>1. Sizes \in SUBSET Nat /\ Sizes # {}
    BY <1>1
  <2> HIDE DEF Sizes
  <2> QED BY <2>1, LeastNumber
<1>3. PICK x \in S : Cardinality(Above(S, x)) = least
  BY <1>2
<1>4. \A y \in S : x >= y
  <2> SUFFICES ASSUME NEW y \in S, y > x PROVE FALSE
    BY SMT
  <2>1. Above(S, y) \subseteq Above(S, x) /\ y \in Above(S, x) /\ y \notin Above(S, y)
    <3>1. x \in Int /\ y \in Int /\ y > x
      OBVIOUS
    <3>2. \A z \in S : z > y => z > x
      BY <3>1
    <3>3. ~(y > y)
      BY <3>1
    <3> QED BY <3>1, <3>2, <3>3, Zenon DEF Above
  <2>2. Cardinality(Above(S, y)) < Cardinality(Above(S, x))
    <3>1. Above(S, y) # Above(S, x)
      BY <2>1
    <3> QED BY <1>1, <2>1, <3>1, FS_Subset
  <2>3. Cardinality(Above(S, y)) \in Sizes
    BY <1>1
  <2>4. least <= Cardinality(Above(S, y)) /\ least \in Nat
    BY <1>2, <2>3
  <2>5. Cardinality(Above(S, y)) \in Nat
    BY <1>1
  <2> QED BY <1>3, <2>2, <2>4, <2>5
<1> QED BY <1>4 DEF Max

LEMMA LeastOfFinite ==
    ASSUME NEW S \in SUBSET Int, IsFiniteSet(S), S # {}
    PROVE  Min(S) \in S /\ \A y \in S : Min(S) <= y
<1> DEFINE N == {n \in Int : -n \in S}
           f == [x \in S |-> -x]
<1>1. f \in Surjection(S, N)
  <2>1. f \in [S -> N]
    OBVIOUS
  <2>2. \A n \in N : \E x \in S : f[x] = n
    <3> TAKE n \in N
    <3>1. -n \in S /\ f[-n] = n
      OBVIOUS
    <3> QED BY <3>1
  <2> HIDE DEF f
  <2> QED BY <2>1, <2>2 DEF Surjection
<1>2. IsFiniteSet(N) /\ N \in SUBSET Int /\ N # {}
  <2>1. N \in SUBSET Int
    OBVIOUS
  <2>2. IsFiniteSet(N)
    <3> HIDE DEF N, f
    <3> QED BY <1>1, FS_Surjection
  <2>3. N # {}
    <3>1. PICK x \in S : TRUE
      OBVIOUS
    <3>2. -x \in N
      OBVIOUS
    <3> QED BY <3>2
  <2> QED BY <2>1, <2>2, <2>3
<1>3. Max(N) \in N /\ \A y \in N : Max(N) >= y
  BY <1>2, GreatestOfFinite
<1> DEFINE x == -Max(N)
<1>4. x \in S /\ x \in Int
  BY <1>2, <1>3
<1>5. \A y \in S : x <= y
  <2> TAKE y \in S
  <2>1. -y \in N
    OBVIOUS
  <2>2. Max(N) >= -y /\ Max(N) \in Int
    BY <1>2, <1>3, <2>1
  <2> HIDE DEF N
  <2> QED BY <2>2
<1> HIDE DEF x
<1> QED BY <1>4, <1>5 DEF Min

LEMMA MinOfTwo ==
    ASSUME NEW a \in Int, NEW b \in Int
    PROVE  Min({a, b}) = IF a <= b THEN a ELSE b
BY DEF Min

LEMMA MaxOfTwo ==
    ASSUME NEW a \in Int, NEW b \in Int
    PROVE  Max({a, b}) = IF a >= b THEN a ELSE b
BY DEF Max

-----------------------------------------------------------------------------
(* Sorting *)

LEMMA BeforeIsOrder ==
    ASSUME NEW n \in Nat
    PROVE  /\ \A a \in [1..n -> Int] : ~Before(a, a)
           /\ \A a, b, c \in [1..n -> Int] : Before(a, b) /\ Before(b, c) => Before(a, c)
           /\ \A a, b \in [1..n -> Int] : a # b => Before(a, b) \/ Before(b, a)
<1>1. \A a \in [1..n -> Int] : ~Before(a, a)
  BY DEF Before
<1>2. ASSUME NEW a \in [1..n -> Int], NEW b \in [1..n -> Int], NEW c \in [1..n -> Int],
             Before(a, b), Before(b, c)
      PROVE  Before(a, c)
  <2>1. PICK i \in 1..n : a[i] < b[i] /\ \A j \in 1..(i - 1) : a[j] = b[j]
    BY <1>2 DEF Before
  <2>2. PICK k \in 1..n : b[k] < c[k] /\ \A j \in 1..(k - 1) : b[j] = c[j]
    BY <1>2 DEF Before
  <2>3. CASE i <= k
    <3>1. a[i] < c[i]
      <4>1. CASE i = k
        BY <2>1, <2>2, <4>1
      <4>2. CASE i # k
        <5>1. b[i] = c[i]
          BY <2>2, <2>3, <4>2
        <5> QED BY <2>1, <5>1
      <4> QED BY <4>1, <4>2
    <3>2. \A j \in 1..(i - 1) : a[j] = c[j]
      BY <2>1, <2>2, <2>3
    <3> QED BY <3>1, <3>2 DEF Before
  <2>4. CASE k < i
    <3>1. a[k] < c[k]
      BY <2>1, <2>2, <2>4
    <3>2. \A j \in 1..(k - 1) : a[j] = c[j]
      BY <2>1, <2>2, <2>4
    <3> QED BY <3>1, <3>2 DEF Before
  <2> QED BY <2>3, <2>4
<1>3. ASSUME NEW a \in [1..n -> Int], NEW b \in [1..n -> Int], a # b
      PROVE  Before(a, b) \/ Before(b, a)
  <2> DEFINE D == {i \in 1..n : a[i] # b[i]}
  <2>1. D # {} /\ D \in SUBSET Nat
    BY <1>3
  <2>2. PICK i \in D : \A m \in D : i <= m
    BY <2>1, LeastNumber
  <2>3. \A j \in 1..(i - 1) : a[j] = b[j]
    BY <2>2
  <2> QED BY <2>2, <2>3 DEF Before
<1> QED BY <1>1, <1>2, <1>3

\* keyed holds pairs of a distinct key of n numbers and what it sorts.
Keyed(keyed, n) ==
    /\ IsFiniteSet(keyed)
    /\ \A k \in keyed : k[1] \in [1..n -> Int]
    /\ \A k, l \in keyed : k[1] = l[1] => k = l

\* Sorting puts every pair in one place, by its key.
LEMMA InOrderSorts ==
    ASSUME NEW keyed, NEW n \in Nat, Keyed(keyed, n)
    PROVE  \E e \in [1..Cardinality(keyed) -> keyed] :
              /\ InOrder(keyed) = [i \in 1..Cardinality(keyed) |-> e[i][2]]
              /\ \A k \in keyed : \E i \in 1..Cardinality(keyed) : e[i] = k
              /\ \A i, j \in 1..Cardinality(keyed) : i < j => Before(e[i][1], e[j][1])
<1> DEFINE N == Cardinality(keyed)
           Below(k) == {other \in keyed : Before(other[1], k[1])}
           Rank(k) == Cardinality(Below(k)) + 1
           r == [k \in keyed |-> Rank(k)]
<1>1. N \in Nat /\ \A k \in keyed : IsFiniteSet(Below(k)) /\ Cardinality(Below(k)) \in Nat
  BY FS_Subset, FS_CardinalityType DEF Keyed
<1>2. \A k \in keyed : k \notin Below(k)
  BY BeforeIsOrder DEF Keyed
<1>3. \A k \in keyed : Rank(k) \in 1..N
  <2> TAKE k \in keyed
  <2>1. Below(k) \subseteq keyed /\ Below(k) # keyed
    BY <1>2
  <2>2. Cardinality(Below(k)) < N
    <3> HIDE DEF Below
    <3> QED BY <1>1, <2>1, FS_Subset DEF Keyed
  <2> QED BY <1>1, <2>2
<1>4. ASSUME NEW k \in keyed, NEW l \in keyed, Before(k[1], l[1])
      PROVE  Rank(k) < Rank(l)
  <2>1. Below(k) \subseteq Below(l) /\ k \in Below(l)
    BY <1>4, BeforeIsOrder DEF Keyed
  <2>2. Below(k) # Below(l)
    BY <1>2, <2>1
  <2>3. Cardinality(Below(k)) < Cardinality(Below(l))
    <3> HIDE DEF Below
    <3> QED BY <1>1, <2>1, <2>2, FS_Subset
  <2> HIDE DEF Below
  <2> QED BY <1>1, <2>3
<1>5. \A k, l \in keyed : k # l => Before(k[1], l[1]) \/ Before(l[1], k[1])
  BY BeforeIsOrder DEF Keyed
<1>6. \A k, l \in keyed : k # l => Rank(k) # Rank(l)
  <2> HIDE DEF Rank
  <2> QED BY <1>3, <1>4, <1>5
<1>7. r \in Injection(keyed, 1..N)
  <2> HIDE DEF Rank
  <2> QED BY <1>3, <1>6 DEF Injection, IsInjective
<1>8. r \in Surjection(keyed, 1..N)
  <2>1. IsFiniteSet(1..N) /\ Cardinality(1..N) = N
    BY <1>1, FS_Interval
  <2> HIDE DEF r
  <2> QED BY <1>7, <2>1, FS_Injection
<1>9. \A i \in 1..N : \E k \in keyed : Rank(k) = i
  <2> HIDE DEF Rank
  <2> QED BY <1>8 DEF Surjection
<1> DEFINE e == [i \in 1..N |-> CHOOSE k \in keyed : Rank(k) = i]
<1>10. \A i \in 1..N : e[i] \in keyed /\ Rank(e[i]) = i
  <2> HIDE DEF Rank
  <2> QED BY <1>9
<1>11. e \in [1..N -> keyed]
  <2> HIDE DEF Rank
  <2> QED BY <1>10
<1>12. InOrder(keyed) = [i \in 1..N |-> e[i][2]]
  BY DEF InOrder
<1>13. \A k \in keyed : \E i \in 1..N : e[i] = k
  <2> TAKE k \in keyed
  <2> HIDE DEF Rank, e
  <2>1. Rank(k) \in 1..N
    BY <1>3
  <2>2. e[Rank(k)] = k
    BY <1>6, <1>10, <2>1
  <2> QED BY <2>1, <2>2
<1>14. ASSUME NEW i \in 1..N, NEW j \in 1..N, i < j PROVE Before(e[i][1], e[j][1])
  <2> HIDE DEF Rank, e
  <2>1. e[i] # e[j]
    BY <1>10, <1>14
  <2>2. ~Before(e[j][1], e[i][1])
    BY <1>1, <1>4, <1>10, <1>14
  <2> QED BY <1>5, <1>10, <2>1, <2>2
<1> HIDE DEF e
<1> QED BY <1>11, <1>12, <1>13, <1>14

\* What sorting the members of S by the keys f gives.
Sorted(s, S, f) ==
    /\ s \in [1..Cardinality(S) -> S]
    /\ \A x \in S : \E i \in 1..Cardinality(S) : s[i] = x
    /\ \A i, j \in 1..Cardinality(S) : i < j => Before(f[s[i]], f[s[j]]) /\ s[i] # s[j]

LEMMA SortedIsSorted ==
    ASSUME NEW S, IsFiniteSet(S), NEW n \in Nat, NEW f \in [S -> [1..n -> Int]],
           \A x, y \in S : f[x] = f[y] => x = y
    PROVE  Sorted(InOrder({<<f[x], x>> : x \in S}), S, f)
<1> DEFINE K == {<<f[x], x>> : x \in S}
           pair == [x \in S |-> <<f[x], x>>]
<1>1. pair \in Surjection(S, K) /\ pair \in Injection(S, K)
  BY DEF Surjection, Injection, IsInjective
<1>2. IsFiniteSet(K) /\ Cardinality(K) = Cardinality(S)
  <2> HIDE DEF K, pair
  <2> QED BY <1>1, FS_Surjection
<1>3. \A k \in K : k[2] \in S /\ k[1] = f[k[2]] /\ k = <<f[k[2]], k[2]>>
  OBVIOUS
<1>4. Keyed(K, n)
  <2> HIDE DEF K
  <2> QED BY <1>2, <1>3 DEF Keyed
<1>5. \A x \in S : <<f[x], x>> \in K
  OBVIOUS
<1> HIDE DEF K
<1>6. PICK e \in [1..Cardinality(K) -> K] :
          /\ InOrder(K) = [i \in 1..Cardinality(K) |-> e[i][2]]
          /\ \A k \in K : \E i \in 1..Cardinality(K) : e[i] = k
          /\ \A i, j \in 1..Cardinality(K) : i < j => Before(e[i][1], e[j][1])
  BY <1>4, InOrderSorts
<1> DEFINE s == InOrder(K)
<1>7. s \in [1..Cardinality(S) -> S] /\ \A i \in 1..Cardinality(S) : s[i] = e[i][2]
  BY <1>2, <1>3, <1>6
<1>8. \A x \in S : \E i \in 1..Cardinality(S) : s[i] = x
  <2> TAKE x \in S
  <2>1. PICK i \in 1..Cardinality(S) : e[i] = <<f[x], x>>
    BY <1>2, <1>5, <1>6
  <2>2. s[i] = x
    <3> HIDE DEF s
    <3> QED BY <1>7, <2>1
  <2> QED BY <2>2
<1>9. ASSUME NEW i \in 1..Cardinality(S), NEW j \in 1..Cardinality(S), i < j
      PROVE  Before(f[s[i]], f[s[j]]) /\ s[i] # s[j]
  <2>1. Before(e[i][1], e[j][1])
    BY <1>2, <1>6, <1>9
  <2>2. e[i] \in K /\ e[j] \in K
    BY <1>2, <1>6
  <2>3. Before(f[s[i]], f[s[j]])
    BY <1>3, <1>7, <2>1, <2>2
  <2>4. f[s[i]] \in [1..n -> Int]
    BY <1>7
  <2> HIDE DEF s
  <2> QED BY <2>3, <2>4, BeforeIsOrder
<1>10. Sorted(s, S, f)
  <2> HIDE DEF s
  <2> QED BY <1>7, <1>8, <1>9 DEF Sorted
<1> QED BY <1>10 DEF K

-----------------------------------------------------------------------------
(* Folds.  A fold from the left takes the greatest index out of a set of   *)
(* indices; its steps are given as a function, so that the lemma takes no  *)
(* operator.                                                               *)

LEMMA GreatestIndex ==
    ASSUME NEW n \in Nat, NEW T \in SUBSET (1..n), T # {}
    PROVE  Max(T) \in T /\ Max(T) \in 1..n
<1>1. IsFiniteSet(1..n) /\ 1..n \in SUBSET Int
  BY FS_Interval
<1>2. IsFiniteSet(T) /\ T \in SUBSET Int
  BY <1>1, FS_Subset
<1> QED BY <1>2, GreatestOfFinite

LEMMA Prefix ==
    ASSUME NEW n \in Nat, NEW i \in 1..n
    PROVE  /\ 1..i \in SUBSET (1..n) /\ 1..i # {}
           /\ Max(1..i) = i /\ (1..i) \ {Max(1..i)} = 1..(i - 1)
<1>1. 1..i \in SUBSET (1..n) /\ i \in 1..i
  OBVIOUS
<1>2. (1..i) \ {i} = 1..(i - 1)
  OBVIOUS
<1>3. \A y \in 1..i : i >= y
  OBVIOUS
<1>4. Max(1..i) = i
  BY <1>1, <1>3 DEF Max
<1> QED BY <1>1, <1>2, <1>4

\* h folds the steps st over the subsets of 1..n.
Folds(h, st, base, n) ==
    h = [T \in SUBSET (1..n) |->
            IF T = {} THEN base ELSE st[<<h[T \ {Max(T)}], Max(T)>>]]

LEMMA FoldsExist ==
    ASSUME NEW n \in Nat, NEW A, NEW base \in A, NEW st \in [A \X (1..n) -> A]
    PROVE  \E h : Folds(h, st, base, n) /\ h \in [SUBSET (1..n) -> A]
<1> DEFINE D == 1..n
           Small(m) == {T \in SUBSET D : Cardinality(T) <= m}
           On(h, m) == h = [T \in Small(m) |->
                               IF T = {} THEN base ELSE st[<<h[T \ {Max(T)}], Max(T)>>]]
           Good == {m \in Nat : \E h : On(h, m) /\ h \in [Small(m) -> A]}
<1>1. IsFiniteSet(D) /\ Cardinality(D) \in Nat
  BY FS_Interval, FS_CardinalityType
<1>2. \A T \in SUBSET D : IsFiniteSet(T) /\ Cardinality(T) \in Nat
  BY <1>1, FS_Subset, FS_CardinalityType
<1>3. 0 \in Good
  <2>1. \A T \in Small(0) : T = {}
    BY <1>2, FS_EmptySet
  <2>2. On([T \in Small(0) |-> base], 0)
    BY <2>1
  <2>3. [T \in Small(0) |-> base] \in [Small(0) -> A]
    OBVIOUS
  <2> HIDE DEF On
  <2> QED BY <2>2, <2>3
<1>4. ASSUME NEW m \in Good PROVE m + 1 \in Good
  <2>1. PICK h : On(h, m) /\ h \in [Small(m) -> A]
    BY <1>4
  <2> DEFINE k == [T \in Small(m + 1) |->
                      IF T = {} THEN base ELSE st[<<h[T \ {Max(T)}], Max(T)>>]]
  <2>2. ASSUME NEW T \in Small(m + 1), T # {}
        PROVE  /\ Max(T) \in 1..n
               /\ T \ {Max(T)} \in Small(m) /\ T \ {Max(T)} \in Small(m + 1)
    <3>1. Max(T) \in T /\ Max(T) \in 1..n
      BY <2>2, GreatestIndex
    <3>2. Cardinality(T \ {Max(T)}) = Cardinality(T) - 1
      BY <1>2, <3>1, FS_RemoveElement
    <3>3. m \in Nat /\ Cardinality(T) <= m + 1 /\ Cardinality(T) \in Nat
      BY <1>2
    <3>4. T \ {Max(T)} \in SUBSET D
      OBVIOUS
    <3>5. Cardinality(T \ {Max(T)}) <= m /\ Cardinality(T \ {Max(T)}) <= m + 1
      BY <3>2, <3>3
    <3> QED BY <3>1, <3>4, <3>5
  <2>3. \A T \in Small(m) : T \in Small(m + 1) /\ k[T] = h[T]
    <3>1. \A T \in Small(m) : T \in Small(m + 1)
      BY <1>2
    <3>2. \A T \in Small(m) :
              h[T] = IF T = {} THEN base ELSE st[<<h[T \ {Max(T)}], Max(T)>>]
      <4> HIDE DEF Small
      <4> QED BY <2>1
    <3> HIDE DEF Small
    <3> QED BY <3>1, <3>2
  <2>4. On(k, m + 1)
    <3> HIDE DEF Small
    <3>1. \A T \in Small(m + 1) :
              (IF T = {} THEN base ELSE st[<<h[T \ {Max(T)}], Max(T)>>])
                = (IF T = {} THEN base ELSE st[<<k[T \ {Max(T)}], Max(T)>>])
      <4> HIDE DEF k
      <4> QED BY <2>2, <2>3
    <3> QED BY <3>1
  <2>5. k \in [Small(m + 1) -> A]
    <3> HIDE DEF Small
    <3>1. \A T \in Small(m + 1) : T # {} => st[<<h[T \ {Max(T)}], Max(T)>>] \in A
      BY <2>1, <2>2
    <3> QED BY <3>1
  <2> HIDE DEF On, k, Small
  <2> QED BY <2>4, <2>5
<1>5. Cardinality(D) \in Good
  <2>1. Good \in SUBSET Nat
    OBVIOUS
  <2> HIDE DEF Good
  <2> QED BY <1>1, <1>3, <1>4, <2>1, NumberInduction
<1>6. PICK h : On(h, Cardinality(D)) /\ h \in [Small(Cardinality(D)) -> A]
  BY <1>5
<1>7. Small(Cardinality(D)) = SUBSET D
  BY <1>1, <1>2, FS_Subset
<1>8. Folds(h, st, base, n) /\ h \in [SUBSET D -> A]
  <2> HIDE DEF Small
  <2> QED BY <1>6, <1>7 DEF Folds
<1> QED BY <1>8

\* The puzzles of one tier of s, one after the other.
RunsTier(r, n, s, t, rows, at) ==
    /\ r[0] = << >>
    /\ \A i \in 1..n : r[i] = InTier(r[i - 1], s[i], t, rows, at)
    /\ OfTier(s, t, rows, at) = r[n]

LEMMA TierRun ==
    ASSUME NEW n \in Nat, NEW S, NEW s \in [1..n -> S], NEW t, NEW rows, NEW at
    PROVE  \E r \in [0..n -> Seq(S)] : RunsTier(r, n, s, t, rows, at)
<1> DEFINE Op(a, i) == InTier(a, s[i], t, rows, at)
           st == [x \in Seq(S) \X (1..n) |-> Op(x[1], x[2])]
           Runs(h) == h = [T \in SUBSET (1..n) |->
                              IF T = {} THEN << >> ELSE Op(h[T \ {Max(T)}], Max(T))]
           run == CHOOSE h : Runs(h)
<1>1. \A a \in Seq(S) : \A i \in 1..n : Op(a, i) \in Seq(S)
  BY DEF InTier
<1>2. st \in [Seq(S) \X (1..n) -> Seq(S)]
  <2> HIDE DEF Op
  <2> QED BY <1>1
<1>3. << >> \in Seq(S)
  OBVIOUS
<1>4. PICK h : Folds(h, st, << >>, n) /\ h \in [SUBSET (1..n) -> Seq(S)]
  <2> HIDE DEF st
  <2> QED BY <1>2, <1>3, FoldsExist
<1>5. Runs(h)
  <2>1. \A T \in SUBSET (1..n) : T # {} =>
            st[<<h[T \ {Max(T)}], Max(T)>>] = Op(h[T \ {Max(T)}], Max(T))
    <3> HIDE DEF Op
    <3>1. \A T \in SUBSET (1..n) : T # {} => Max(T) \in 1..n
      BY GreatestIndex
    <3>2. \A T \in SUBSET (1..n) : h[T \ {Max(T)}] \in Seq(S)
      BY <1>4
    <3> QED BY <3>1, <3>2
  <2> HIDE DEF st, Op
  <2> QED BY <1>4, <2>1 DEF Folds
<1>6. Runs(run)
  <2> HIDE DEF Runs
  <2> QED BY <1>5
<1>7. OfTier(s, t, rows, at) = run[1..n]
  BY DEF OfTier, FoldLeft, MapThenFoldSet
<1>8. \A T \in SUBSET (1..n) : run[T] = IF T = {} THEN << >>
                                        ELSE Op(run[T \ {Max(T)}], Max(T))
  <2> HIDE DEF run, Op
  <2> QED BY <1>6
<1> DEFINE r == [i \in 0..n |-> run[1..i]]
<1>9. r[0] = << >> /\ r[n] = run[1..n]
  <2>1. {} \in SUBSET (1..n) /\ 1..0 = {} /\ 0 \in 0..n /\ n \in 0..n
    OBVIOUS
  <2> HIDE DEF run, Op
  <2> QED BY <1>8, <2>1
<1>10. \A i \in 1..n : r[i] = Op(r[i - 1], i)
  <2> TAKE i \in 1..n
  <2>1. run[1..i] = Op(run[1..(i - 1)], i)
    <3> HIDE DEF run, Op
    <3>1. /\ 1..i \in SUBSET (1..n) /\ 1..i # {}
          /\ Max(1..i) = i /\ (1..i) \ {Max(1..i)} = 1..(i - 1)
      BY Prefix
    <3> QED BY <1>8, <3>1
  <2>2. i \in 0..n /\ i - 1 \in 0..n
    OBVIOUS
  <2> HIDE DEF run, Op
  <2> QED BY <2>1, <2>2
<1>11. r \in [0..n -> Seq(S)]
  <2>1. \A i \in 0..n : r[i] \in Seq(S)
    <3> DEFINE Typed == {i \in 0..n : r[i] \in Seq(S)}
    <3>1. 0 \in Typed
      <4>1. 0 \in 0..n
        OBVIOUS
      <4> HIDE DEF r
      <4> QED BY <1>3, <1>9, <4>1
    <3>2. \A i \in 1..n : i - 1 \in Typed => i \in Typed
      <4> HIDE DEF Op, r
      <4> QED BY <1>1, <1>10
    <3> HIDE DEF Typed
    <3>3. \A i \in 0..n : i \in Typed
      BY <3>1, <3>2, UptoInduction
    <3> QED BY <3>3 DEF Typed
  <2> HIDE DEF run
  <2> QED BY <2>1
<1> HIDE DEF r, run
<1> QED BY <1>7, <1>9, <1>10, <1>11 DEF RunsTier

-----------------------------------------------------------------------------
(* Lists *)

\* The sequence q lists the members of X, each once.
Lists(q, X) ==
    /\ q \in Seq(X)
    /\ \A i, j \in 1..Len(q) : i # j => q[i] # q[j]
    /\ \A x \in X : \E i \in 1..Len(q) : q[i] = x

LEMMA ListsCount ==
    ASSUME NEW q, NEW X, Lists(q, X)
    PROVE  Len(q) \in Nat /\ IsFiniteSet(X) /\ Len(q) = Cardinality(X)
<1>1. Len(q) \in Nat /\ q \in [1..Len(q) -> X]
  BY DEF Lists
<1>2. q \in Bijection(1..Len(q), X)
  <2>1. q \in Injection(1..Len(q), X)
    BY <1>1 DEF Lists, Injection, IsInjective
  <2>2. q \in Surjection(1..Len(q), X)
    BY <1>1 DEF Lists, Surjection
  <2> QED BY <2>1, <2>2 DEF Bijection
<1>3. IsFiniteSet(1..Len(q)) /\ Cardinality(1..Len(q)) = Len(q)
  BY <1>1, FS_Interval
<1> QED BY <1>1, <1>2, <1>3, FS_Bijection DEF ExistsBijection

LEMMA ListsNothing == Lists(<< >>, {})
BY DEF Lists

LEMMA ListsMore ==
    ASSUME NEW q, NEW X, Lists(q, X), NEW x, x \notin X
    PROVE  Lists(Append(q, x), X \union {x})
<1> DEFINE r == Append(q, x)
           n == Len(q)
<1>1. n \in Nat /\ q \in Seq(X \union {x}) /\ \A i \in 1..n : q[i] \in X
  BY DEF Lists
<1>2. /\ r \in Seq(X \union {x}) /\ Len(r) = n + 1
      /\ \A i \in 1..n : r[i] = q[i]
      /\ r[n + 1] = x
  BY <1>1
<1> HIDE DEF r
<1>3. \A i, j \in 1..Len(r) : i # j => r[i] # r[j]
  <2> TAKE i, j \in 1..Len(r)
  <2>1. \A k \in 1..Len(r) : k \in 1..n \/ k = n + 1
    BY <1>1, <1>2
  <2> HIDE DEF n
  <2>2. \A k, l \in 1..n : k # l => q[k] # q[l]
    BY DEF Lists, n
  <2> QED BY <1>1, <1>2, <2>1, <2>2
<1>4. \A y \in X \union {x} : \E i \in 1..Len(r) : r[i] = y
  <2> TAKE y \in X \union {x}
  <2>1. CASE y \in X
    <3>1. PICK i \in 1..n : q[i] = y
      BY <2>1 DEF Lists
    <3> QED BY <1>1, <1>2, <3>1
  <2>2. CASE y = x
    <3>1. n + 1 \in 1..Len(r)
      BY <1>1, <1>2
    <3> QED BY <1>2, <2>2, <3>1
  <2> QED BY <2>1, <2>2
<1> QED BY <1>2, <1>3, <1>4 DEF Lists, r

LEMMA ListsBoth ==
    ASSUME NEW q, NEW X, Lists(q, X), NEW r, NEW Y, Lists(r, Y), X \cap Y = {}
    PROVE  /\ Lists(q \o r, X \union Y)
           /\ Len(q \o r) = Len(q) + Len(r)
           /\ \A i \in 1..Len(q) : (q \o r)[i] = q[i]
           /\ \A i \in 1..Len(r) : (q \o r)[Len(q) + i] = r[i]
<1> DEFINE c == q \o r
           n == Len(q)
           m == Len(r)
<1>1. n \in Nat /\ m \in Nat /\ q \in Seq(X \union Y) /\ r \in Seq(X \union Y)
  BY DEF Lists
<1>2. /\ c \in Seq(X \union Y) /\ Len(c) = n + m
      /\ \A i \in 1..n : c[i] = q[i]
      /\ \A i \in 1..m : c[n + i] = r[i]
  BY <1>1
<1>3. (\A i \in 1..n : q[i] \in X) /\ (\A i \in 1..m : r[i] \in Y)
  BY DEF Lists
<1>4. /\ \A i, j \in 1..n : i # j => q[i] # q[j]
      /\ \A i, j \in 1..m : i # j => r[i] # r[j]
      /\ \A x \in X : \E i \in 1..n : q[i] = x
      /\ \A x \in Y : \E i \in 1..m : r[i] = x
  BY DEF Lists
<1> HIDE DEF c, n, m
<1>5. \A i \in 1..Len(c) : \/ i \in 1..n /\ c[i] = q[i]
                           \/ i - n \in 1..m /\ c[i] = r[i - n]
  <2> TAKE i \in 1..Len(c)
  <2>1. CASE i <= n
    BY <1>1, <1>2, <2>1
  <2>2. CASE i > n
    <3>1. i - n \in 1..m /\ n + (i - n) = i
      BY <1>1, <1>2, <2>2
    <3> QED BY <1>2, <3>1
  <2> QED BY <1>1, <2>1, <2>2
<1>6. \A i, j \in 1..Len(c) : i # j => c[i] # c[j]
  <2> SUFFICES ASSUME NEW i \in 1..Len(c), NEW j \in 1..Len(c), i # j
               PROVE  c[i] # c[j]
    OBVIOUS
  <2>1. i - n # j - n
    BY <1>1, <1>2
  <2>2. \A x \in X : x \notin Y
    OBVIOUS
  <2> QED BY <1>3, <1>4, <1>5, <2>1, <2>2
<1>7. \A y \in X \union Y : \E i \in 1..Len(c) : c[i] = y
  <2> TAKE y \in X \union Y
  <2>1. CASE y \in X
    <3>1. PICK i \in 1..n : q[i] = y
      BY <1>4, <2>1
    <3>2. i \in 1..Len(c)
      BY <1>1, <1>2
    <3> QED BY <1>2, <3>1, <3>2
  <2>2. CASE y \in Y
    <3>1. PICK i \in 1..m : r[i] = y
      BY <1>4, <2>2
    <3>2. n + i \in 1..Len(c)
      BY <1>1, <1>2
    <3> QED BY <1>2, <3>1, <3>2
  <2> QED BY <2>1, <2>2
<1>8. Lists(c, X \union Y)
  BY <1>2, <1>6, <1>7 DEF Lists
<1> QED BY <1>2, <1>8 DEF c, n, m

\* What a sequence of distinct members has shown up to its place i.
Shown(s, i) == {s[j] : j \in 1..i}

LEMMA ShownGrows ==
    ASSUME NEW n \in Nat, NEW s, NEW i \in 1..n,
           \A j, k \in 1..n : j # k => s[j] # s[k]
    PROVE  Shown(s, i) = Shown(s, i - 1) \union {s[i]} /\ s[i] \notin Shown(s, i - 1)
<1>1. \A j \in 1..i : j \in 1..(i - 1) \/ j = i
  OBVIOUS
<1>2. \A j \in 1..(i - 1) : j \in 1..i /\ j \in 1..n /\ j # i
  OBVIOUS
<1> QED BY <1>1, <1>2 DEF Shown

LEMMA OfTierLists ==
    ASSUME NEW X, NEW s, Lists(s, X), NEW t, NEW rows, NEW at
    PROVE  Lists(OfTier(s, t, rows, at), {x \in X : TierOf(rows[x], at) = t})
<1> DEFINE n == Len(s)
           Tier(S) == {x \in S : TierOf(rows[x], at) = t}
<1>1. n \in Nat /\ s \in [1..n -> X]
  BY DEF Lists
<1>2. PICK r \in [0..n -> Seq(X)] : RunsTier(r, n, s, t, rows, at)
  BY <1>1, TierRun
<1>3. \A j, k \in 1..n : j # k => s[j] # s[k]
  BY DEF Lists
<1>4. \A i \in 0..n : Lists(r[i], Tier(Shown(s, i)))
  <2> DEFINE T == {i \in 0..n : Lists(r[i], Tier(Shown(s, i)))}
  <2>1. 0 \in T
    <3>1. Tier(Shown(s, 0)) = {} /\ 0 \in 0..n
      BY <1>1 DEF Shown
    <3> HIDE DEF Tier
    <3> QED BY <1>2, <3>1, ListsNothing DEF RunsTier
  <2>2. ASSUME NEW i \in 1..n, i - 1 \in T PROVE i \in T
    <3>1. Shown(s, i) = Shown(s, i - 1) \union {s[i]} /\ s[i] \notin Shown(s, i - 1)
      BY <1>1, <1>3, ShownGrows
    <3>2. CASE TierOf(rows[s[i]], at) = t
      <4>1. r[i] = Append(r[i - 1], s[i])
        BY <1>2, <3>2 DEF RunsTier, InTier
      <4>2. Tier(Shown(s, i)) = Tier(Shown(s, i - 1)) \union {s[i]}
        BY <3>1, <3>2
      <4>3. s[i] \notin Tier(Shown(s, i - 1))
        BY <3>1
      <4>4. Lists(r[i - 1], Tier(Shown(s, i - 1)))
        BY <2>2
      <4>5. Lists(r[i], Tier(Shown(s, i)))
        <5> HIDE DEF Tier
        <5> QED BY <4>1, <4>2, <4>3, <4>4, ListsMore
      <4>6. i \in 0..n
        BY <1>1
      <4> QED BY <4>5, <4>6
    <3>3. CASE TierOf(rows[s[i]], at) # t
      <4>1. r[i] = r[i - 1]
        BY <1>2, <3>3 DEF RunsTier, InTier
      <4>2. Tier(Shown(s, i)) = Tier(Shown(s, i - 1))
        BY <3>1, <3>3
      <4> HIDE DEF Tier
      <4> QED BY <2>2, <4>1, <4>2
    <3> QED BY <3>2, <3>3
  <2> HIDE DEF T
  <2>3. \A i \in 0..n : i \in T
    BY <1>1, <2>1, <2>2, UptoInduction
  <2> QED BY <2>3 DEF T
<1>5. Shown(s, n) = X
  BY <1>1 DEF Shown, Lists
<1>6. n \in 0..n
  BY <1>1
<1> HIDE DEF n
<1> QED BY <1>2, <1>4, <1>5, <1>6 DEF RunsTier

-----------------------------------------------------------------------------
(* What a session queue keeps of the order it varies *)

\* The queue of the order s as it is varied, one puzzle after the other.
RunsPlaces(r, m, s, rows, n, capMotifs) ==
    /\ r[0] = Unplaced
    /\ \A i \in 1..m : r[i] = Placed(r[i - 1], s[i], rows, n, capMotifs)
    /\ Vary(s, rows, n, capMotifs) =
          IF n <= 1 \/ m <= 1 THEN s ELSE r[m].taken \o r[m].deferred

LEMMA PlaceRun ==
    ASSUME NEW X, NEW s \in Seq(X), NEW rows, NEW n, NEW capMotifs
    PROVE  \E r \in [0..Len(s) -> [taken : Seq(X), deferred : Seq(X)]] :
              RunsPlaces(r, Len(s), s, rows, n, capMotifs)
<1> DEFINE m == Len(s)
           Accs == [taken : Seq(X), deferred : Seq(X)]
           Op(a, i) == Placed(a, s[i], rows, n, capMotifs)
           st == [x \in Accs \X (1..m) |-> Op(x[1], x[2])]
           Runs(h) == h = [T \in SUBSET (1..m) |->
                              IF T = {} THEN Unplaced ELSE Op(h[T \ {Max(T)}], Max(T))]
           run == CHOOSE h : Runs(h)
<1>0. m \in Nat /\ DOMAIN s = 1..m /\ \A i \in 1..m : s[i] \in X
  OBVIOUS
<1>1. \A a \in Accs : \A i \in 1..m : Op(a, i) \in Accs
  <2> SUFFICES ASSUME NEW a \in Accs, NEW i \in 1..m PROVE Op(a, i) \in Accs
    OBVIOUS
  <2>1. Append(a.taken, s[i]) \in Seq(X) /\ Append(a.deferred, s[i]) \in Seq(X)
    BY <1>0
  <2>2. /\ [a EXCEPT !.taken = Append(@, s[i])] \in Accs
        /\ [a EXCEPT !.deferred = Append(@, s[i])] \in Accs
    BY <2>1
  <2> HIDE DEF Accs, m
  <2> QED BY <2>2 DEF Placed
<1>2. st \in [Accs \X (1..m) -> Accs]
  <2> HIDE DEF Op
  <2> QED BY <1>1
<1>3. Unplaced \in Accs
  BY DEF Unplaced
<1>4. PICK h : Folds(h, st, Unplaced, m) /\ h \in [SUBSET (1..m) -> Accs]
  <2> HIDE DEF st
  <2> QED BY <1>0, <1>2, <1>3, FoldsExist
<1>5. Runs(h)
  <2>1. \A T \in SUBSET (1..m) : T # {} =>
            st[<<h[T \ {Max(T)}], Max(T)>>] = Op(h[T \ {Max(T)}], Max(T))
    <3> HIDE DEF Op
    <3>1. \A T \in SUBSET (1..m) : T # {} => Max(T) \in 1..m
      BY <1>0, GreatestIndex
    <3>2. \A T \in SUBSET (1..m) : h[T \ {Max(T)}] \in Accs
      BY <1>4
    <3> QED BY <3>1, <3>2
  <2> HIDE DEF st, Op
  <2> QED BY <1>4, <2>1 DEF Folds
<1>6. Runs(run)
  <2> HIDE DEF Runs
  <2> QED BY <1>5
<1>7. Vary(s, rows, n, capMotifs) =
        IF n <= 1 \/ m <= 1 THEN s ELSE run[1..m].taken \o run[1..m].deferred
  BY <1>0 DEF Vary, FoldLeft, MapThenFoldSet
<1>8. \A T \in SUBSET (1..m) : run[T] = IF T = {} THEN Unplaced
                                        ELSE Op(run[T \ {Max(T)}], Max(T))
  <2> HIDE DEF run, Op
  <2> QED BY <1>6
<1> DEFINE r == [i \in 0..m |-> run[1..i]]
<1>9. r[0] = Unplaced /\ r[m] = run[1..m]
  <2>1. {} \in SUBSET (1..m) /\ 1..0 = {} /\ 0 \in 0..m /\ m \in 0..m
    BY <1>0
  <2> HIDE DEF run, Op
  <2> QED BY <1>8, <2>1
<1>10. \A i \in 1..m : r[i] = Op(r[i - 1], i)
  <2> TAKE i \in 1..m
  <2>1. run[1..i] = Op(run[1..(i - 1)], i)
    <3> HIDE DEF run, Op
    <3>1. /\ 1..i \in SUBSET (1..m) /\ 1..i # {}
          /\ Max(1..i) = i /\ (1..i) \ {Max(1..i)} = 1..(i - 1)
      BY <1>0, Prefix
    <3> QED BY <1>8, <3>1
  <2>2. i \in 0..m /\ i - 1 \in 0..m
    OBVIOUS
  <2> HIDE DEF run, Op
  <2> QED BY <2>1, <2>2
<1>11. r \in [0..m -> Accs]
  <2>1. \A i \in 0..m : r[i] \in Accs
    <3> DEFINE Typed == {i \in 0..m : r[i] \in Accs}
    <3>1. 0 \in Typed
      <4>1. 0 \in 0..m
        BY <1>0
      <4> HIDE DEF r
      <4> QED BY <1>3, <1>9, <4>1
    <3>2. \A i \in 1..m : i - 1 \in Typed => i \in Typed
      <4> HIDE DEF Op, r
      <4> QED BY <1>1, <1>10
    <3> HIDE DEF Typed
    <3>3. \A i \in 0..m : i \in Typed
      BY <1>0, <3>1, <3>2, UptoInduction
    <3> QED BY <3>3 DEF Typed
  <2> HIDE DEF run
  <2> QED BY <2>1
<1> HIDE DEF r, run
<1> QED BY <1>7, <1>9, <1>10, <1>11 DEF RunsPlaces

\* What is placed of S is taken or deferred.
Splits(acc, S) ==
    \E Y, Z \in SUBSET S : /\ Lists(acc.taken, Y) /\ Lists(acc.deferred, Z)
                           /\ Y \cap Z = {} /\ Y \union Z = S

LEMMA PlacedSplits ==
    ASSUME NEW acc \in [taken : Seq(Puzzles), deferred : Seq(Puzzles)], NEW S, Splits(acc, S),
           NEW x, x \notin S, NEW rows, NEW n, NEW capMotifs
    PROVE  Splits(Placed(acc, x, rows, n, capMotifs), S \union {x})
<1>1. PICK Y \in SUBSET S, Z \in SUBSET S :
          /\ Lists(acc.taken, Y) /\ Lists(acc.deferred, Z)
          /\ Y \cap Z = {} /\ Y \union Z = S
  BY DEF Splits
<1>2. Lists(Append(acc.taken, x), Y \union {x}) /\ Lists(Append(acc.deferred, x), Z \union {x})
  BY <1>1, ListsMore
<1> DEFINE more == [acc EXCEPT !.taken = Append(@, x)]
           later == [acc EXCEPT !.deferred = Append(@, x)]
<1>3. Splits(more, S \union {x})
  <2>1. more.taken = Append(acc.taken, x) /\ more.deferred = acc.deferred
    OBVIOUS
  <2>2. (Y \union {x}) \cap Z = {} /\ (Y \union {x}) \union Z = S \union {x}
    BY <1>1
  <2>3. Y \union {x} \in SUBSET (S \union {x}) /\ Z \in SUBSET (S \union {x})
    OBVIOUS
  <2> HIDE DEF more
  <2> QED BY <1>1, <1>2, <2>1, <2>2, <2>3 DEF Splits
<1>4. Splits(later, S \union {x})
  <2>1. later.taken = acc.taken /\ later.deferred = Append(acc.deferred, x)
    OBVIOUS
  <2>2. Y \cap (Z \union {x}) = {} /\ Y \union (Z \union {x}) = S \union {x}
    BY <1>1
  <2>3. Z \union {x} \in SUBSET (S \union {x}) /\ Y \in SUBSET (S \union {x})
    OBVIOUS
  <2> HIDE DEF later
  <2> QED BY <1>1, <1>2, <2>1, <2>2, <2>3 DEF Splits
<1>5. Placed(acc, x, rows, n, capMotifs) \in {more, later}
  BY DEF Placed
<1> QED BY <1>3, <1>4, <1>5

\* Variety moves puzzles and loses none.
LEMMA VaryLists ==
    ASSUME NEW X \in SUBSET Puzzles, NEW s, Lists(s, X), NEW rows, NEW n, NEW capMotifs
    PROVE  Lists(Vary(s, rows, n, capMotifs), X)
<1> DEFINE m == Len(s)
<1>1. m \in Nat /\ s \in Seq(X) /\ s \in Seq(Puzzles)
  BY DEF Lists
<1>2. PICK r \in [0..m -> [taken : Seq(Puzzles), deferred : Seq(Puzzles)]] :
          RunsPlaces(r, m, s, rows, n, capMotifs)
  BY <1>1, PlaceRun
<1>3. \A j, k \in 1..m : j # k => s[j] # s[k]
  BY DEF Lists
<1>4. \A i \in 0..m : Splits(r[i], Shown(s, i))
  <2> DEFINE T == {i \in 0..m : Splits(r[i], Shown(s, i))}
  <2>1. 0 \in T
    <3>1. Shown(s, 0) = {} /\ 0 \in 0..m
      BY <1>1 DEF Shown
    <3>2. Unplaced.taken = << >> /\ Unplaced.deferred = << >>
      BY DEF Unplaced
    <3>3. Splits(Unplaced, {})
      BY <3>2, ListsNothing DEF Splits
    <3> QED BY <1>2, <3>1, <3>3 DEF RunsPlaces
  <2>2. ASSUME NEW i \in 1..m, i - 1 \in T PROVE i \in T
    <3>1. Shown(s, i) = Shown(s, i - 1) \union {s[i]} /\ s[i] \notin Shown(s, i - 1)
      BY <1>1, <1>3, ShownGrows
    <3>2. r[i] = Placed(r[i - 1], s[i], rows, n, capMotifs)
      BY <1>2 DEF RunsPlaces
    <3>3. i - 1 \in 0..m /\ i \in 0..m
      BY <1>1
    <3>4. r[i - 1] \in [taken : Seq(Puzzles), deferred : Seq(Puzzles)]
      BY <1>2, <3>3
    <3>5. Splits(r[i - 1], Shown(s, i - 1))
      BY <2>2
    <3>6. Splits(r[i], Shown(s, i))
      BY <3>1, <3>2, <3>4, <3>5, PlacedSplits
    <3> QED BY <3>3, <3>6
  <2> HIDE DEF T
  <2>3. \A i \in 0..m : i \in T
    BY <1>1, <2>1, <2>2, UptoInduction
  <2> QED BY <2>3 DEF T
<1>5. Shown(s, m) = X
  BY <1>1 DEF Shown, Lists
<1>6. Splits(r[m], X)
  <2>1. m \in 0..m
    BY <1>1
  <2> HIDE DEF m
  <2> QED BY <1>4, <1>5, <2>1
<1>7. Lists(r[m].taken \o r[m].deferred, X)
  BY <1>6, ListsBoth DEF Splits
<1> QED BY <1>2, <1>7 DEF RunsPlaces

Tier(X, t, rows, at) == {x \in X : TierOf(rows[x], at) = t}

\* A queue has the tiers in their order, and of each what there is room for.
QueueOf(q, X, rows, at, n) ==
    LET C(t) == Cardinality(Tier(X, t, rows, at)) IN
    /\ q \in Seq(X)
    /\ Len(q) = Min({n, Cardinality(X)})
    /\ \A i, j \in 1..Len(q) : i # j => q[i] # q[j]
    /\ \A i \in 1..Len(q) : TierOf(rows[q[i]], at) =
          IF i <= C(0) THEN 0 ELSE IF i <= C(0) + C(1) THEN 1 ELSE 2

LEMMA VaryByTierQueues ==
    ASSUME NEW X \in SUBSET Puzzles, NEW s, Lists(s, X), NEW rows, NEW at,
           NEW n \in Nat, NEW capMotifs
    PROVE  QueueOf(VaryByTier(s, rows, at, n, capMotifs), X, rows, at, n)
<1> DEFINE V(t) == Vary(OfTier(s, t, rows, at), rows, n, capMotifs)
           S(t) == Tier(X, t, rows, at)
           C(t) == Cardinality(S(t))
           q == V(0) \o V(1)
           w == q \o V(2)
<1>1. \A t : Lists(V(t), S(t))
  <2> TAKE t
  <2>1. Lists(OfTier(s, t, rows, at), S(t)) /\ S(t) \in SUBSET Puzzles
    BY OfTierLists DEF Tier
  <2> HIDE DEF S
  <2> QED BY <2>1, VaryLists
<1>2. S(0) \cap S(1) = {} /\ (S(0) \union S(1)) \cap S(2) = {}
  BY DEF Tier
<1>3. (S(0) \union S(1)) \union S(2) = X
  BY DEF Tier, TierOf
<1>4. \A t : \A x \in S(t) : TierOf(rows[x], at) = t
  BY DEF Tier
<1>5. \A t : Len(V(t)) \in Nat /\ Len(V(t)) = C(t)
  <2> HIDE DEF V, S
  <2> QED BY <1>1, ListsCount
<1>6. \A t : \A i \in 1..Len(V(t)) : TierOf(rows[V(t)[i]], at) = t
  <2> HIDE DEF V
  <2>1. \A t : \A i \in 1..Len(V(t)) : V(t)[i] \in S(t)
    <3> HIDE DEF S
    <3> QED BY <1>1 DEF Lists
  <2> QED BY <1>4, <2>1
<1> HIDE DEF V, S
<1>7. /\ Lists(q, S(0) \union S(1))
      /\ Len(q) = Len(V(0)) + Len(V(1))
      /\ \A i \in 1..Len(V(0)) : q[i] = V(0)[i]
      /\ \A i \in 1..Len(V(1)) : q[Len(V(0)) + i] = V(1)[i]
  BY <1>1, <1>2, ListsBoth
<1> HIDE DEF q
<1>8. /\ Lists(w, X)
      /\ Len(w) = Len(q) + Len(V(2))
      /\ \A i \in 1..Len(q) : w[i] = q[i]
      /\ \A i \in 1..Len(V(2)) : w[Len(q) + i] = V(2)[i]
  BY <1>1, <1>2, <1>3, <1>7, ListsBoth
<1> HIDE DEF w
<1>9. \A i \in 1..Len(w) : TierOf(rows[w[i]], at) =
          IF i <= C(0) THEN 0 ELSE IF i <= C(0) + C(1) THEN 1 ELSE 2
  <2> DEFINE a == Len(V(0))
             b == Len(V(1))
             c == Len(V(2))
  <2>1. /\ a \in Nat /\ b \in Nat /\ c \in Nat /\ C(0) = a /\ C(1) = b
        /\ Len(q) = a + b /\ Len(w) = (a + b) + c
    BY <1>5, <1>7, <1>8
  <2>2. \A i \in 1..a : w[i] = V(0)[i] /\ TierOf(rows[w[i]], at) = 0
    BY <1>6, <1>7, <1>8, <2>1
  <2>3. \A i \in 1..b : w[a + i] = V(1)[i] /\ TierOf(rows[w[a + i]], at) = 1
    BY <1>6, <1>7, <1>8, <2>1
  <2>4. \A i \in 1..c : w[(a + b) + i] = V(2)[i] /\ TierOf(rows[w[(a + b) + i]], at) = 2
    BY <1>6, <1>8, <2>1
  <2> HIDE DEF a, b, c, C
  <2> TAKE i \in 1..Len(w)
  <2>5. CASE i <= a
    BY <2>1, <2>2, <2>5
  <2>6. CASE a < i /\ i <= a + b
    <3>1. i - a \in 1..b /\ a + (i - a) = i
      BY <2>1, <2>6
    <3>2. TierOf(rows[w[a + (i - a)]], at) = 1
      BY <2>3, <3>1
    <3> QED BY <2>1, <2>6, <3>1, <3>2
  <2>7. CASE a + b < i
    <3>1. i - (a + b) \in 1..c /\ (a + b) + (i - (a + b)) = i
      BY <2>1, <2>7
    <3>2. TierOf(rows[w[(a + b) + (i - (a + b))]], at) = 2
      BY <2>4, <3>1
    <3> QED BY <2>1, <2>7, <3>1, <3>2
  <2> QED BY <2>1, <2>5, <2>6, <2>7
<1> DEFINE k == Min({n, Len(w)})
           out == SubSeq(w, 1, k)
<1>10. VaryByTier(s, rows, at, n, capMotifs) = out
  BY DEF VaryByTier, Take, V, q, w
<1>11. Len(w) \in Nat /\ Len(w) = Cardinality(X) /\ w \in Seq(X)
  <2>1. Len(w) \in Nat /\ Len(w) = Cardinality(X)
    BY <1>8, ListsCount
  <2>2. w \in Seq(X)
    BY <1>8 DEF Lists
  <2> QED BY <2>1, <2>2
<1>12. k \in 0..Len(w)
  BY <1>11, MinOfTwo
<1>13. out \in Seq(X) /\ Len(out) = k /\ \A i \in 1..k : out[i] = w[i]
  <2> HIDE DEF k
  <2> QED BY <1>11, <1>12
<1>14. \A i, j \in 1..k : i # j => out[i] # out[j]
  <2> HIDE DEF k, out
  <2>1. \A i, j \in 1..Len(w) : i # j => w[i] # w[j]
    BY <1>8 DEF Lists
  <2> QED BY <1>11, <1>12, <1>13, <2>1
<1>15. \A i \in 1..k : i \in 1..Len(w)
  <2> HIDE DEF k
  <2> QED BY <1>11, <1>12
<1> HIDE DEF out
<1>16. k = Min({n, Cardinality(X)})
  BY <1>11
<1> HIDE DEF k
<1> QED BY <1>9, <1>10, <1>13, <1>14, <1>15, <1>16 DEF QueueOf, S

-----------------------------------------------------------------------------
(* The queues *)

LEMMA KeyTypes ==
    ASSUME NEW a \in Int, NEW b \in Int, NEW c \in Int, NEW d \in Int, NEW e \in Int
    PROVE  /\ <<a>> \in [1..1 -> Int] /\ <<a, b>> \in [1..2 -> Int]
           /\ <<a, b, c>> \in [1..3 -> Int] /\ <<a, b, c, d>> \in [1..4 -> Int]
           /\ <<a, b, c, d, e>> \in [1..5 -> Int]
OBVIOUS

LEMMA SortedLists ==
    ASSUME NEW S, IsFiniteSet(S), NEW s, NEW f, Sorted(s, S, f)
    PROVE  Lists(s, S) /\ Len(s) = Cardinality(S)
<1> DEFINE n == Cardinality(S)
<1>1. n \in Nat
  BY FS_CardinalityType
<1> HIDE DEF n
<1>2. s \in [1..n -> S] /\ s \in Seq(S) /\ Len(s) = n
  BY <1>1 DEF Sorted, n
<1>3. \A i, j \in 1..n : i < j => s[i] # s[j]
  BY DEF Sorted, n
<1>4. \A x \in S : \E i \in 1..n : s[i] = x
  BY DEF Sorted, n
<1>5. \A i, j \in 1..n : i # j => s[i] # s[j]
  <2> SUFFICES ASSUME NEW i \in 1..n, NEW j \in 1..n, i # j PROVE s[i] # s[j]
    OBVIOUS
  <2>1. i < j \/ j < i
    BY <1>1
  <2> QED BY <1>3, <2>1
<1> QED BY <1>2, <1>4, <1>5 DEF Lists, n

RowOK(row) ==
    /\ row \in StatsRow \union {None}
    /\ row # None => (row.attempts > 0 <=> row.due # None)

RowsOK(rows) == \A p \in Puzzles : RowOK(rows[p])

LEMMA TierTypes ==
    ASSUME NEW row, RowOK(row), NEW at \in Int
    PROVE  TierOf(row, at) \in {0, 1, 2} /\ (TierOf(row, at) # 1 => row # None /\ row.due \in Int)
BY DEF RowOK, TierOf, Scheduled, StatsRow

LEMMA ScoreType ==
    ASSUME NEW row, RowOK(row), NEW goal \in Nat \union {None}
    PROVE  AdaptiveScore(row, goal) \in Int
<1>1. CASE goal = None \/ row = None
  BY <1>1 DEF AdaptiveScore
<1>2. CASE goal # None /\ row # None
  <2>1. row.attempts \in Nat /\ row.passes \in Nat /\ goal \in Nat
    BY <1>2 DEF RowOK, StatsRow
  <2>2. row.attempts # 0 => (10000 * row.passes) \div row.attempts \in Int
    BY <2>1
  <2> QED BY <1>2, <2>1, <2>2 DEF AdaptiveScore
<1> QED BY <1>1, <1>2

LEMMA AdaptiveQueues ==
    ASSUME NEW X \in SUBSET Puzzles, NEW rows, RowsOK(rows), NEW at \in Int, NEW n \in Nat,
           NEW goal \in Nat \union {None}, NEW focus
    PROVE  QueueOf(AdaptiveQueue(X, rows, at, n, goal, focus), X, rows, at, n)
<1> DEFINE Key(p) == SortKey(p, rows, at, goal, focus)
           f == [p \in X |-> Key(p)]
           s == InOrder({<<Key(p), p>> : p \in X})
<1>1. IsFiniteSet(X)
  BY FS_Subset, PracticeQueueAssumption
<1>2. ASSUME NEW p \in X PROVE Key(p) \in [1..5 -> Int] /\ Key(p)[5] = p
  <2> DEFINE tier == TierOf(rows[p], at)
             place == IF p \in focus THEN 0 ELSE 1
             time == IF tier = 1 THEN at ELSE rows[p].due
             score == -AdaptiveScore(rows[p], goal)
  <2>1. RowOK(rows[p]) /\ p \in Int
    BY PracticeQueueAssumption DEF RowsOK
  <2>2. tier \in Int /\ time \in Int /\ place \in Int
    BY <2>1, TierTypes
  <2>3. score \in Int
    BY <2>1, ScoreType
  <2>4. Key(p) = <<tier, place, time, score, p>>
    BY DEF SortKey
  <2> HIDE DEF tier, place, time, score, Key
  <2>5. <<tier, place, time, score, p>> \in [1..5 -> Int]
    BY <2>1, <2>2, <2>3, KeyTypes
  <2> QED BY <2>4, <2>5
<1> HIDE DEF Key
<1>3. f \in [X -> [1..5 -> Int]] /\ \A x, y \in X : f[x] = f[y] => x = y
  BY <1>2
<1>4. {<<Key(p), p>> : p \in X} = {<<f[p], p>> : p \in X}
  OBVIOUS
<1>5. Sorted(s, X, f)
  <2> HIDE DEF f
  <2> QED BY <1>1, <1>3, <1>4, SortedIsSorted
<1>6. Lists(s, X)
  <2> HIDE DEF f, s
  <2> QED BY <1>1, <1>5, SortedLists
<1>7. AdaptiveQueue(X, rows, at, n, goal, focus) = VaryByTier(s, rows, at, n, focus = {})
  BY DEF AdaptiveQueue, SortedBy, Key
<1> HIDE DEF s
<1> QED BY <1>6, <1>7, VaryByTierQueues

LEMMA PracticeQueues ==
    ASSUME NEW X \in SUBSET Puzzles, NEW rows, RowsOK(rows), NEW at \in Int, NEW n \in Nat
    PROVE  QueueOf(PracticeQueueOf(X, rows, at, n), X, rows, at, n)
<1> DEFINE Time(p) == IF Scheduled(rows[p]) THEN rows[p].due ELSE at
           Key(p) == <<TierOf(rows[p], at), Time(p), p>>
           f == [p \in X |-> Key(p)]
           s == InOrder({<<Key(p), p>> : p \in X})
<1>1. IsFiniteSet(X)
  BY FS_Subset, PracticeQueueAssumption
<1>2. ASSUME NEW p \in X PROVE Key(p) \in [1..3 -> Int] /\ Key(p)[3] = p
  <2>1. RowOK(rows[p]) /\ p \in Int
    BY PracticeQueueAssumption DEF RowsOK
  <2>2. TierOf(rows[p], at) \in Int
    BY <2>1, TierTypes
  <2>3. Time(p) \in Int
    BY <2>1 DEF RowOK, Scheduled, StatsRow
  <2> HIDE DEF Time
  <2> QED BY <2>1, <2>2, <2>3, KeyTypes
<1>3. f \in [X -> [1..3 -> Int]] /\ \A x, y \in X : f[x] = f[y] => x = y
  <2> HIDE DEF Key
  <2> QED BY <1>2
<1>4. {<<Key(p), p>> : p \in X} = {<<f[p], p>> : p \in X}
  <2> HIDE DEF Key
  <2> QED OBVIOUS
<1>5. Sorted(s, X, f)
  <2> HIDE DEF f, Key
  <2> QED BY <1>1, <1>3, <1>4, SortedIsSorted
<1>6. Lists(s, X)
  <2> HIDE DEF f, s
  <2> QED BY <1>1, <1>5, SortedLists
<1>7. PracticeQueueOf(X, rows, at, n) = VaryByTier(s, rows, at, n, FALSE)
  BY DEF PracticeQueueOf, SortedBy
<1> HIDE DEF s
<1> QED BY <1>6, <1>7, VaryByTierQueues

-----------------------------------------------------------------------------
(* The inductive invariant *)

\* A review sets the due time, ahead of now; time opens the exposure again.
AnsweredIsSealed ==
    \A p \in Puzzles :
        p \in answered <=> stats[p] # None /\ stats[p].attempts > 0 /\ stats[p].due > now

SessionFits ==
    session # None =>
        /\ {"items", "missed", "completed", "policy"} \subseteq DOMAIN session
        /\ session.items \in Seq(Puzzles)
        /\ session.missed \subseteq Puzzles

Trained ==
    /\ trained \subseteq Int
    /\ IsFiniteSet(trained)
    /\ \A t \in trained : t <= now

IInv ==
    /\ now \in Nat
    /\ DOMAIN stats = Puzzles /\ RowsOK(stats)
    /\ tally \in [Puzzles -> [attempts : Nat, passes : Nat]]
    /\ diag \in [Puzzles -> DiagnosisRow \union {None}]
    /\ answered \subseteq Puzzles /\ AnsweredIsSealed
    /\ SessionFits
    /\ Trained
    /\ tally = told

-----------------------------------------------------------------------------
(* A line played against /check *)

LEMMA LineTypes ==
    ASSUME NEW p \in Puzzles
    PROVE  Len(Pv(p)) \in Nat /\ DOMAIN Pv(p) = 1..Len(Pv(p))
BY LineAssumption DEF Pv

\* The move that the line of p has at this ply.
RightMove(p, move, ply) ==
    /\ ply \in 0..(Len(Pv(p)) - 1)
    /\ ply % 2 = 0
    /\ IF ply = 0 THEN move \in Accepts(p) ELSE move = Pv(p)[ply + 1]

\* The answers of /check.
LEMMA Answers ==
    ASSUME NEW p \in Puzzles, NEW move, NEW ply \in Int
    PROVE  LET answer == CheckMove(p, move, ply) IN
           /\ Len(Pv(p)) < 2 => /\ answer.correct <=> VerifyAttempt(p, move) = "pass"
                                /\ answer.complete <=> VerifyAttempt(p, move) = "pass"
           /\ Len(Pv(p)) >= 2 =>
                 /\ answer.correct <=> RightMove(p, move, ply)
                 /\ answer.correct =>
                       /\ answer.complete <=> ply + 2 >= Len(Pv(p))
                       /\ ~answer.complete => answer.next = ply + 2
<1> DEFINE answer == CheckMove(p, move, ply)
           pv == Pv(p)
<1>1. CASE Len(pv) < 2
  <2>1. answer = [WrongMove EXCEPT !.correct = VerifyAttempt(p, move) = "pass",
                                   !.complete = VerifyAttempt(p, move) = "pass"]
    BY <1>1 DEF CheckMove
  <2>2. /\ answer.correct = (VerifyAttempt(p, move) = "pass")
        /\ answer.complete = (VerifyAttempt(p, move) = "pass")
    <3> HIDE DEF answer
    <3> QED BY <2>1 DEF WrongMove
  <2>3. ~(Len(pv) >= 2)
    BY <1>1, LineTypes
  <2> QED BY <1>1, <2>2, <2>3
<1>2. CASE Len(pv) >= 2
  <2>1. ~(Len(pv) < 2)
    BY <1>2, LineTypes
  <2>2. CASE ~RightMove(p, move, ply)
    <3>1. answer = WrongMove
      BY <2>1, <2>2, Zenon DEF CheckMove, RightMove
    <3>2. ~answer.correct
      <4> HIDE DEF answer
      <4> QED BY <3>1 DEF WrongMove
    <3> QED BY <2>1, <2>2, <3>2
  <2>3. CASE RightMove(p, move, ply)
    <3>1. answer = [correct |-> TRUE,
                    reply |-> IF ply + 2 <= Len(pv) THEN pv[ply + 2] ELSE None,
                    complete |-> ply + 2 >= Len(pv),
                    next |-> IF ply + 2 >= Len(pv) THEN None ELSE ply + 2]
      BY <2>1, <2>3, Zenon DEF CheckMove, RightMove
    <3>2. /\ answer.correct = TRUE /\ answer.complete = (ply + 2 >= Len(pv))
          /\ answer.next = IF ply + 2 >= Len(pv) THEN None ELSE ply + 2
      <4> HIDE DEF answer, pv
      <4> QED BY <3>1
    <3> QED BY <2>1, <2>3, <3>2
  <2> QED BY <2>2, <2>3
<1> QED BY <1>1, <1>2, LineTypes

\* Short of the end a correct move is answered with the next ply.
LEMMA CheckGoesOn ==
    ASSUME NEW p \in Puzzles, NEW move, NEW ply \in Int,
           CheckMove(p, move, ply).correct, ~CheckMove(p, move, ply).complete
    PROVE  CheckMove(p, move, ply).next \in Int
<1>1. Len(Pv(p)) < 2 \/ Len(Pv(p)) >= 2
  BY LineTypes
<1> QED BY <1>1, Answers

\* The states of /check along the line s.
RunsPlay(r, m, p, s) ==
    /\ r[0] = Unplayed
    /\ \A i \in 1..m : r[i] = Play(p, r[i - 1], s[i])
    /\ LineState(p, s) = r[m].state

LEMMA PlayRun ==
    ASSUME NEW p \in Puzzles, NEW X, NEW s \in Seq(X)
    PROVE  \E r \in [0..Len(s) -> [state : {"open", "overrun", "wrong", "solved"}, ply : Int]] :
              RunsPlay(r, Len(s), p, s)
<1> DEFINE m == Len(s)
           Accs == [state : {"open", "overrun", "wrong", "solved"}, ply : Int]
           Op(a, i) == Play(p, a, s[i])
           st == [x \in Accs \X (1..m) |-> Op(x[1], x[2])]
           Runs(h) == h = [T \in SUBSET (1..m) |->
                              IF T = {} THEN Unplayed ELSE Op(h[T \ {Max(T)}], Max(T))]
           run == CHOOSE h : Runs(h)
<1>0. m \in Nat /\ DOMAIN s = 1..m
  OBVIOUS
<1>1. \A a \in Accs : \A i \in 1..m : Op(a, i) \in Accs
  <2> SUFFICES ASSUME NEW a \in Accs, NEW i \in 1..m PROVE Op(a, i) \in Accs
    OBVIOUS
  <2> DEFINE answer == CheckMove(p, s[i], a.ply)
  <2>1. answer.correct /\ ~answer.complete => answer.next \in Int
    BY CheckGoesOn
  <2> HIDE DEF answer
  <2>2. \/ Op(a, i) = [a EXCEPT !.state = "overrun"]
        \/ Op(a, i) = [a EXCEPT !.state = "wrong"]
        \/ Op(a, i) = [a EXCEPT !.state = "solved"]
        \/ answer.correct /\ ~answer.complete /\ Op(a, i) = [a EXCEPT !.ply = answer.next]
    BY Zenon DEF Play, answer
  <2> HIDE DEF Op
  <2> QED BY <2>1, <2>2
<1>2. st \in [Accs \X (1..m) -> Accs]
  <2> HIDE DEF Op
  <2> QED BY <1>1
<1>3. Unplayed \in Accs
  BY DEF Unplayed
<1>4. PICK h : Folds(h, st, Unplayed, m) /\ h \in [SUBSET (1..m) -> Accs]
  <2> HIDE DEF st
  <2> QED BY <1>0, <1>2, <1>3, FoldsExist
<1>5. Runs(h)
  <2>1. \A T \in SUBSET (1..m) : T # {} =>
            st[<<h[T \ {Max(T)}], Max(T)>>] = Op(h[T \ {Max(T)}], Max(T))
    <3> HIDE DEF Op
    <3>1. \A T \in SUBSET (1..m) : T # {} => Max(T) \in 1..m
      BY <1>0, GreatestIndex
    <3>2. \A T \in SUBSET (1..m) : h[T \ {Max(T)}] \in Accs
      BY <1>4
    <3> QED BY <3>1, <3>2
  <2> HIDE DEF st, Op
  <2> QED BY <1>4, <2>1 DEF Folds
<1>6. Runs(run)
  <2> HIDE DEF Runs
  <2> QED BY <1>5
<1>7. LineState(p, s) = run[1..m].state
  BY <1>0 DEF LineState, FoldLeft, MapThenFoldSet
<1>8. \A T \in SUBSET (1..m) : run[T] = IF T = {} THEN Unplayed
                                        ELSE Op(run[T \ {Max(T)}], Max(T))
  <2> HIDE DEF run, Op
  <2> QED BY <1>6
<1> DEFINE r == [i \in 0..m |-> run[1..i]]
<1>9. r[0] = Unplayed /\ r[m] = run[1..m]
  <2>1. {} \in SUBSET (1..m) /\ 1..0 = {} /\ 0 \in 0..m /\ m \in 0..m
    BY <1>0
  <2> HIDE DEF run, Op
  <2> QED BY <1>8, <2>1
<1>10. \A i \in 1..m : r[i] = Op(r[i - 1], i)
  <2> TAKE i \in 1..m
  <2>1. run[1..i] = Op(run[1..(i - 1)], i)
    <3> HIDE DEF run, Op
    <3>1. /\ 1..i \in SUBSET (1..m) /\ 1..i # {}
          /\ Max(1..i) = i /\ (1..i) \ {Max(1..i)} = 1..(i - 1)
      BY <1>0, Prefix
    <3> QED BY <1>8, <3>1
  <2>2. i \in 0..m /\ i - 1 \in 0..m
    OBVIOUS
  <2> HIDE DEF run, Op
  <2> QED BY <2>1, <2>2
<1>11. r \in [0..m -> Accs]
  <2>1. \A i \in 0..m : r[i] \in Accs
    <3> DEFINE Typed == {i \in 0..m : r[i] \in Accs}
    <3>1. 0 \in Typed
      <4>1. 0 \in 0..m
        BY <1>0
      <4> HIDE DEF r
      <4> QED BY <1>3, <1>9, <4>1
    <3>2. \A i \in 1..m : i - 1 \in Typed => i \in Typed
      <4> HIDE DEF Op, r
      <4> QED BY <1>1, <1>10
    <3> HIDE DEF Typed
    <3>3. \A i \in 0..m : i \in Typed
      BY <1>0, <3>1, <3>2, UptoInduction
    <3> QED BY <3>3 DEF Typed
  <2> HIDE DEF run
  <2> QED BY <2>1
<1> HIDE DEF r, run
<1> QED BY <1>7, <1>9, <1>10, <1>11 DEF RunsPlay

\* Where the play of a line with replies stands after i of its moves.
PlayFits(acc, i, p, s) ==
    LET L == Len(Pv(p)) IN
    /\ acc.state = "open" =>
          /\ acc.ply = 2 * i /\ 2 * i < L
          /\ \A j \in 1..i : RightMove(p, s[j], 2 * (j - 1))
    /\ acc.state = "solved" =>
          /\ i > 0 /\ 2 * i >= L
          /\ \A j \in 1..i : RightMove(p, s[j], 2 * (j - 1))
    /\ acc.state = "wrong" =>
          /\ i > 0 /\ 2 * (i - 1) < L
          /\ ~RightMove(p, s[i], 2 * (i - 1))

LEMMA PlayKeepsFit ==
    ASSUME NEW p \in Puzzles, Len(Pv(p)) >= 2, NEW s, NEW i \in Nat, i > 0,
           NEW acc \in [state : {"open", "overrun", "wrong", "solved"}, ply : Int],
           PlayFits(acc, i - 1, p, s)
    PROVE  PlayFits(Play(p, acc, s[i]), i, p, s)
<1> DEFINE L == Len(Pv(p))
           answer == CheckMove(p, s[i], acc.ply)
           next == Play(p, acc, s[i])
<1>1. L \in Nat
  BY LineTypes
<1>2. CASE acc.state # "open"
  <2>1. next = [acc EXCEPT !.state = "overrun"]
    BY <1>2, Zenon DEF Play
  <2>2. next.state = "overrun"
    <3> HIDE DEF next
    <3> QED BY <2>1
  <2> HIDE DEF next
  <2>3. PlayFits(next, i, p, s)
    BY <2>2 DEF PlayFits
  <2> QED BY <2>3 DEF next
<1>3. CASE acc.state = "open"
  <2>1. /\ acc.ply = 2 * (i - 1) /\ 2 * (i - 1) < L
        /\ \A j \in 1..(i - 1) : RightMove(p, s[j], 2 * (j - 1))
    BY <1>3 DEF PlayFits
  <2>2. /\ answer.correct <=> RightMove(p, s[i], 2 * (i - 1))
        /\ answer.correct =>
              /\ answer.complete <=> 2 * i >= L
              /\ ~answer.complete => answer.next = 2 * i
    <3>1. /\ answer.correct <=> RightMove(p, s[i], acc.ply)
          /\ answer.correct =>
                /\ answer.complete <=> acc.ply + 2 >= L
                /\ ~answer.complete => answer.next = acc.ply + 2
      BY Answers
    <3>2. acc.ply + 2 = 2 * i
      BY <2>1
    <3> HIDE DEF answer
    <3> QED BY <2>1, <3>1, <3>2
  <2>3. CASE ~answer.correct
    <3>1. next = [acc EXCEPT !.state = "wrong"]
      BY <1>3, <2>3, Zenon DEF Play
    <3>2. next.state = "wrong"
      <4> HIDE DEF next
      <4> QED BY <3>1
    <3> HIDE DEF next, answer
    <3>3. PlayFits(next, i, p, s)
      BY <2>1, <2>2, <2>3, <3>2 DEF PlayFits
    <3> QED BY <3>3 DEF next
  <2>4. CASE answer.correct /\ answer.complete
    <3>1. next = [acc EXCEPT !.state = "solved"]
      BY <1>3, <2>4, Zenon DEF Play
    <3>2. next.state = "solved"
      <4> HIDE DEF next
      <4> QED BY <3>1
    <3> HIDE DEF next, answer
    <3>3. \A j \in 1..i : RightMove(p, s[j], 2 * (j - 1))
      <4> TAKE j \in 1..i
      <4>1. j \in 1..(i - 1) \/ j = i
        OBVIOUS
      <4> QED BY <2>1, <2>2, <2>4, <4>1
    <3>4. PlayFits(next, i, p, s)
      BY <2>1, <2>2, <2>4, <3>2, <3>3 DEF PlayFits
    <3> QED BY <3>4 DEF next
  <2>5. CASE answer.correct /\ ~answer.complete
    <3>1. next = [acc EXCEPT !.ply = answer.next]
      BY <1>3, <2>5, Zenon DEF Play
    <3>2. next.state = "open" /\ next.ply = answer.next
      <4> HIDE DEF next, answer
      <4> QED BY <1>3, <3>1
    <3> HIDE DEF next, answer
    <3>3. \A j \in 1..i : RightMove(p, s[j], 2 * (j - 1))
      <4> TAKE j \in 1..i
      <4>1. j \in 1..(i - 1) \/ j = i
        OBVIOUS
      <4> QED BY <2>1, <2>2, <2>5, <4>1
    <3>4. next.ply = 2 * i /\ 2 * i < L
      BY <1>1, <2>2, <2>5, <3>2
    <3>5. PlayFits(next, i, p, s)
      BY <3>2, <3>3, <3>4 DEF PlayFits
    <3> QED BY <3>5 DEF next
  <2> QED BY <2>3, <2>4, <2>5
<1> QED BY <1>2, <1>3

LEMMA LineVerdict ==
    ASSUME NEW p \in Puzzles, NEW line \in Lines, LineState(p, line) \in {"solved", "wrong"}
    PROVE  Verified(p, line) = "pass" <=> LineState(p, line) = "solved"
<1> DEFINE L == Len(Pv(p))
           m == Len(line)
<1>1. L \in Nat
  BY LineTypes
<1>2. line \in Seq(Moves) /\ m \in Nat /\ m > 0 /\ line # << >>
  BY PracticeAssumption DEF Lines
<1>3. PICK r \in [0..m -> [state : {"open", "overrun", "wrong", "solved"}, ply : Int]] :
          RunsPlay(r, m, p, line)
  BY <1>2, PlayRun
<1>4. /\ r[0] = Unplayed /\ LineState(p, line) = r[m].state
      /\ \A i \in 1..m : r[i] = Play(p, r[i - 1], line[i])
  BY <1>3 DEF RunsPlay
<1> HIDE DEF m
<1>5. CASE L < 2
  <2> DEFINE answer == CheckMove(p, line[1], 0)
             right == VerifyAttempt(p, line[1]) = "pass"
  <2>1. /\ answer.correct <=> right
        /\ answer.complete <=> right
    BY <1>5, Answers
  <2>2. r[0].state = "open" /\ r[0].ply = 0 /\ r[1] = Play(p, r[0], line[1])
    BY <1>2, <1>4 DEF Unplayed
  <2>3. r[1].state = (IF right THEN "solved" ELSE "wrong")
    <3>1. CASE right
      <4>1. r[1] = [r[0] EXCEPT !.state = "solved"]
        BY <2>1, <2>2, <3>1, Zenon DEF Play
      <4> QED BY <1>4, <3>1, <4>1 DEF Unplayed
    <3>2. CASE ~right
      <4>1. r[1] = [r[0] EXCEPT !.state = "wrong"]
        BY <2>1, <2>2, <3>2, Zenon DEF Play
      <4> QED BY <1>4, <3>2, <4>1 DEF Unplayed
    <3> QED BY <3>1, <3>2
  <2>4. m = 1
    <3> SUFFICES ASSUME m > 1 PROVE FALSE
      BY <1>2
    <3>1. m \in 1..m /\ m - 1 \in 0..m
      BY <1>2
    <3>2. \A i \in 1..m : r[i - 1].state # "open" => r[i].state = "overrun"
      <4> SUFFICES ASSUME NEW i \in 1..m, r[i - 1].state # "open"
                   PROVE  r[i].state = "overrun"
        OBVIOUS
      <4>1. r[i] = [r[i - 1] EXCEPT !.state = "overrun"]
        BY <1>4, Zenon DEF Play
      <4>2. i - 1 \in 0..m
        BY <1>2
      <4>3. r[i - 1] \in [state : {"open", "overrun", "wrong", "solved"}, ply : Int]
        BY <1>3, <4>2
      <4> QED BY <4>1, <4>3
    <3> DEFINE T == {i \in 0..m : i >= 1 => r[i].state # "open"}
    <3>3. \A i \in 0..m : i \in T
      <4>1. 0 \in T
        BY <1>2
      <4>2. ASSUME NEW i \in 1..m, i - 1 \in T PROVE i \in T
        <5>1. CASE i = 1
          <6>1. 1 \in 0..m
            BY <1>2
          <6> QED BY <2>3, <5>1, <6>1
        <5>2. CASE i > 1
          <6>1. i \in 0..m /\ i - 1 >= 1
            BY <1>2, <5>2
          <6> QED BY <3>2, <4>2, <6>1
        <5> QED BY <5>1, <5>2
      <4> HIDE DEF T
      <4> QED BY <1>2, <4>1, <4>2, UptoInduction
    <3>4. r[m - 1].state # "open"
      BY <1>2, <3>1, <3>3
    <3> QED BY <1>4, <3>1, <3>2, <3>4
  <2>5. Verified(p, line) = VerifyAttempt(p, line[1])
    <3>1. ~(L >= 2) /\ Len(line) = 1
      BY <1>1, <1>5, <2>4 DEF m
    <3> QED BY <3>1, Zenon DEF Verified
  <2> HIDE DEF answer
  <2> QED BY <1>4, <2>3, <2>4, <2>5
<1>6. CASE L >= 2
  <2>1. \A i \in 0..m : PlayFits(r[i], i, p, line)
    <3> DEFINE T == {i \in 0..m : PlayFits(r[i], i, p, line)}
    <3>1. 0 \in T
      <4>1. PlayFits(r[0], 0, p, line) /\ 0 \in 0..m
        BY <1>1, <1>2, <1>4, <1>6 DEF PlayFits, Unplayed
      <4> QED BY <4>1
    <3>2. ASSUME NEW i \in 1..m, i - 1 \in T PROVE i \in T
      <4>1. i \in Nat /\ i > 0 /\ i - 1 \in 0..m /\ i \in 0..m
        BY <1>2
      <4>2. r[i - 1] \in [state : {"open", "overrun", "wrong", "solved"}, ply : Int]
        BY <1>3, <4>1
      <4>3. PlayFits(r[i - 1], i - 1, p, line)
        BY <3>2
      <4>4. PlayFits(Play(p, r[i - 1], line[i]), i, p, line)
        BY <1>6, <4>1, <4>2, <4>3, PlayKeepsFit
      <4> QED BY <1>4, <4>1, <4>4
    <3> HIDE DEF T
    <3>3. \A i \in 0..m : i \in T
      BY <1>2, <3>1, <3>2, UptoInduction
    <3> QED BY <3>3 DEF T
  <2>2. PlayFits(r[m], m, p, line)
    BY <1>2, <2>1
  <2> DEFINE U == (L + 1) \div 2
             plies == UserPlies(p)
  <2>3. /\ U \in Nat /\ 2 * U >= L /\ 2 * (U - 1) < L
        /\ Len(plies) = U /\ \A i \in 1..U : plies[i] = Pv(p)[2 * i - 1]
    <3>1. U \in Nat /\ 2 * U >= L /\ 2 * (U - 1) < L
      BY <1>1
    <3> HIDE DEF U
    <3>2. plies = [i \in 1..U |-> Pv(p)[2 * i - 1]]
      BY DEF UserPlies, U
    <3> HIDE DEF plies
    <3>3. Len(plies) = U
      BY <3>1, <3>2
    <3> QED BY <3>1, <3>2, <3>3
  <2>4. Verified(p, line) = "pass" <=>
            /\ m = Len(plies) /\ line[1] \in Accepts(p)
            /\ \A i \in 2..m : line[i] = plies[i]
    BY <1>6 DEF Verified, VerifyLine, m
  <2> HIDE DEF plies, U, L
  <2>5. CASE LineState(p, line) = "solved"
    <3>1. 2 * m >= L /\ \A j \in 1..m : RightMove(p, line[j], 2 * (j - 1))
      BY <1>4, <2>2, <2>5 DEF PlayFits, L
    <3>2. 2 * (m - 1) < L
      <4>1. RightMove(p, line[m], 2 * (m - 1))
        BY <1>2, <3>1
      <4> QED BY <1>1, <1>2, <4>1 DEF RightMove, L
    <3>3. m = U
      BY <1>1, <1>2, <2>3, <3>1, <3>2
    <3>4. line[1] \in Accepts(p)
      <4>1. RightMove(p, line[1], 2 * (1 - 1)) /\ 2 * (1 - 1) = 0
        BY <1>2, <3>1
      <4> QED BY <4>1 DEF RightMove
    <3>5. \A i \in 2..m : line[i] = plies[i]
      <4> TAKE i \in 2..m
      <4>1. i \in 1..m /\ 2 * (i - 1) # 0 /\ 2 * (i - 1) + 1 = 2 * i - 1
        BY <1>2
      <4>2. line[i] = Pv(p)[2 * (i - 1) + 1]
        BY <3>1, <4>1 DEF RightMove
      <4> QED BY <2>3, <3>3, <4>1, <4>2
    <3> QED BY <2>3, <2>4, <2>5, <3>3, <3>4, <3>5
  <2>6. CASE LineState(p, line) = "wrong"
    <3>1. 2 * (m - 1) < L /\ ~RightMove(p, line[m], 2 * (m - 1))
      BY <1>4, <2>2, <2>6 DEF PlayFits, L
    <3>2. 2 * (m - 1) \in 0..(L - 1) /\ (2 * (m - 1)) % 2 = 0
      BY <1>1, <1>2, <3>1
    <3>3. CASE m = 1
      <4>1. 2 * (m - 1) = 0
        BY <3>3
      <4>2. line[1] \notin Accepts(p)
        BY <3>1, <3>2, <3>3, <4>1 DEF RightMove, L
      <4> QED BY <2>4, <2>6, <4>2
    <3>4. CASE m > 1
      <4>1. m \in 2..m /\ m \in 1..m /\ 2 * (m - 1) # 0 /\ 2 * (m - 1) + 1 = 2 * m - 1
        BY <1>2, <3>4
      <4>2. line[m] # Pv(p)[2 * m - 1]
        BY <3>1, <3>2, <4>1 DEF RightMove, L
      <4>3. m = U => plies[m] = Pv(p)[2 * m - 1]
        BY <2>3, <4>1
      <4> QED BY <2>3, <2>4, <2>6, <4>1, <4>2, <4>3
    <3> QED BY <1>2, <3>3, <3>4
  <2> QED BY <2>5, <2>6
<1> QED BY <1>1, <1>5, <1>6

-----------------------------------------------------------------------------
(* Every step preserves the invariant *)

LEMMA DayHolds ==
    ASSUME NEW days \in Nat \ {0}
    PROVE  days * Day \in Nat /\ days * Day > 0
<1>1. Day \in Nat /\ Day > 0 /\ days > 0
  BY PracticeQueueAssumption
<1> QED BY <1>1

\* A review counts an attempt and sets the next one ahead.
LEMMA ReviewSchedules ==
    ASSUME NEW row, RowOK(row), NEW result \in {"pass", "fail"}, NEW at \in Nat
    PROVE  /\ RowOK(Reviewed(row, result, at)) /\ Reviewed(row, result, at) # None
           /\ Reviewed(row, result, at).attempts > 0
           /\ Reviewed(row, result, at).due \in Int /\ Reviewed(row, result, at).due > at
<1> DEFINE old == IF row = None THEN NewStats ELSE row
           days == NextInterval(old, result)
           ease == NextEase(old, result)
           next == Reviewed(row, result, at)
<1>1. old \in StatsRow
  BY DEF RowOK, NewStats, StatsRow
<1> HIDE DEF old
<1>2. days \in Nat \ {0}
  <2>1. CASE result = "fail" \/ old.interval = None \/ old.interval = 1
    BY <2>1 DEF NextInterval
  <2>2. CASE ~(result = "fail" \/ old.interval = None \/ old.interval = 1)
    <3> DEFINE product == old.interval * old.ease
    <3>1. old.interval \in Nat /\ old.interval > 0 /\ old.ease \in Nat /\ old.ease >= 130
      BY <1>1, <2>2 DEF StatsRow
    <3>2. product \in Nat /\ product >= 130
      BY <3>1
    <3>3. days = Round(product, 100)
      BY <2>2 DEF NextInterval
    <3> HIDE DEF product, days
    <3>4. product \div 100 \in Nat /\ product \div 100 >= 1
      BY <3>2
    <3> QED BY <3>3, <3>4 DEF Round
  <2> QED BY <2>1, <2>2
<1>3. ease \in 130..280
  <2>1. old.ease \in 130..280
    BY <1>1 DEF StatsRow
  <2> DEFINE less == old.ease - 20
             more == old.ease + 5
  <2>2. less \in Int /\ more \in Int /\ less <= 260 /\ more >= 135
    BY <2>1
  <2>3. ease \in {Max({130, less}), Min({280, more})}
    BY DEF NextEase
  <2> HIDE DEF ease, less, more
  <2>4. Max({130, less}) = IF 130 >= less THEN 130 ELSE less
    BY <2>2, MaxOfTwo
  <2>5. Min({280, more}) = IF 280 <= more THEN 280 ELSE more
    BY <2>2, MinOfTwo
  <2> QED BY <2>2, <2>3, <2>4, <2>5
<1> HIDE DEF days, ease
<1>4. days * Day \in Nat /\ days * Day > 0
  BY <1>2, DayHolds
<1> DEFINE due == at + days * Day
<1>5. due \in Nat /\ due > at
  BY <1>4
<1> HIDE DEF due
<1>6. next = [attempts |-> old.attempts + 1,
              passes |-> old.passes + (IF result = "pass" THEN 1 ELSE 0),
              fails |-> old.fails + (IF result = "fail" THEN 1 ELSE 0),
              interval |-> days, ease |-> ease, due |-> due, last |-> at, result |-> result]
  BY DEF Reviewed, old, days, ease, due
<1> HIDE DEF next
<1>7. next \in StatsRow
  BY <1>1, <1>2, <1>3, <1>5, <1>6 DEF StatsRow
<1>8. next.attempts = old.attempts + 1 /\ next.attempts > 0 /\ next.due = due
  BY <1>1, <1>6 DEF StatsRow
<1>9. next # None /\ due # None
  BY <1>5, <1>7, NoneAssumption
<1> QED BY <1>5, <1>7, <1>8, <1>9 DEF RowOK, next

LEMMA VerdictTypes ==
    ASSUME NEW p, NEW line, NEW claim \in {"pass", "fail"}
    PROVE  Verdict(p, line, claim).result \in {"pass", "fail"}
BY DEF Verdict, Verified, VerifyLine, VerifyAttempt

LEMMA InitInv == Init => IInv
<1> SUFFICES ASSUME Init PROVE IInv
  OBVIOUS
<1>1. now \in Nat
  BY DEF Init
<1>2. DOMAIN stats = Puzzles /\ \A p \in Puzzles : stats[p] \in {NewStats, None}
  BY DEF Init
<1>3. NewStats \in StatsRow /\ NewStats.attempts = 0 /\ NewStats.due = None
  BY DEF NewStats, StatsRow
<1>4. RowsOK(stats)
  BY <1>2, <1>3 DEF RowsOK, RowOK
<1>5. tally \in [Puzzles -> [attempts : Nat, passes : Nat]] /\ tally = told
  BY DEF Init
<1>6. diag \in [Puzzles -> DiagnosisRow \union {None}]
  BY FactsAssumption DEF Init
<1>7. answered \subseteq Puzzles /\ AnsweredIsSealed
  <2>1. answered = {}
    BY DEF Init
  <2>2. \A p \in Puzzles : stats[p] # None => ~(stats[p].attempts > 0)
    BY <1>2, <1>3
  <2> QED BY <2>1, <2>2 DEF AnsweredIsSealed
<1>8. SessionFits
  BY DEF Init, SessionFits
<1>9. Trained
  BY PracticeAssumption DEF Init, Trained
<1> QED BY <1>1, <1>2, <1>4, <1>5, <1>6, <1>7, <1>8, <1>9 DEF IInv

LEMMA TickKeeps == IInv /\ Tick => IInv'
<1> SUFFICES ASSUME IInv, Tick PROVE IInv'
  OBVIOUS
<1>1. PICK step \in {1, Day} :
          now' = now + step /\ answered' = {p \in answered : stats[p].due > now + step}
  BY DEF Tick
<1>2. UNCHANGED <<stats, tally, diag, session, used, trained, requests, told>>
  BY DEF Tick
<1>3. now \in Nat /\ now' \in Nat /\ now' >= now
  BY <1>1, PracticeQueueAssumption DEF IInv
<1>4. answered' \subseteq Puzzles /\ AnsweredIsSealed'
  <2>1. \A p \in Puzzles : p \in answered' <=> p \in answered /\ stats[p].due > now'
    BY <1>1
  <2>2. \A p \in Puzzles : stats[p] # None /\ stats[p].attempts > 0 => stats[p].due \in Int
    BY DEF IInv, RowsOK, RowOK, StatsRow
  <2>3. \A p \in Puzzles : stats[p] # None /\ stats[p].attempts > 0 /\ stats[p].due > now'
                             => stats[p].due > now
    BY <1>3, <2>2
  <2>4. answered' \subseteq Puzzles
    BY <1>1 DEF IInv
  <2>5. stats' = stats
    BY <1>2
  <2> QED BY <2>1, <2>3, <2>4, <2>5 DEF IInv, AnsweredIsSealed
<1>5. Trained'
  BY <1>2, <1>3 DEF IInv, Trained
<1>6. SessionFits'
  BY <1>2 DEF IInv, SessionFits
<1>7. DOMAIN stats' = Puzzles /\ RowsOK(stats')
  BY <1>2 DEF IInv
<1> QED BY <1>2, <1>3, <1>4, <1>5, <1>6, <1>7 DEF IInv

\* What is kept when neither time, reviews nor the stats move.
LEMMA RestKeeps ==
    ASSUME IInv, UNCHANGED <<now, stats, tally, answered, told>>,
           diag' \in [Puzzles -> DiagnosisRow \union {None}], SessionFits', Trained'
    PROVE  IInv'
<1>1. DOMAIN stats' = Puzzles /\ RowsOK(stats') /\ AnsweredIsSealed'
  BY DEF IInv, AnsweredIsSealed
<1> QED BY <1>1 DEF IInv

LEMMA TrainedKeeps == Trained /\ UNCHANGED <<now, trained>> => Trained'
BY DEF Trained

LEMMA SessionKeeps == SessionFits /\ UNCHANGED session => SessionFits'
BY DEF SessionFits

LEMMA DiagnoseKeeps == ASSUME NEW p \in Puzzles, IInv, Diagnose(p) PROVE IInv'
<1>1. diag' = [diag EXCEPT ![p] = Facts[p].diagnosis]
  BY DEF Diagnose
<1>2. UNCHANGED <<now, stats, tally, session, used, trained, requests, answered, told>>
  BY DEF Diagnose
<1>3. diag' \in [Puzzles -> DiagnosisRow \union {None}]
  BY <1>1, FactsAssumption DEF IInv
<1>4. SessionFits' /\ Trained'
  BY <1>2, TrainedKeeps, SessionKeeps DEF IInv
<1> QED BY <1>2, <1>3, <1>4, RestKeeps

LEMMA ConfirmKeeps ==
    ASSUME NEW p \in Puzzles, NEW cause \in Corrections[p], IInv, Confirm(p, cause)
    PROVE  IInv'
<1>1. diag[p] # None /\ diag' = [diag EXCEPT ![p].confirmed = cause]
  BY DEF Confirm
<1>2. UNCHANGED <<now, stats, tally, session, used, trained, requests, answered, told>>
  BY DEF Confirm
<1>3. diag' \in [Puzzles -> DiagnosisRow \union {None}]
  <2>1. diag[p] \in DiagnosisRow /\ cause \in KnownCauses
    BY <1>1, PracticeAssumption DEF IInv
  <2> HIDE DEF KnownCauses
  <2>2. [diag[p] EXCEPT !.confirmed = cause] \in DiagnosisRow
    BY <2>1 DEF DiagnosisRow
  <2>3. diag' = [diag EXCEPT ![p] = [diag[p] EXCEPT !.confirmed = cause]]
    BY <1>1
  <2> QED BY <2>2, <2>3 DEF IInv
<1>4. SessionFits' /\ Trained'
  BY <1>2, TrainedKeeps, SessionKeeps DEF IInv
<1> QED BY <1>2, <1>3, <1>4, RestKeeps

LEMMA DailySessionKeeps == ASSUME NEW n, IInv, DailySession(n) PROVE IInv'
<1>1. UNCHANGED <<now, stats, tally, diag, session, trained, answered, told>>
  BY DEF DailySession
<1>2. SessionFits' /\ Trained'
  BY <1>1, TrainedKeeps, SessionKeeps DEF IInv
<1>3. diag' \in [Puzzles -> DiagnosisRow \union {None}]
  BY <1>1 DEF IInv
<1> QED BY <1>1, <1>2, <1>3, RestKeeps

LEMMA NewSessionFits ==
    ASSUME NEW kind, NEW items \in Seq(Puzzles), NEW policy, NEW name,
           session' = NewSession(kind, items, policy, name)
    PROVE  SessionFits'
BY DEF NewSession, SessionFits

LEMMA StartSessionKeeps == ASSUME IInv, StartSession PROVE IInv'
<1>1. UNCHANGED <<now, stats, tally, diag, used, trained, answered, told>>
  BY DEF StartSession
<1>2. SessionFits'
  <2>1. session' = NewSession("standard", << >>, << >>, None)
    BY DEF StartSession
  <2>2. << >> \in Seq(Puzzles)
    OBVIOUS
  <2> QED BY <2>1, <2>2, NewSessionFits
<1>3. Trained' /\ diag' \in [Puzzles -> DiagnosisRow \union {None}]
  BY <1>1, TrainedKeeps DEF IInv
<1> QED BY <1>1, <1>2, <1>3, RestKeeps

LEMMA CompleteSessionKeeps == ASSUME IInv, CompleteSession PROVE IInv'
<1>1. UNCHANGED <<now, stats, tally, diag, used, answered, told>>
  BY DEF CompleteSession
<1>2. SessionFits'
  <2>1. session # None /\ session' = [session EXCEPT !.completed = TRUE]
    BY DEF CompleteSession
  <2> QED BY <2>1 DEF IInv, SessionFits
<1>3. Trained'
  <2>1. trained' = trained \union {now} /\ now' = now
    BY DEF CompleteSession
  <2>2. now \in Int /\ now <= now /\ IsFiniteSet(trained \union {now})
    BY FS_AddElement DEF IInv, Trained
  <2> QED BY <2>1, <2>2 DEF IInv, Trained
<1>4. diag' \in [Puzzles -> DiagnosisRow \union {None}]
  BY <1>1 DEF IInv
<1> QED BY <1>1, <1>2, <1>3, <1>4, RestKeeps

\* A focus session captures puzzles.
LEMMA StartFocusPracticeKeeps == ASSUME IInv, StartFocusPractice(SessionSize) PROVE IInv'
<1> DEFINE planned == PlanFocus(Breakdown(diag, tally, now))
           items == FocusSnapshot(planned.cause, SessionSize)
<1>1. UNCHANGED <<now, stats, tally, diag, used, trained, answered, told>>
  BY DEF StartFocusPractice
<1>2. SessionFits'
  <2>1. session' = NewSession("focus_practice", items,
                              [p \in Range(items) |-> PolicyOf(stats[p], now)], planned.name)
    BY DEF StartFocusPractice
  <2>2. items \in Seq(Puzzles)
    <3>1. IdsForCause(diag, planned.cause) \in SUBSET Puzzles
      BY DEF IdsForCause
    <3>2. QueueOf(items, IdsForCause(diag, planned.cause), stats, now, SessionSize)
      BY <3>1, PracticeQueues, PracticeAssumption DEF FocusSnapshot, IInv
    <3> HIDE DEF items, planned
    <3> QED BY <3>1, <3>2 DEF QueueOf
  <2> HIDE DEF items, planned
  <2> QED BY <2>1, <2>2, NewSessionFits
<1>3. Trained' /\ diag' \in [Puzzles -> DiagnosisRow \union {None}]
  BY <1>1, TrainedKeeps DEF IInv
<1> QED BY <1>1, <1>2, <1>3, RestKeeps

\* A review of p that comes with the told result keeps everything else.
LEMMA ReviewKeeps ==
    ASSUME NEW p \in Puzzles, NEW line, NEW claim \in {"pass", "fail"},
           IInv, Review(p, line, claim), tally' = told'
    PROVE  IInv'
<1> DEFINE result == Verdict(p, line, claim).result
           row == Reviewed(stats[p], result, now)
<1>1. result \in {"pass", "fail"}
  BY VerdictTypes
<1>2. UNCHANGED <<now, diag, used, trained>>
  BY DEF Review
<1>3. \/ stats' = [stats EXCEPT ![p] = row] /\ answered' = answered \union {p}
      \/ UNCHANGED <<stats, answered>>
  BY DEF Review
<1>4. /\ RowOK(row) /\ row # None /\ row.attempts > 0 /\ row.due \in Int /\ row.due > now
  <2> HIDE DEF result
  <2> QED BY <1>1, ReviewSchedules DEF IInv, RowsOK
<1>5. tally' \in [Puzzles -> [attempts : Nat, passes : Nat]]
  <2>1. tally' = tally \/ \E passed \in BOOLEAN : tally' = Counted(tally, p, passed)
    BY DEF Review
  <2>2. tally \in [Puzzles -> [attempts : Nat, passes : Nat]]
    BY DEF IInv
  <2>3. \A passed \in BOOLEAN :
            Counted(tally, p, passed) \in [Puzzles -> [attempts : Nat, passes : Nat]]
    <3> SUFFICES ASSUME NEW passed \in BOOLEAN
                 PROVE  Counted(tally, p, passed) \in [Puzzles -> [attempts : Nat, passes : Nat]]
      OBVIOUS
    <3> DEFINE pass == IF passed THEN 1 ELSE 0
               one == [[tally[p] EXCEPT !.attempts = @ + 1] EXCEPT !.passes = @ + pass]
    <3>1. one \in [attempts : Nat, passes : Nat]
      <4> DEFINE tried == [tally[p] EXCEPT !.attempts = @ + 1]
      <4>1. tally[p] \in [attempts : Nat, passes : Nat]
        BY <2>2
      <4>2. tried \in [attempts : Nat, passes : Nat]
        BY <4>1
      <4>3. pass \in Nat
        OBVIOUS
      <4> HIDE DEF pass, tried
      <4>4. [tried EXCEPT !.passes = @ + pass] \in [attempts : Nat, passes : Nat]
        BY <4>2, <4>3
      <4> QED BY <4>4 DEF tried
    <3>2. Counted(tally, p, passed) = [tally EXCEPT ![p] = one]
      BY <2>2 DEF Counted
    <3> HIDE DEF one
    <3> QED BY <2>2, <3>1, <3>2
  <2> QED BY <2>1, <2>2, <2>3
<1>6. SessionFits'
  <2>1. \/ session' = session
        \/ session # None /\ session' = [session EXCEPT !.missed = @ \union {p}]
    BY DEF Review, Live
  <2>2. CASE session' = session
    BY <2>2, SessionKeeps DEF IInv
  <2>3. CASE session # None /\ session' = [session EXCEPT !.missed = @ \union {p}]
    <3>1. /\ DOMAIN session' = DOMAIN session /\ session'.items = session.items
          /\ session'.missed = session.missed \union {p}
      BY <2>3 DEF IInv, SessionFits
    <3> QED BY <2>3, <3>1 DEF IInv, SessionFits
  <2> QED BY <2>1, <2>2, <2>3
<1>7. Trained'
  BY <1>2, TrainedKeeps DEF IInv
<1> HIDE DEF row, result
<1>8. /\ DOMAIN stats' = Puzzles /\ RowsOK(stats')
      /\ answered' \subseteq Puzzles /\ AnsweredIsSealed'
  <2>1. CASE stats' = [stats EXCEPT ![p] = row] /\ answered' = answered \union {p}
    <3>1. DOMAIN stats' = Puzzles /\ stats'[p] = row
          /\ \A q \in Puzzles \ {p} : stats'[q] = stats[q]
      BY <2>1 DEF IInv
    <3>2. RowsOK(stats')
      BY <1>4, <3>1 DEF IInv, RowsOK
    <3>3. answered' \subseteq Puzzles /\ \A q \in Puzzles : q \in answered' <=> q \in answered \/ q = p
      BY <2>1 DEF IInv
    <3>4. AnsweredIsSealed'
      <4>1. ASSUME NEW q \in Puzzles
            PROVE  q \in answered' <=>
                      stats'[q] # None /\ stats'[q].attempts > 0 /\ stats'[q].due > now'
        <5>1. CASE q = p
          BY <1>2, <1>4, <3>1, <3>3, <5>1
        <5>2. CASE q # p
          <6>1. q \in answered' <=> q \in answered
            BY <3>3, <5>2
          <6>2. stats'[q] = stats[q] /\ now' = now
            BY <1>2, <3>1, <5>2
          <6> QED BY <6>1, <6>2 DEF IInv, AnsweredIsSealed
        <5> QED BY <5>1, <5>2
      <4> QED BY <4>1 DEF AnsweredIsSealed
    <3> QED BY <3>1, <3>2, <3>3, <3>4
  <2>2. CASE UNCHANGED <<stats, answered>>
    BY <1>2, <2>2 DEF IInv, AnsweredIsSealed
  <2> QED BY <1>3, <2>1, <2>2
<1> QED BY <1>2, <1>5, <1>6, <1>7, <1>8 DEF IInv

\* A line is verified as /check told it.
LEMMA SubmitKeeps == ASSUME NEW p \in Puzzles, IInv, Submit(p) PROVE IInv'
<1>1. PICK line \in Lines :
          /\ LineState(p, line) \in {"solved", "wrong"}
          /\ Review(p, line, None)
          /\ told' = Counted(told, p, LineState(p, line) = "solved")
  BY DEF Submit
<1>2. line # None
  BY LinesAssumption
<1>3. Verdict(p, line, None) = [result |-> Verified(p, line), verified |-> TRUE]
  BY <1>2 DEF Verdict
<1>4. tally' = Counted(tally, p, Verified(p, line) = "pass")
  BY <1>1, <1>3 DEF Review
<1>5. tally = told
  BY DEF IInv
<1>6. Verified(p, line) = "pass" <=> LineState(p, line) = "solved"
  BY <1>1, LineVerdict
<1>7. tally' = told'
  BY <1>1, <1>4, <1>5, <1>6 DEF Counted
<1>8. Review(p, line, "pass")
  <2>1. Verdict(p, line, "pass") = Verdict(p, line, None)
    BY <1>2 DEF Verdict
  <2> QED BY <1>1, <2>1 DEF Review
<1> QED BY <1>7, <1>8, ReviewKeeps

LEMMA SelfReportKeeps == ASSUME NEW p \in Puzzles, IInv, SelfReport(p) PROVE IInv'
<1>1. PICK claim \in {"pass", "fail"} : Review(p, None, claim)
  BY DEF SelfReport
<1>2. told' = told
  BY DEF SelfReport
<1>3. ~Verdict(p, None, claim).verified
  BY DEF Verdict
<1>4. tally' = tally
  BY <1>1, <1>3 DEF Review
<1>5. tally' = told'
  BY <1>2, <1>4 DEF IInv
<1> QED BY <1>1, <1>5, ReviewKeeps

LEMMA NextInv == IInv /\ [Next]_vars => IInv'
<1> SUFFICES ASSUME IInv, [Next]_vars PROVE IInv'
  OBVIOUS
<1>1. CASE UNCHANGED vars
  <2>1. UNCHANGED <<now, stats, tally, diag, session, trained, answered, told>>
    BY <1>1 DEF vars
  <2>2. SessionFits' /\ Trained' /\ diag' \in [Puzzles -> DiagnosisRow \union {None}]
    BY <2>1, TrainedKeeps, SessionKeeps DEF IInv
  <2> QED BY <2>1, <2>2, RestKeeps
<1>2. CASE Next
  <2>1. CASE Tick
    BY <2>1, TickKeeps
  <2>2. ASSUME NEW p \in Puzzles, Diagnose(p) PROVE IInv'
    BY <2>2, DiagnoseKeeps
  <2>3. ASSUME NEW p \in Puzzles, NEW cause \in Corrections[p], Confirm(p, cause) PROVE IInv'
    BY <2>3, ConfirmKeeps
  <2>4. CASE DailySession(SessionSize)
    BY <2>4, DailySessionKeeps
  <2>5. CASE StartSession
    BY <2>5, StartSessionKeeps
  <2>6. CASE StartFocusPractice(SessionSize)
    BY <2>6, StartFocusPracticeKeeps
  <2>7. CASE CompleteSession
    BY <2>7, CompleteSessionKeeps
  <2>8. ASSUME NEW p \in Puzzles, Submit(p) PROVE IInv'
    BY <2>8, SubmitKeeps
  <2>9. ASSUME NEW p \in Puzzles, SelfReport(p) PROVE IInv'
    BY <2>9, SelfReportKeeps
  <2> QED BY <1>2, <2>1, <2>2, <2>3, <2>4, <2>5, <2>6, <2>7, <2>8, <2>9 DEF Next
<1> QED BY <1>1, <1>2

\* The stats rows, the history of answers and the sessions stay well-formed:
\* a review schedules ahead of now, a session's snapshot holds puzzles.
THEOREM Invariance == Spec => []IInv
<1> QED BY InitInv, NextInv, PTL DEF Spec

\* The verified reviews of a puzzle are the lines that /check called over, and
\* its passes those it called solved: /review and /check judge a line alike,
\* whatever its length and wherever its first move has an equal.
THEOREM ReviewsVerifyWhatCheckTold == Spec => []SolvedLinesVerify
<1>1. IInv => SolvedLinesVerify
  BY DEF IInv, SolvedLinesVerify
<1> QED BY <1>1, Invariance, PTL

-----------------------------------------------------------------------------
(* What the surfaces may show *)

LEMMA TakeKeeps ==
    ASSUME NEW X, NEW s \in Seq(X), NEW n \in Nat
    PROVE  Take(s, n) \in Seq(X) /\ Range(Take(s, n)) \subseteq X
<1> DEFINE k == Min({n, Len(s)})
<1>1. Len(s) \in Nat /\ k \in 0..Len(s)
  BY MinOfTwo
<1> HIDE DEF k
<1>2. SubSeq(s, 1, k) \in Seq(X)
  BY <1>1
<1> DEFINE t == SubSeq(s, 1, k)
<1> HIDE DEF t
<1>3. \A i \in DOMAIN t : t[i] \in X
  BY <1>2 DEF t
<1>4. Take(s, n) = t
  BY DEF Take, k, t
<1> QED BY <1>2, <1>3, <1>4 DEF Range, t

LEMMA DailyRange ==
    ASSUME NEW n \in Nat
    PROVE  Range(DailyPuzzles(n)) \subseteq Puzzles
<1> DEFINE Key(p) == IF used[p] = Today THEN <<0, p>>
                     ELSE IF used[p] = None THEN <<1, p>> ELSE <<2, -p>>
           f == [p \in Puzzles |-> Key(p)]
           s == InOrder({<<Key(p), p>> : p \in Puzzles})
<1>1. ASSUME NEW p \in Puzzles
      PROVE  /\ Key(p) \in [1..2 -> Int]
             /\ p = IF Key(p)[1] = 2 THEN -Key(p)[2] ELSE Key(p)[2]
  <2>1. p \in Int /\ -p \in Int
    BY PracticeQueueAssumption
  <2>2. <<0, p>> \in [1..2 -> Int] /\ <<1, p>> \in [1..2 -> Int] /\ <<2, -p>> \in [1..2 -> Int]
    BY <2>1, KeyTypes
  <2> QED BY <2>1, <2>2
<1> HIDE DEF Key
<1>2. f \in [Puzzles -> [1..2 -> Int]] /\ \A x, y \in Puzzles : f[x] = f[y] => x = y
  BY <1>1
<1>3. {<<Key(p), p>> : p \in Puzzles} = {<<f[p], p>> : p \in Puzzles}
  OBVIOUS
<1>4. Lists(s, Puzzles)
  <2>1. Sorted(s, Puzzles, f)
    <3> HIDE DEF f
    <3> QED BY <1>2, <1>3, SortedIsSorted, PracticeQueueAssumption
  <2> HIDE DEF f, s
  <2> QED BY <2>1, SortedLists, PracticeQueueAssumption
<1>5. DailyPuzzles(n) = Take(s, n)
  BY DEF DailyPuzzles, SortedBy, Key
<1> HIDE DEF s
<1> QED BY <1>4, <1>5, TakeKeeps DEF Lists

LEMMA TrickyRange ==
    ASSUME IInv, NEW n \in Nat
    PROVE  Range(Tricky(n)) \subseteq Puzzles
<1> DEFINE ids == {p \in Puzzles : stats[p] # None /\ stats[p].fails >= 2 /\ stats[p].last # None}
           Key(p) == <<-stats[p].fails, -stats[p].last, p>>
           f == [p \in ids |-> Key(p)]
           s == InOrder({<<Key(p), p>> : p \in ids})
<1>1. IsFiniteSet(ids) /\ ids \in SUBSET Puzzles
  BY FS_Subset, PracticeQueueAssumption
<1>2. ASSUME NEW p \in ids PROVE Key(p) \in [1..3 -> Int] /\ Key(p)[3] = p
  <2>1. p \in Int /\ -stats[p].fails \in Int /\ -stats[p].last \in Int
    BY PracticeQueueAssumption DEF IInv, RowsOK, RowOK, StatsRow
  <2> QED BY <2>1, KeyTypes
<1> HIDE DEF Key, ids
<1>3. f \in [ids -> [1..3 -> Int]] /\ \A x, y \in ids : f[x] = f[y] => x = y
  BY <1>2
<1>4. {<<Key(p), p>> : p \in ids} = {<<f[p], p>> : p \in ids}
  OBVIOUS
<1>5. Lists(s, ids)
  <2>1. Sorted(s, ids, f)
    <3> HIDE DEF f
    <3> QED BY <1>1, <1>3, <1>4, SortedIsSorted
  <2> HIDE DEF f, s
  <2> QED BY <1>1, <2>1, SortedLists
<1>6. Tricky(n) = Take(s, n)
  BY DEF Tricky, SortedBy, Key, ids
<1> HIDE DEF s
<1>7. Range(Tricky(n)) \subseteq ids
  BY <1>5, <1>6, TakeKeeps DEF Lists
<1> QED BY <1>1, <1>7

LEMMA SimilarRange ==
    ASSUME NEW p, NEW key, NEW n \in Nat, NEW d
    PROVE  Range(Similar(p, key, n, d).ids) \subseteq Puzzles
<1>1. ASSUME NEW legs
      PROVE  Range(Take(SortedBy(Siblings(p, key, legs, d), LAMBDA q : <<-q>>), n)) \subseteq Puzzles
  <2> DEFINE X == Siblings(p, key, legs, d)
             f == [q \in X |-> <<-q>>]
             s == InOrder({<<<<-q>>, q>> : q \in X})
  <2>1. X \in SUBSET Puzzles
    BY DEF Siblings, IdsForCause
  <2>2. IsFiniteSet(X)
    BY <2>1, FS_Subset, PracticeQueueAssumption
  <2> HIDE DEF X
  <2>3. ASSUME NEW q \in X PROVE <<-q>> \in [1..1 -> Int] /\ <<-q>>[1] = -q /\ q \in Int
    BY <2>1, PracticeQueueAssumption, KeyTypes
  <2>4. f \in [X -> [1..1 -> Int]] /\ \A x, y \in X : f[x] = f[y] => x = y
    <3>1. f \in [X -> [1..1 -> Int]]
      BY <2>3
    <3>2. ASSUME NEW x \in X, NEW y \in X, f[x] = f[y] PROVE x = y
      <4>1. f[x] = <<-x>> /\ f[y] = <<-y>>
        OBVIOUS
      <4>2. -x = -y
        BY <2>3, <3>2, <4>1
      <4>3. x \in Int /\ y \in Int
        BY <2>3
      <4> QED BY <4>2, <4>3
    <3> QED BY <3>1, <3>2
  <2>5. {<<<<-q>>, q>> : q \in X} = {<<f[q], q>> : q \in X}
    OBVIOUS
  <2>6. Lists(s, X)
    <3>1. Sorted(s, X, f)
      <4> HIDE DEF f
      <4> QED BY <2>2, <2>4, <2>5, SortedIsSorted
    <3> HIDE DEF f, s
    <3> QED BY <2>2, <3>1, SortedLists
  <2>7. SortedBy(X, LAMBDA q : <<-q>>) = s
    BY DEF SortedBy
  <2> HIDE DEF s
  <2>8. Range(Take(s, n)) \subseteq X
    BY <2>6, TakeKeeps DEF Lists
  <2> QED BY <2>1, <2>7, <2>8 DEF X
<1> DEFINE tiers == SelectSeq(TiersFor(key), LAMBDA legs : Siblings(p, key, legs, d) # {})
<1>2. CASE tiers = << >>
  <2>1. Similar(p, key, n, d) = [ids |-> << >>, legs |-> None]
    BY <1>2, Zenon DEF Similar
  <2> QED BY <2>1 DEF Range
<1>3. CASE tiers # << >>
  <2>1. Similar(p, key, n, d).ids
          = Take(SortedBy(Siblings(p, key, tiers[1], d), LAMBDA q : <<-q>>), n)
    BY <1>3 DEF Similar
  <2> QED BY <1>1, <2>1
<1> QED BY <1>2, <1>3

LEMMA ListPageRange ==
    ASSUME IInv, NEW req \in ListRequest
    PROVE  Range(ListPage(req)) \subseteq Puzzles
<1> DEFINE X == ListIds(req)
           Key(p) == ListKey(p, req.sort)
           f == [p \in X |-> Key(p)]
           s == InOrder({<<Key(p), p>> : p \in X})
           sorts == {"due_soonest", "last_attempted", "most_failed", "difficulty_asc",
                     "difficulty_desc", "newest"}
           N == CASE req.sort = "due_soonest" -> 4
                  [] req.sort = "last_attempted" -> 3
                  [] req.sort \in {"most_failed", "difficulty_asc", "difficulty_desc"} -> 2
                  [] req.sort = "newest" -> 1
<1>1. X \in SUBSET Puzzles
  BY DEF ListIds
<1>2. IsFiniteSet(X)
  BY <1>1, FS_Subset, PracticeQueueAssumption
<1>3. req.sort \in sorts /\ req.offset \in Nat /\ req.limit \in Nat
  BY DEF ListRequest
<1> HIDE DEF X
<1>4. ASSUME NEW p \in Puzzles
      PROVE  /\ p \in Int /\ -p \in Int /\ Facts[p].swing \in Int /\ -Facts[p].swing \in Int
             /\ stats[p] # None => /\ -stats[p].fails \in Int
                                   /\ stats[p].last # None => -stats[p].last \in Int
             /\ Scheduled(stats[p]) => stats[p].due \in Int
  BY PracticeQueueAssumption, FactsAssumption
  DEF IInv, RowsOK, RowOK, StatsRow, Scheduled
<1>5. N \in Nat /\ f \in [X -> [1..N -> Int]] /\ \A x, y \in X : f[x] = f[y] => x = y
  <2>1. CASE req.sort = "due_soonest"
    <3>1. ASSUME NEW p \in X PROVE Key(p) \in [1..4 -> Int] /\ Key(p)[4] = p
      <4> DEFINE key == IF Scheduled(stats[p])
                        THEN <<IF stats[p].due <= now THEN 0 ELSE 2, 0, stats[p].due, p>>
                        ELSE <<IF Untried(stats[p]) THEN 1 ELSE 2, 1, 0, p>>
      <4>1. Key(p) = key
        BY <2>1 DEF ListKey
      <4>2. key \in [1..4 -> Int] /\ key[4] = p
        BY <1>1, <1>4, KeyTypes
      <4> HIDE DEF Key, key
      <4> QED BY <4>1, <4>2
    <3> HIDE DEF Key
    <3> QED BY <2>1, <3>1
  <2>2. CASE req.sort = "last_attempted"
    <3>1. ASSUME NEW p \in X PROVE Key(p) \in [1..3 -> Int] /\ Key(p)[3] = p
      <4> DEFINE last == IF stats[p] = None THEN None ELSE stats[p].last
                 key == IF last = None THEN <<1, 0, p>> ELSE <<0, -last, p>>
      <4>1. Key(p) = key
        BY <2>2 DEF ListKey
      <4>2. key \in [1..3 -> Int] /\ key[3] = p
        BY <1>1, <1>4, KeyTypes
      <4> HIDE DEF Key, key
      <4> QED BY <4>1, <4>2
    <3> HIDE DEF Key
    <3> QED BY <2>2, <3>1
  <2>3. CASE req.sort \in {"most_failed", "difficulty_asc", "difficulty_desc"}
    <3>1. ASSUME NEW p \in X PROVE Key(p) \in [1..2 -> Int] /\ Key(p)[2] = p
      <4> DEFINE key == <<IF req.sort = "most_failed"
                          THEN IF stats[p] = None THEN 0 ELSE -stats[p].fails
                          ELSE IF req.sort = "difficulty_asc" THEN Facts[p].swing
                          ELSE -Facts[p].swing, p>>
      <4>1. Key(p) = key
        BY <2>3 DEF ListKey
      <4>2. key \in [1..2 -> Int] /\ key[2] = p
        BY <1>1, <1>4, KeyTypes
      <4> HIDE DEF Key, key
      <4> QED BY <4>1, <4>2
    <3> HIDE DEF Key
    <3> QED BY <2>3, <3>1
  <2>4. CASE req.sort = "newest"
    <3>1. ASSUME NEW p \in X PROVE Key(p) \in [1..1 -> Int] /\ Key(p)[1] = -p
      <4>1. Key(p) = <<-p>>
        BY <2>4 DEF ListKey
      <4>2. <<-p>> \in [1..1 -> Int]
        BY <1>1, <1>4, KeyTypes
      <4> HIDE DEF Key
      <4> QED BY <4>1, <4>2
    <3> HIDE DEF Key
    <3>2. \A x, y \in X : f[x] = f[y] => -x = -y
      BY <3>1
    <3>3. \A x, y \in X : -x = -y => x = y
      BY <1>1, <1>4
    <3> QED BY <2>4, <3>1, <3>2, <3>3
  <2> QED BY <1>3, <2>1, <2>2, <2>3, <2>4
<1> HIDE DEF Key, N
<1>6. {<<Key(p), p>> : p \in X} = {<<f[p], p>> : p \in X}
  OBVIOUS
<1>7. Lists(s, X)
  <2>1. Sorted(s, X, f)
    <3> HIDE DEF f
    <3> QED BY <1>2, <1>5, <1>6, SortedIsSorted
  <2> HIDE DEF f, s
  <2> QED BY <1>2, <2>1, SortedLists
<1>8. ListPage(req) = Take(SubSeq(s, req.offset + 1, Len(s)), req.limit)
  BY DEF ListPage, SortedBy, Key, X
<1> HIDE DEF s
<1>9. s \in Seq(X) /\ Len(s) \in Nat
  BY <1>7 DEF Lists
<1>10. SubSeq(s, req.offset + 1, Len(s)) \in Seq(X)
  BY <1>3, <1>9
<1> QED BY <1>1, <1>3, <1>8, <1>10, TakeKeeps

\* The gate opens with the answer, and closes when the puzzle comes due.
LEMMA ResolvedIsEarned ==
    ASSUME IInv, NEW p \in Puzzles
    PROVE  Resolved(p) <=> Earned(p)
<1>1. RowOK(stats[p])
  BY DEF IInv, RowsOK
<1>2. p \in answered <=> stats[p] # None /\ stats[p].attempts > 0 /\ stats[p].due > now
  BY DEF IInv, AnsweredIsSealed
<1>3. stats[p] # None /\ stats[p].attempts > 0 => stats[p].due # None /\ stats[p].due \in Int
  BY <1>1 DEF RowOK, StatsRow
<1>4. now \in Int
  BY DEF IInv
<1> QED BY <1>2, <1>3, <1>4, PracticeQueueAssumption DEF Resolved, IsResolved, Earned

\* What an item shows of a puzzle that was not earned.
Hides(i, motifs, causes) ==
    /\ i.title = None /\ i.name = "provenance"
    /\ i.motif = None \/ i.motif \in motifs
    /\ i.cause = None \/ i.cause \in causes

LEMMA ItemHides ==
    ASSUME IInv, NEW p \in Puzzles, NEW motifs, NEW cause, NEW causes,
           Earned(p) \/ cause = None \/ cause \in causes
    PROVE  /\ Item(p, motifs, cause).puzzle = p
           /\ Item(p, motifs, cause).cause = cause
           /\ Earned(p) \/ Hides(Item(p, motifs, cause), motifs, causes)
<1> DEFINE i == Item(p, motifs, cause)
           motif == IF MotifIsVisible(Resolved(p), MotifIn(stats, p), motifs)
                    THEN Motif(p) ELSE None
<1>1. /\ i.puzzle = p /\ i.cause = cause /\ i.motif = motif
      /\ i.title = (IF Resolved(p) THEN Title(p) ELSE None)
      /\ i.name = DisplayName(Title(p), Resolved(p))
  BY DEF Item
<1>2. ~Resolved(p) => motif = None \/ motif \in motifs
  BY DEF MotifIsVisible, Motif, Usable
<1>3. ~Resolved(p) => DisplayName(Title(p), Resolved(p)) = "provenance"
  BY DEF DisplayName
<1> HIDE DEF i, motif
<1>4. Earned(p) \/ Hides(i, motifs, causes)
  BY <1>1, <1>2, <1>3, ResolvedIsEarned DEF Hides
<1> QED BY <1>1, <1>4 DEF i

LEMMA ItemsHide ==
    ASSUME IInv, NEW ids \in SUBSET Puzzles
    PROVE  Withheld(Items(ids, {}), {}, {})
<1>1. ASSUME NEW p \in ids
      PROVE  Earned(Item(p, {}, None).puzzle) \/ Hides(Item(p, {}, None), {}, {})
  BY ItemHides
<1> QED BY <1>1 DEF Items, Withheld, Hides

LEMMA UnnamedHides ==
    ASSUME IInv, NEW ids \in SUBSET Puzzles
    PROVE  Withheld({[Item(p, {}, None) EXCEPT !.motif = None] : p \in ids}, {}, {})
<1>1. ASSUME NEW p \in ids
      PROVE  LET i == [Item(p, {}, None) EXCEPT !.motif = None] IN
             Earned(i.puzzle) \/ Hides(i, {}, {})
  <2>1. /\ Item(p, {}, None).puzzle = p
        /\ Earned(p) \/ Hides(Item(p, {}, None), {}, {})
    BY ItemHides
  <2> DEFINE i == [Item(p, {}, None) EXCEPT !.motif = None]
  <2>2. /\ i.puzzle = Item(p, {}, None).puzzle /\ i.title = Item(p, {}, None).title
        /\ i.name = Item(p, {}, None).name /\ i.cause = Item(p, {}, None).cause
        /\ i.motif = None
    BY DEF Item
  <2> HIDE DEF i
  <2>3. Earned(i.puzzle) \/ Hides(i, {}, {})
    BY <2>1, <2>2 DEF Hides
  <2> QED BY <2>3 DEF i
<1> QED BY <1>1 DEF Withheld, Hides

LEMMA QueueServes ==
    ASSUME IInv, NEW req, req.n \in Nat, req.goal \in Nat \union {None}
    PROVE  /\ Candidates(req) \in SUBSET Puzzles
           /\ QueueOf(Queue(req), Candidates(req), stats, now, req.n)
<1>1. Candidates(req) \in SUBSET Puzzles
  BY DEF Candidates, TrainableIds
<1>2. RowsOK(stats) /\ now \in Int
  BY DEF IInv
<1> QED BY <1>1, <1>2, AdaptiveQueues DEF Queue

\* GET /puzzles/due names at most what the request named.
LEMMA DueHides ==
    ASSUME IInv, NEW req \in QueueRequests
    PROVE  Withheld(DuePuzzles(req).items, {req.motif}, {DuePuzzles(req).name})
<1> DEFINE queue == Queue(req)
           name == FocusName(req)
           motifs == IF req.motif = None THEN {} ELSE {req.motif}
           Pattern(p) == QueueReason(p, req, name).pattern
           items == {Item(queue[i], motifs, Pattern(queue[i])) : i \in DOMAIN queue}
<1>1. DuePuzzles(req).items = items /\ DuePuzzles(req).name = name
  BY DEF DuePuzzles
<1>2. req.n \in Nat /\ req.goal \in Nat \union {None}
  BY RequestsAssumption DEF QueueRequest
<1>3. \A i \in DOMAIN queue : queue[i] \in Puzzles
  <2>1. Candidates(req) \in SUBSET Puzzles /\ queue \in Seq(Candidates(req))
    BY <1>2, QueueServes DEF QueueOf
  <2> HIDE DEF queue
  <2> QED BY <2>1
<1>4. \A p : Pattern(p) \in {name, None}
  BY DEF QueueReason
<1> HIDE DEF queue, name, Pattern
<1>5. ASSUME NEW i \in DOMAIN queue
      PROVE  LET it == Item(queue[i], motifs, Pattern(queue[i])) IN
             Earned(it.puzzle) \/ Hides(it, {req.motif}, {name})
  <2> DEFINE it == Item(queue[i], motifs, Pattern(queue[i]))
  <2>1. /\ it.puzzle = queue[i]
        /\ Earned(queue[i]) \/ Hides(it, motifs, {name})
    <3> HIDE DEF motifs
    <3> QED BY <1>3, <1>4, ItemHides
  <2>2. motifs \subseteq {req.motif}
    OBVIOUS
  <2> HIDE DEF it, motifs
  <2>3. Earned(it.puzzle) \/ Hides(it, {req.motif}, {name})
    BY <2>1, <2>2 DEF Hides
  <2> QED BY <2>3 DEF it
<1> HIDE DEF motifs
<1>6. Withheld(items, {req.motif}, {name})
  BY <1>5 DEF Withheld, Hides
<1> HIDE DEF items
<1> QED BY <1>1, <1>6

\* A Library row shows a cause only of a puzzle that was earned.
LEMMA ListHides ==
    ASSUME IInv, NEW req \in ListRequests
    PROVE  Withheld(ListItems(req), req.motifs, {})
<1> DEFINE Cause(p) == IF Resolved(p) THEN SummaryCause(diag[p]) ELSE None
           page == Range(ListPage(req))
           items == {Item(p, req.motifs, Cause(p)) : p \in page}
<1>1. page \subseteq Puzzles
  BY ListPageRange, RequestsAssumption
<1>2. ListItems(req) = items
  BY DEF ListItems
<1>3. \A p \in Puzzles : Earned(p) \/ Cause(p) = None
  BY ResolvedIsEarned
<1> HIDE DEF Cause, page
<1>4. ASSUME NEW p \in page
      PROVE  LET i == Item(p, req.motifs, Cause(p)) IN
             Earned(i.puzzle) \/ Hides(i, req.motifs, {})
  BY <1>1, <1>3, ItemHides
<1>5. Withheld(items, req.motifs, {})
  BY <1>4 DEF Withheld, Hides
<1> HIDE DEF items
<1> QED BY <1>2, <1>5

\* The pages of one puzzle: its detail, its diagnosis and its siblings.
LEMMA PagesHide ==
    ASSUME IInv, NEW p \in Puzzles
    PROVE  /\ Withheld({Detail(p)}, {}, {})
           /\ Withheld({[Detail(p) EXCEPT !.motif = DiagnosisOf(p).motif,
                                          !.cause = DiagnosisOf(p).cause]}, {}, {})
           /\ Withheld({[Detail(p) EXCEPT !.cause = SimilarPuzzles(p, 2).cause]}, {}, {})
           /\ Withheld(SimilarPuzzles(p, 2).items, {}, {})
           /\ Withheld({MotifHint(p)}, {Motif(p)}, {})
<1> DEFINE i == Detail(p)
<1>1. /\ i.puzzle = p
      /\ Earned(p) \/ Hides(i, {}, {})
  BY ItemHides DEF Detail
<1>2. Earned(p) \/ (DiagnosisOf(p).motif = None /\ DiagnosisOf(p).cause = None)
  <2>1. ~Resolved(p) => DiagnosisOf(p) = [state |-> "withheld", motif |-> None, cause |-> None]
    BY DEF DiagnosisOf
  <2> QED BY <2>1, ResolvedIsEarned
<1> DEFINE key == ClusterKey(diag[p])
           found == IF key = None THEN [ids |-> << >>, legs |-> None]
                    ELSE Similar(p, key, 2, diag)
<1>3. /\ SimilarPuzzles(p, 2).items = Items(Range(found.ids), {})
      /\ SimilarPuzzles(p, 2).cause = (IF key # None /\ Resolved(p) THEN key.cause ELSE None)
  BY DEF SimilarPuzzles
<1>4. Earned(p) \/ SimilarPuzzles(p, 2).cause = None
  BY <1>3, ResolvedIsEarned
<1>5. Range(found.ids) \subseteq Puzzles
  <2>1. CASE key = None
    BY <2>1 DEF Range
  <2>2. CASE key # None
    BY <2>2, SimilarRange
  <2> QED BY <2>1, <2>2
<1>6. Withheld(SimilarPuzzles(p, 2).items, {}, {})
  <2> HIDE DEF found
  <2> QED BY <1>3, <1>5, ItemsHide
<1> DEFINE i2 == [i EXCEPT !.motif = DiagnosisOf(p).motif, !.cause = DiagnosisOf(p).cause]
           i3 == [i EXCEPT !.cause = SimilarPuzzles(p, 2).cause]
<1>7. /\ i2.puzzle = i.puzzle /\ i2.title = i.title /\ i2.name = i.name
      /\ i2.motif = DiagnosisOf(p).motif /\ i2.cause = DiagnosisOf(p).cause
      /\ i3.puzzle = i.puzzle /\ i3.title = i.title /\ i3.name = i.name
      /\ i3.motif = i.motif /\ i3.cause = SimilarPuzzles(p, 2).cause
  BY DEF Detail, Item
<1> HIDE DEF i, i2, i3, found, key
<1>8. Withheld({i}, {}, {})
  BY <1>1 DEF Withheld, Hides
<1>9. /\ Earned(i2.puzzle) \/ Hides(i2, {}, {})
      /\ Earned(i3.puzzle) \/ Hides(i3, {}, {})
  BY <1>1, <1>2, <1>4, <1>7 DEF Hides
<1>10. Withheld({i2}, {}, {}) /\ Withheld({i3}, {}, {})
  BY <1>9 DEF Withheld, Hides
<1>11. Withheld({MotifHint(p)}, {Motif(p)}, {})
  BY DEF MotifHint, Withheld
<1> QED BY <1>6, <1>8, <1>10, <1>11 DEF i, i2, i3

\* A search by title, and the page of a puzzle that was answered.
LEMMA NamesFollow ==
    ASSUME IInv, NEW p \in Puzzles
    PROVE  /\ TitleMatches(p, Facts[p].title) => Earned(p)
           /\ p \in answered =>
               Detail(p).title = Title(p) /\ Detail(p).motif = MotifHint(p).motif
<1>1. p \in answered <=> stats[p] # None /\ stats[p].attempts > 0 /\ stats[p].due > now
  BY DEF IInv, AnsweredIsSealed
<1>2. stats[p] # None /\ stats[p].attempts > 0 => stats[p].due # None
  BY DEF IInv, RowsOK, RowOK, StatsRow
<1>3. TitleMatches(p, Facts[p].title) => Earned(p)
  BY <1>1, <1>2 DEF TitleMatches, Title, Earned
<1>4. Resolved(p) => Detail(p).title = Title(p) /\ Detail(p).motif = MotifHint(p).motif
  BY DEF Detail, Item, MotifIsVisible, MotifHint
<1>5. p \in answered => Resolved(p)
  BY ResolvedIsEarned DEF Earned
<1> QED BY <1>3, <1>4, <1>5

LEMMA WithheldUnion ==
    ASSUME NEW X, NEW Y, NEW Z, NEW motifs, NEW causes,
           Withheld(X, motifs, causes), Withheld(Y, motifs, causes), Withheld(Z, motifs, causes)
    PROVE  Withheld(X \union Y \union Z, motifs, causes)
BY DEF Withheld

LEMMA SessionsHide ==
    ASSUME IInv
    PROVE  Withheld(SessionItems \union MissedNames \union TrickyItems(2), {}, {})
<1>0. Withheld({}, {}, {})
  BY DEF Withheld
<1>1. Withheld(TrickyItems(2), {}, {})
  <2>1. Range(Tricky(2)) \in SUBSET Puzzles
    BY TrickyRange
  <2> QED BY <2>1, UnnamedHides DEF TrickyItems
<1>2. session # None => Range(session.items) \in SUBSET Puzzles /\ session.missed \in SUBSET Puzzles
  <2>1. session # None => session.items \in Seq(Puzzles) /\ session.missed \in SUBSET Puzzles
    BY DEF IInv, SessionFits
  <2>2. ASSUME NEW s \in Seq(Puzzles) PROVE Range(s) \in SUBSET Puzzles
    BY DEF Range
  <2> QED BY <2>1, <2>2
<1>3. Withheld(SessionItems, {}, {})
  BY <1>0, <1>2, UnnamedHides DEF SessionItems
<1>4. Withheld(MissedNames, {}, {})
  BY <1>0, <1>2, UnnamedHides DEF MissedNames
<1> QED BY <1>1, <1>3, <1>4, WithheldUnion

\* No page or list shows, and no title search confirms, the name, motif or cause
\* of a puzzle that has come due since its last review, save what the request
\* named; a puzzle that was answered is shown with them.  The motif hint is the
\* one exit: it tells that motif of the puzzle asked about, and nothing else.
THEOREM GateHolds == Spec => []GateFollowsTheExposure
<1>1. IInv => GateFollowsTheExposure
  <2> SUFFICES ASSUME IInv PROVE GateFollowsTheExposure
    OBVIOUS
  <2>1. \A req \in QueueRequests :
            Withheld(DuePuzzles(req).items, {req.motif}, {DuePuzzles(req).name})
    BY DueHides
  <2>2. \A req \in ListRequests : Withheld(ListItems(req), req.motifs, {})
    BY ListHides
  <2>3. Withheld(Items(Range(DailyPuzzles(SessionSize)), {}), {}, {})
    <3>1. Range(DailyPuzzles(SessionSize)) \in SUBSET Puzzles
      BY DailyRange, PracticeAssumption
    <3> QED BY <3>1, ItemsHide
  <2>4. Withheld(SessionItems \union MissedNames \union TrickyItems(2), {}, {})
    BY SessionsHide
  <2> QED BY <2>1, <2>2, <2>3, <2>4, PagesHide, NamesFollow, Zenon DEF GateFollowsTheExposure
<1> QED BY <1>1, Invariance, PTL

-----------------------------------------------------------------------------
(* The order in which a session serves *)

\* The queue q has members of X, the first few of them due and the others new.
DueThenNew(q, X, rows, at, n) ==
    LET due == Cardinality(Tier(X, 0, rows, at)) IN
    /\ Len(q) = Min({n, Cardinality(X)}) /\ DOMAIN q = 1..Len(q) /\ Len(q) \in Nat
    /\ \A i \in 1..Len(q) : /\ q[i] \in X
                            /\ TierOf(rows[q[i]], at) = IF i <= due THEN 0 ELSE 1
    /\ \A i, j \in 1..Len(q) : i # j => q[i] # q[j]

\* The tiers of a queue are those of any queue of the same puzzles.
LEMMA TiersOfQueue ==
    ASSUME NEW X \in SUBSET Puzzles, NEW rows, NEW at, NEW n \in Nat,
           \A x \in X : TierOf(rows[x], at) # 2, NEW q, QueueOf(q, X, rows, at, n)
    PROVE  DueThenNew(q, X, rows, at, n)
<1> DEFINE C(t) == Cardinality(Tier(X, t, rows, at))
<1>1. q \in Seq(X) /\ Len(q) = Min({n, Cardinality(X)})
  BY DEF QueueOf
<1>2. \A i \in 1..Len(q) : q[i] \in X
  BY <1>1
<1>3. \A i \in 1..Len(q) : TierOf(rows[q[i]], at) =
          IF i <= C(0) THEN 0 ELSE IF i <= C(0) + C(1) THEN 1 ELSE 2
  BY DEF QueueOf
<1>4. \A i, j \in 1..Len(q) : i # j => q[i] # q[j]
  BY DEF QueueOf
<1>5. Len(q) \in Nat /\ DOMAIN q = 1..Len(q)
  BY <1>1
<1> HIDE DEF C
<1>6. \A i \in 1..Len(q) : TierOf(rows[q[i]], at) = IF i <= C(0) THEN 0 ELSE 1
  BY <1>2, <1>3
<1> QED BY <1>1, <1>2, <1>4, <1>5, <1>6 DEF C, DueThenNew

\* Every session serves trainable puzzles alone, as many as it has room for, the
\* due ones before the new; and a focus moves none across those tiers.
THEOREM QueueServesInOrder == Spec => []ServesInOrder
<1>1. ASSUME IInv, NEW req \in QueueRequests
      PROVE  LET queue == Queue(req)
                 plain == Queue([req EXCEPT !.cause = None, !.opening = None])
                 Tiers(s) == [i \in DOMAIN s |-> TierOf(stats[s[i]], now)] IN
             /\ Range(queue) \subseteq Candidates(req)
             /\ \A p \in Range(queue) : ~ScheduledLater(stats[p], now)
             /\ Len(queue) = Min({req.n, Cardinality(Candidates(req))})
             /\ \A i, j \in DOMAIN queue :
                 i < j => queue[i] # queue[j] /\ Tiers(queue)[i] <= Tiers(queue)[j]
             /\ Tiers(queue) = Tiers(plain)
  <2> DEFINE same == [req EXCEPT !.cause = None, !.opening = None]
             X == Candidates(req)
             q == Queue(req)
             r == Queue(same)
             due == Cardinality(Tier(X, 0, stats, now))
             Tiers(s) == [i \in DOMAIN s |-> TierOf(stats[s[i]], now)]
  <2>1. /\ req.n \in Nat /\ req.goal \in Nat \union {None}
        /\ same.n = req.n /\ same.goal = req.goal /\ same.motif = req.motif
    BY RequestsAssumption DEF QueueRequest
  <2>2. Candidates(same) = X
    <3> HIDE DEF same
    <3> QED BY <2>1 DEF Candidates
  <2>3. X \in SUBSET Puzzles /\ QueueOf(q, X, stats, now, req.n)
    BY <1>1, <2>1, QueueServes
  <2>4. QueueOf(r, X, stats, now, req.n)
    <3>1. QueueOf(Queue(same), Candidates(same), stats, now, same.n)
      <4> HIDE DEF same
      <4> QED BY <1>1, <2>1, QueueServes
    <3> QED BY <2>1, <2>2, <3>1
  <2>5. \A p \in X : ~ScheduledLater(stats[p], now)
    BY DEF Candidates, TrainableIds
  <2>6. \A p \in X : TierOf(stats[p], now) # 2
    <3>1. \A p \in X : RowOK(stats[p]) /\ now \in Int
      BY <1>1, <2>3 DEF IInv, RowsOK
    <3> HIDE DEF X
    <3> QED BY <2>5, <3>1 DEF TierOf, ScheduledLater, RowOK, Scheduled, StatsRow
  <2> HIDE DEF same, X, q, r
  <2>7. /\ Len(q) = Min({req.n, Cardinality(X)}) /\ DOMAIN q = 1..Len(q) /\ Len(q) \in Nat
        /\ \A i \in 1..Len(q) : /\ q[i] \in X
                                /\ TierOf(stats[q[i]], now) = IF i <= due THEN 0 ELSE 1
        /\ \A i, j \in 1..Len(q) : i # j => q[i] # q[j]
    <3>1. DueThenNew(q, X, stats, now, req.n)
      BY <2>1, <2>3, <2>6, TiersOfQueue
    <3> QED BY <3>1 DEF DueThenNew
  <2>8. /\ Len(r) = Min({req.n, Cardinality(X)}) /\ DOMAIN r = 1..Len(r)
        /\ \A i \in 1..Len(r) : TierOf(stats[r[i]], now) = IF i <= due THEN 0 ELSE 1
    <3>1. DueThenNew(r, X, stats, now, req.n)
      BY <2>1, <2>3, <2>4, <2>6, TiersOfQueue
    <3> QED BY <3>1 DEF DueThenNew
  <2>9. due \in Nat
    <3>1. IsFiniteSet(Tier(X, 0, stats, now))
      <4>1. Tier(X, 0, stats, now) \in SUBSET Puzzles
        BY <2>3 DEF Tier
      <4> QED BY <4>1, FS_Subset, PracticeQueueAssumption
    <3> QED BY <3>1, FS_CardinalityType
  <2> HIDE DEF due
  <2>10. Range(q) \subseteq X /\ \A p \in Range(q) : ~ScheduledLater(stats[p], now)
    BY <2>5, <2>7 DEF Range
  <2>11. ASSUME NEW i \in DOMAIN q, NEW j \in DOMAIN q, i < j
         PROVE  q[i] # q[j] /\ Tiers(q)[i] <= Tiers(q)[j]
    <3>1. i \in 1..Len(q) /\ j \in 1..Len(q)
      BY <2>7
    <3>2. Tiers(q)[i] = TierOf(stats[q[i]], now) /\ Tiers(q)[j] = TierOf(stats[q[j]], now)
      BY <2>7
    <3>3. /\ TierOf(stats[q[i]], now) = IF i <= due THEN 0 ELSE 1
          /\ TierOf(stats[q[j]], now) = IF j <= due THEN 0 ELSE 1
          /\ q[i] # q[j] /\ i \in Nat /\ j \in Nat
      <4>1. i # j /\ i \in Nat /\ j \in Nat
        BY <2>7, <2>11, <3>1
      <4> QED BY <2>7, <3>1, <4>1
    <3> HIDE DEF Tiers
    <3> QED BY <2>9, <2>11, <3>2, <3>3
  <2>12. Tiers(q) = Tiers(r)
    <3>1. DOMAIN q = DOMAIN r
      BY <2>7, <2>8
    <3>2. \A i \in DOMAIN q : TierOf(stats[q[i]], now) = TierOf(stats[r[i]], now)
      BY <2>7, <2>8
    <3> QED BY <3>1, <3>2
  <2> HIDE DEF Tiers
  <2> QED BY <2>7, <2>10, <2>11, <2>12 DEF q, r, same, X, Tiers
<1>2. IInv => ServesInOrder
  BY <1>1 DEF ServesInOrder
<1> QED BY <1>2, Invariance, PTL

-----------------------------------------------------------------------------
(* The counts of due puzzles *)

LEMMA SplitCount ==
    ASSUME NEW X, NEW Y, NEW Z, IsFiniteSet(X), X = Y \union Z, Y \cap Z = {}
    PROVE  /\ Cardinality(X) = Cardinality(Y) + Cardinality(Z)
           /\ Cardinality(Y) \in Nat /\ Cardinality(Z) \in Nat
<1>1. IsFiniteSet(Y) /\ IsFiniteSet(Z)
  <2>1. Y \in SUBSET X /\ Z \in SUBSET X
    OBVIOUS
  <2> QED BY <2>1, FS_Subset
<1>2. Cardinality(Y) \in Nat /\ Cardinality(Z) \in Nat
  BY <1>1, FS_CardinalityType
<1>3. Cardinality(Y \cap Z) = 0
  BY FS_EmptySet
<1>4. Cardinality(Y \union Z) = Cardinality(Y) + Cardinality(Z) - Cardinality(Y \cap Z)
  BY <1>1, FS_Union
<1> QED BY <1>2, <1>3, <1>4

LEMMA EverythingFits ==
    /\ Anything.n = Cardinality(Puzzles) /\ Anything.n \in Nat
    /\ Anything.motif = None /\ Anything.opening = None /\ Anything.cause = None
    /\ Anything.goal = None
    /\ Everything.q = None /\ Everything.status = None /\ Everything.motifs = {}
    /\ Everything.cause = None /\ Everything.phase = None
    /\ Everything.opening = None /\ Everything.difficulty = None
BY FS_CardinalityType, PracticeQueueAssumption DEF Anything, Everything

LEMMA CountsHold == ASSUME IInv PROVE CountsAgree
<1> DEFINE Free(at) == {p \in Puzzles : ~Scheduled(stats[p]) \/ stats[p].due <= at}
           Soon == {p \in Puzzles : Scheduled(stats[p]) /\ stats[p].due > now
                                                        /\ stats[p].due <= now + FourHours}
           Of(status) == {p \in Puzzles : Status(p) = status}
<1>1. /\ IsFiniteSet(Puzzles) /\ now \in Nat /\ FourHours \in Nat
      /\ \A p \in Puzzles : RowOK(stats[p])
  BY PracticeQueueAssumption, PracticeAssumption DEF IInv, RowsOK
<1>2. \A p \in Puzzles :
          /\ Scheduled(stats[p]) => stats[p].due \in Int
          /\ Scheduled(stats[p]) <=> ~Untried(stats[p])
  BY <1>1 DEF Scheduled, Untried, RowOK, StatsRow
<1>3. /\ Dashboard.dueNow = Cardinality(Free(now))
      /\ Dashboard.dueSoon = Cardinality(Soon)
      /\ Dashboard.nextReview = NextDue(stats, now)
      /\ TrainableCount(stats, now + FourHours) = Cardinality(Free(now + FourHours))
      /\ CorpusCount("new") = Cardinality(Of("new"))
      /\ CorpusCount("due") = Cardinality(Of("due"))
  BY DEF Dashboard, TrainableCount, ScheduledWithin, CorpusCount
<1>4. \A at : IsFiniteSet(Free(at)) /\ Cardinality(Free(at)) \in Nat
  <2>1. \A at : Free(at) \in SUBSET Puzzles
    OBVIOUS
  <2> HIDE DEF Free
  <2> QED BY <1>1, <2>1, FS_Subset, FS_CardinalityType
<1>5. Free(now) = Of("new") \union Of("due") /\ Of("new") \cap Of("due") = {}
  <2>1. \A p \in Puzzles :
            /\ Status(p) = "new" <=> ~Scheduled(stats[p])
            /\ Status(p) = "due" <=> Scheduled(stats[p]) /\ stats[p].due <= now
    BY <1>2 DEF Status, Scheduled, Untried
  <2> QED BY <2>1
<1>6. Free(now + FourHours) = Free(now) \union Soon /\ Free(now) \cap Soon = {}
  BY <1>1, <1>2
<1>7. Candidates(Anything) = Free(now)
  <2>1. Anything.motif = None
    BY EverythingFits
  <2>2. Candidates(Anything) = {p \in Puzzles : ~ScheduledLater(stats[p], now)}
    BY <2>1 DEF Candidates, TrainableIds
  <2>3. \A p \in Puzzles :
            ~ScheduledLater(stats[p], now) <=> ~Scheduled(stats[p]) \/ stats[p].due <= now
    BY <1>1, <1>2 DEF ScheduledLater
  <2> QED BY <2>2, <2>3
<1>8. Soon # {} => NextDue(stats, now) # None /\ NextDue(stats, now) <= now + FourHours
  <2> SUFFICES ASSUME NEW p \in Soon
               PROVE  NextDue(stats, now) # None /\ NextDue(stats, now) <= now + FourHours
    OBVIOUS
  <2> DEFINE Q == {q \in Puzzles : ScheduledLater(stats[q], now)}
             f == [q \in Q |-> stats[q].due]
             later == {stats[q].due : q \in Q}
  <2>1. IsFiniteSet(Q)
    <3>1. Q \in SUBSET Puzzles
      OBVIOUS
    <3> QED BY <1>1, <3>1, FS_Subset
  <2>2. later \in SUBSET Int
    BY <1>2 DEF ScheduledLater
  <2>3. IsFiniteSet(later)
    <3>1. f \in Surjection(Q, later)
      BY DEF Surjection
    <3> HIDE DEF f, Q, later
    <3> QED BY <2>1, <3>1, FS_Surjection
  <2>4. stats[p].due \in later /\ stats[p].due <= now + FourHours
    BY DEF ScheduledLater
  <2>5. NextDue(stats, now) = IF later = {} THEN None ELSE Min(later)
    BY DEF NextDue
  <2> HIDE DEF later
  <2>6. Min(later) \in later /\ \A y \in later : Min(later) <= y
    BY <2>2, <2>3, <2>4, LeastOfFinite
  <2>7. Min(later) \in Int /\ Min(later) <= stats[p].due /\ stats[p].due \in Int
    BY <2>2, <2>4, <2>6
  <2> QED BY <1>1, <2>4, <2>5, <2>7, NoneAssumption
<1> HIDE DEF Free, Soon, Of
<1>9. Cardinality(Free(now)) = Cardinality(Of("new")) + Cardinality(Of("due"))
  <2>1. IsFiniteSet(Free(now))
    BY <1>4
  <2> QED BY <1>5, <2>1, SplitCount
<1>10. /\ Cardinality(Free(now + FourHours)) = Cardinality(Free(now)) + Cardinality(Soon)
       /\ Cardinality(Soon) > 0 => Soon # {}
  BY <1>4, <1>6, SplitCount, FS_EmptySet
<1>11. Len(Queue(Anything)) = Cardinality(Free(now))
  <2>1. Free(now) \in SUBSET Puzzles
    BY DEF Free
  <2>2. Cardinality(Free(now)) <= Cardinality(Puzzles) /\ Cardinality(Puzzles) \in Nat
    BY <1>1, <2>1, FS_Subset, FS_CardinalityType
  <2>3. QueueOf(Queue(Anything), Candidates(Anything), stats, now, Anything.n)
    BY EverythingFits, QueueServes
  <2>4. Len(Queue(Anything)) = Min({Cardinality(Puzzles), Cardinality(Free(now))})
    BY <1>7, <2>3, EverythingFits DEF QueueOf
  <2> QED BY <1>4, <2>2, <2>4, MinOfTwo
<1>12. DuePuzzles(Anything).count = Cardinality(Free(now))
  BY <1>7 DEF DuePuzzles
<1> QED BY <1>3, <1>8, <1>9, <1>10, <1>11, <1>12, Zenon DEF CountsAgree

-----------------------------------------------------------------------------
(* Sums *)

\* The element a fold takes out of a set first.
Pick(s) == CHOOSE x \in s : TRUE

\* A set of subsets of D that has the empty one, and a subset when it has what
\* a fold leaves of it, has all of them.
LEMMA FoldInduction ==
    ASSUME NEW D, IsFiniteSet(D), NEW Good \in SUBSET (SUBSET D),
           {} \in Good,
           \A s \in SUBSET D : s # {} /\ s \ {Pick(s)} \in Good => s \in Good
    PROVE  Good = SUBSET D
<1> DEFINE Upto(n) == \A s \in SUBSET D : Cardinality(s) <= n => s \in Good
           T == {n \in Nat : Upto(n)}
<1>1. \A s \in SUBSET D : IsFiniteSet(s) /\ Cardinality(s) \in Nat
  BY FS_Subset, FS_CardinalityType
<1>2. Upto(0)
  <2>1. \A s \in SUBSET D : Cardinality(s) <= 0 => Cardinality(s) = 0
    BY <1>1
  <2>2. \A s \in SUBSET D : Cardinality(s) = 0 => s = {}
    BY <1>1, FS_EmptySet
  <2> QED BY <2>1, <2>2
<1>3. ASSUME NEW n \in Nat, Upto(n) PROVE Upto(n + 1)
  <2> SUFFICES ASSUME NEW s \in SUBSET D, Cardinality(s) <= n + 1, s # {}
               PROVE  s \in Good
    OBVIOUS
  <2>1. Pick(s) \in s
    BY DEF Pick
  <2>2. Cardinality(s \ {Pick(s)}) = Cardinality(s) - 1
    BY <1>1, <2>1, FS_RemoveElement
  <2>3. s \ {Pick(s)} \in SUBSET D /\ Cardinality(s \ {Pick(s)}) <= n
    BY <1>1, <2>2
  <2> QED BY <1>3, <2>3
<1>4. T = Nat
  <2> HIDE DEF Upto
  <2>1. 0 \in T /\ \A n \in T : n + 1 \in T
    BY <1>2, <1>3
  <2> HIDE DEF T
  <2> QED BY <2>1, NumberInduction DEF T
<1> QED BY <1>1, <1>4

\* g sums f over the subsets of D.
Sums(g, f, D) ==
    g = [s \in SUBSET D |-> IF s = {} THEN 0 ELSE f[Pick(s)] + g[s \ {Pick(s)}]]

LEMMA SumsExist ==
    ASSUME NEW D, IsFiniteSet(D), NEW f
    PROVE  \E g : Sums(g, f, D)
<1> DEFINE Small(n) == {s \in SUBSET D : Cardinality(s) <= n}
           On(g, n) == g = [s \in Small(n) |->
                               IF s = {} THEN 0 ELSE f[Pick(s)] + g[s \ {Pick(s)}]]
           T == {n \in Nat : \E g : On(g, n)}
<1>1. \A s \in SUBSET D : IsFiniteSet(s) /\ Cardinality(s) \in Nat
  BY FS_Subset, FS_CardinalityType
<1>2. 0 \in T
  <2>1. \A s \in Small(0) : s = {}
    BY <1>1, FS_EmptySet
  <2>2. On([s \in Small(0) |-> 0], 0)
    BY <2>1
  <2> QED BY <2>2
<1>3. ASSUME NEW n \in T PROVE n + 1 \in T
  <2>1. PICK g : On(g, n)
    BY <1>3
  <2> DEFINE h == [s \in Small(n + 1) |->
                      IF s = {} THEN 0 ELSE f[Pick(s)] + g[s \ {Pick(s)}]]
  <2>2. ASSUME NEW s \in Small(n + 1), s # {}
        PROVE  s \ {Pick(s)} \in Small(n) /\ s \ {Pick(s)} \in Small(n + 1)
    <3>1. Pick(s) \in s
      BY <2>2 DEF Pick
    <3>2. Cardinality(s \ {Pick(s)}) = Cardinality(s) - 1
      BY <1>1, <3>1, FS_RemoveElement
    <3> QED BY <1>1, <3>2
  <2>3. \A s \in Small(n) : s \in Small(n + 1) /\ h[s] = g[s]
    <3>1. \A s \in Small(n) : s \in Small(n + 1)
      BY <1>1
    <3>2. \A s \in Small(n) :
              g[s] = IF s = {} THEN 0 ELSE f[Pick(s)] + g[s \ {Pick(s)}]
      <4> HIDE DEF Small
      <4> QED BY <2>1
    <3> HIDE DEF Small
    <3> QED BY <3>1, <3>2
  <2>4. On(h, n + 1)
    <3> HIDE DEF Small
    <3>1. \A s \in Small(n + 1) :
              (IF s = {} THEN 0 ELSE f[Pick(s)] + g[s \ {Pick(s)}])
                = (IF s = {} THEN 0 ELSE f[Pick(s)] + h[s \ {Pick(s)}])
      <4> HIDE DEF h
      <4> QED BY <2>2, <2>3
    <3> QED BY <3>1
  <2> HIDE DEF On
  <2> QED BY <2>4
<1>4. Cardinality(D) \in T
  <2>1. Cardinality(D) \in Nat /\ T \in SUBSET Nat
    BY FS_CardinalityType
  <2> HIDE DEF T
  <2> QED BY <1>2, <1>3, <2>1, NumberInduction
<1>5. PICK g : On(g, Cardinality(D))
  BY <1>4
<1>6. Small(Cardinality(D)) = SUBSET D
  BY <1>1, FS_Subset
<1>7. Sums(g, f, D)
  <2> HIDE DEF Small
  <2> QED BY <1>5, <1>6 DEF Sums
<1> QED BY <1>7

\* What Total computes, over the arguments of f, is a number.
LEMMA TotalType ==
    ASSUME NEW D, IsFiniteSet(D), NEW f \in [D -> Nat]
    PROVE  Total(f) \in Nat
<1> DEFINE g == CHOOSE g : Sums(g, f, D)
           Good == {s \in SUBSET D : g[s] \in Nat}
<1>1. DOMAIN f = D
  OBVIOUS
<1>2. Total(f) = g[D]
  BY <1>1 DEF Total, FoldFunction, FoldFunctionOnSet, MapThenFoldSet, Sums, Pick
<1>3. Sums(g, f, D)
  <2> HIDE DEF Sums
  <2> QED BY SumsExist
<1> HIDE DEF g
<1>4. \A s \in SUBSET D : g[s] = IF s = {} THEN 0 ELSE f[Pick(s)] + g[s \ {Pick(s)}]
  BY <1>3 DEF Sums
<1>5. \A s \in SUBSET D : s # {} => Pick(s) \in s
  BY DEF Pick
<1>6. {} \in Good
  <2>1. {} \in SUBSET D
    OBVIOUS
  <2>2. g[{}] = 0
    BY <1>4, <2>1
  <2> QED BY <2>1, <2>2
<1>7. ASSUME NEW s \in SUBSET D, s # {}, s \ {Pick(s)} \in Good PROVE s \in Good
  <2>1. g[s] = f[Pick(s)] + g[s \ {Pick(s)}] /\ f[Pick(s)] \in Nat
    BY <1>4, <1>5, <1>7
  <2> QED BY <1>7, <2>1
<1>8. Good = SUBSET D
  <2>1. Good \in SUBSET (SUBSET D)
    OBVIOUS
  <2> HIDE DEF Good
  <2> QED BY <1>6, <1>7, <2>1, FoldInduction
<1> QED BY <1>2, <1>8

-----------------------------------------------------------------------------
(* Causes, patterns and the focus *)

\* The place of a cause tells it.
LEMMA PlaceTells ==
    /\ \A c \in KnownCauses : Place(c) \in 1..13 /\ Alphabet[Place(c)] = c
    /\ \A c, d \in KnownCauses : Place(c) = Place(d) => c = d
<1>1. DOMAIN Alphabet = 1..13
  BY DEF Alphabet
<1>2. ASSUME NEW c \in KnownCauses
      PROVE  Place(c) \in 1..13 /\ Alphabet[Place(c)] = c
  <2>1. \E i \in DOMAIN Alphabet : Alphabet[i] = c
    BY DEF KnownCauses, Range
  <2> QED BY <1>1, <2>1 DEF Place
<1> QED BY <1>2

\* The puzzles of a cause, and its numbers.
LEMMA StatTypes ==
    ASSUME IInv, NEW c
    PROVE  LET s == StatOf(c, diag, tally, now)
               ids == IdsForCause(diag, c) IN
           /\ ids \in SUBSET Puzzles /\ IsFiniteSet(ids)
           /\ s.cause = c /\ s.mistakes = Cardinality(ids) /\ s.mistakes \in Nat
           /\ s.attempts \in Nat /\ s.passes \in Nat /\ s.recent \in Nat
<1> DEFINE s == StatOf(c, diag, tally, now)
           ids == IdsForCause(diag, c)
           attempts == [p \in ids |-> tally[p].attempts]
           passes == [p \in ids |-> tally[p].passes]
           recents == {p \in ids : Recent(p, now)}
<1>1. ids \in SUBSET Puzzles
  BY DEF IdsForCause
<1>2. IsFiniteSet(ids)
  BY <1>1, FS_Subset, PracticeQueueAssumption
<1>3. /\ s.cause = c /\ s.mistakes = Cardinality(ids)
      /\ s.attempts = Total(attempts) /\ s.passes = Total(passes)
      /\ s.recent = Cardinality(recents)
  BY DEF StatOf
<1> HIDE DEF s, ids
<1>4. attempts \in [ids -> Nat] /\ passes \in [ids -> Nat]
  BY <1>1 DEF IInv
<1> HIDE DEF attempts, passes
<1>5. Total(attempts) \in Nat /\ Total(passes) \in Nat
  BY <1>2, <1>4, TotalType
<1>6. Cardinality(ids) \in Nat /\ Cardinality(recents) \in Nat
  <2>1. recents \in SUBSET ids
    OBVIOUS
  <2> HIDE DEF recents
  <2> QED BY <1>2, <2>1, FS_Subset, FS_CardinalityType
<1> QED BY <1>1, <1>2, <1>3, <1>5, <1>6 DEF s, ids

LEMMA ScoreOfStat ==
    ASSUME NEW s, s.mistakes \in Nat, s.recent \in Nat, s.attempts \in Nat, s.passes \in Nat
    PROVE  PriorityScore(s) \in Int
<1> DEFINE seen == s.mistakes + s.recent
           num == 1000 * seen * (2 * s.attempts - s.passes)
<1>1. seen \in Nat /\ num \in Int
  OBVIOUS
<1>2. CASE ~s.measured \/ s.attempts = 0
  <2>1. PriorityScore(s) = seen * 1500
    BY <1>2 DEF PriorityScore
  <2> QED BY <1>1, <2>1
<1>3. CASE s.measured /\ s.attempts # 0
  <2>1. PriorityScore(s) = Round(num, s.attempts)
    BY <1>3 DEF PriorityScore
  <2>2. num \div s.attempts \in Int
    <3> HIDE DEF num
    <3> QED BY <1>1, <1>3
  <2> HIDE DEF num
  <2>3. Round(num, s.attempts) \in Int
    BY <2>2 DEF Round
  <2> QED BY <2>1, <2>3
<1> QED BY <1>2, <1>3

\* The causes that are counted, and the statistics of each.
Stats == {StatOf(c, diag, tally, now) : c \in CausesSeen(diag)}

LEMMA StatsFit ==
    ASSUME IInv
    PROVE  /\ IsFiniteSet(Stats)
           /\ \A s \in Stats :
                 /\ s = StatOf(s.cause, diag, tally, now) /\ s.cause \in KnownCauses
                 /\ s.mistakes = Cardinality(IdsForCause(diag, s.cause))
                 /\ s.mistakes \in Nat /\ s.attempts \in Nat /\ s.passes \in Nat
                 /\ s.recent \in Nat
           /\ \A s, t \in Stats : s.cause = t.cause => s = t
<1>1. CausesSeen(diag) \subseteq KnownCauses
  <2>1. ASSUME NEW c \in CausesSeen(diag) PROVE c \in KnownCauses
    <3>1. PICK p \in Puzzles : Analysed(diag[p]) /\ c = CauseIn(diag[p]) /\ c # None
      BY DEF CausesSeen
    <3>2. diag[p] \in DiagnosisRow
      BY <3>1 DEF IInv, Analysed
    <3>3. /\ diag[p].primary \in KnownCauses \union {None}
          /\ diag[p].confirmed \in KnownCauses \union {None}
      BY <3>2 DEF DiagnosisRow
    <3> QED BY <3>1, <3>3 DEF CauseIn
  <2> QED BY <2>1
<1>2. \A c : /\ StatOf(c, diag, tally, now).cause = c
             /\ StatOf(c, diag, tally, now).mistakes = Cardinality(IdsForCause(diag, c))
             /\ StatOf(c, diag, tally, now).mistakes \in Nat
             /\ StatOf(c, diag, tally, now).attempts \in Nat
             /\ StatOf(c, diag, tally, now).passes \in Nat
             /\ StatOf(c, diag, tally, now).recent \in Nat
  BY StatTypes
<1>3. ASSUME NEW s \in Stats
      PROVE  /\ s = StatOf(s.cause, diag, tally, now) /\ s.cause \in KnownCauses
             /\ s.mistakes = Cardinality(IdsForCause(diag, s.cause))
             /\ s.mistakes \in Nat /\ s.attempts \in Nat /\ s.passes \in Nat
             /\ s.recent \in Nat
  <2>1. PICK c \in CausesSeen(diag) : s = StatOf(c, diag, tally, now)
    BY DEF Stats
  <2> QED BY <1>1, <1>2, <2>1
<1>4. IsFiniteSet(Stats)
  <2> DEFINE f == [c \in CausesSeen(diag) |-> StatOf(c, diag, tally, now)]
  <2>1. f \in Surjection(CausesSeen(diag), Stats)
    BY DEF Surjection, Stats
  <2>2. IsFiniteSet(CausesSeen(diag))
    <3>1. IsFiniteSet(KnownCauses)
      <4> DEFINE places == [c \in KnownCauses |-> Place(c)]
      <4>1. places \in Injection(KnownCauses, 1..13)
        BY PlaceTells DEF Injection, IsInjective
      <4>2. IsFiniteSet(1..13)
        <5>1. 1 \in Int /\ 13 \in Int
          OBVIOUS
        <5> QED BY <5>1, FS_Interval
      <4> HIDE DEF places
      <4> QED BY <4>1, <4>2, FS_Injection
    <3>2. CausesSeen(diag) \in SUBSET KnownCauses
      BY <1>1
    <3> QED BY <3>1, <3>2, FS_Subset
  <2> HIDE DEF f
  <2> QED BY <2>1, <2>2, FS_Surjection
<1>5. \A s, t \in Stats : s.cause = t.cause => s = t
  <2> SUFFICES ASSUME NEW s \in Stats, NEW t \in Stats, s.cause = t.cause PROVE s = t
    OBVIOUS
  <2> QED BY <1>3
<1> QED BY <1>3, <1>4, <1>5

\* The counts per cause, most frequent first, and the patterns by priority.
LEMMA BreakdownLists == ASSUME IInv PROVE Lists(Breakdown(diag, tally, now), Stats)
<1> DEFINE f == [s \in Stats |-> <<-s.mistakes, Place(s.cause)>>]
           sorted == InOrder({<<<<-s.mistakes, Place(s.cause)>>, s>> : s \in Stats})
<1>1. ASSUME NEW s \in Stats
      PROVE  /\ <<-s.mistakes, Place(s.cause)>> \in [1..2 -> Int]
             /\ <<-s.mistakes, Place(s.cause)>>[2] = Place(s.cause)
  <2>1. -s.mistakes \in Int /\ Place(s.cause) \in Int
    BY StatsFit, PlaceTells
  <2> QED BY <2>1, KeyTypes
<1>2. f \in [Stats -> [1..2 -> Int]] /\ \A s, t \in Stats : f[s] = f[t] => s = t
  <2>1. f \in [Stats -> [1..2 -> Int]]
    BY <1>1
  <2>2. ASSUME NEW s \in Stats, NEW t \in Stats, f[s] = f[t] PROVE s = t
    <3>1. f[s][2] = Place(s.cause) /\ f[t][2] = Place(t.cause)
      BY <1>1
    <3>2. Place(s.cause) = Place(t.cause)
      BY <2>2, <3>1
    <3> QED BY <3>2, StatsFit, PlaceTells
  <2> QED BY <2>1, <2>2
<1>3. {<<<<-s.mistakes, Place(s.cause)>>, s>> : s \in Stats} = {<<f[s], s>> : s \in Stats}
  OBVIOUS
<1>4. Lists(sorted, Stats)
  <2>1. Sorted(sorted, Stats, f)
    <3> HIDE DEF f
    <3> QED BY <1>2, <1>3, StatsFit, SortedIsSorted
  <2> HIDE DEF f, sorted
  <2> QED BY <2>1, StatsFit, SortedLists
<1>5. Breakdown(diag, tally, now) = sorted
  BY DEF Breakdown, SortedBy, Stats
<1> HIDE DEF sorted
<1> QED BY <1>4, <1>5

LEMMA PriorityLists == ASSUME IInv, NEW X \in SUBSET Stats PROVE Lists(ByPriority(X), X)
<1> DEFINE f == [s \in X |-> <<-PriorityScore(s), Place(s.cause)>>]
           sorted == InOrder({<<<<-PriorityScore(s), Place(s.cause)>>, s>> : s \in X})
<1>0. IsFiniteSet(X) /\ \A s \in X : s \in Stats
  BY StatsFit, FS_Subset
<1>1. ASSUME NEW s \in X
      PROVE  /\ <<-PriorityScore(s), Place(s.cause)>> \in [1..2 -> Int]
             /\ <<-PriorityScore(s), Place(s.cause)>>[2] = Place(s.cause)
  <2>1. PriorityScore(s) \in Int
    BY <1>0, StatsFit, ScoreOfStat
  <2>2. -PriorityScore(s) \in Int /\ Place(s.cause) \in Int
    BY <1>0, <2>1, StatsFit, PlaceTells
  <2> QED BY <2>2, KeyTypes
<1>2. f \in [X -> [1..2 -> Int]] /\ \A s, t \in X : f[s] = f[t] => s = t
  <2>1. f \in [X -> [1..2 -> Int]]
    BY <1>1
  <2>2. ASSUME NEW s \in X, NEW t \in X, f[s] = f[t] PROVE s = t
    <3>1. f[s][2] = Place(s.cause) /\ f[t][2] = Place(t.cause)
      BY <1>1
    <3>2. Place(s.cause) = Place(t.cause)
      BY <2>2, <3>1
    <3> QED BY <1>0, <3>2, StatsFit, PlaceTells
  <2> QED BY <2>1, <2>2
<1>3. {<<<<-PriorityScore(s), Place(s.cause)>>, s>> : s \in X} = {<<f[s], s>> : s \in X}
  OBVIOUS
<1>4. Lists(sorted, X)
  <2>1. Sorted(sorted, X, f)
    <3> HIDE DEF f
    <3> QED BY <1>0, <1>2, <1>3, SortedIsSorted
  <2> HIDE DEF f, sorted
  <2> QED BY <1>0, <2>1, SortedLists
<1>5. ByPriority(X) = sorted
  BY DEF ByPriority, SortedBy
<1> HIDE DEF sorted
<1> QED BY <1>4, <1>5

\* The Library's filter by cause, and by opening.
LEMMA FiltersList ==
    /\ \A c : c # None => ListIds([Everything EXCEPT !.cause = c]) = IdsForCause(diag, c)
    /\ \A o, family : o # None =>
          ListIds([Everything EXCEPT !.opening = o, !.family = family])
            = IdsForOpening(diag, o, family)
<1>1. ASSUME NEW c, c # None
      PROVE  ListIds([Everything EXCEPT !.cause = c]) = IdsForCause(diag, c)
  <2> DEFINE req == [Everything EXCEPT !.cause = c]
  <2>1. /\ req.q = None /\ req.status = None /\ req.motifs = {} /\ req.cause = c
        /\ req.phase = None /\ req.opening = None /\ req.difficulty = None
    BY DEF Everything
  <2> HIDE DEF req
  <2>2. \A p \in Puzzles : PlaceMatches(p, req) /\ Searched(p, req.q)
    BY <2>1 DEF PlaceMatches, Searched
  <2>3. \A p \in Puzzles : CauseMatches(p, c) <=> Analysed(diag[p]) /\ CauseIn(diag[p]) = c
    BY <1>1 DEF CauseMatches
  <2>4. ListIds(req) = {p \in Puzzles : Analysed(diag[p]) /\ CauseIn(diag[p]) = c}
    BY <2>1, <2>2, <2>3 DEF ListIds
  <2> QED BY <2>4 DEF IdsForCause, req
<1>2. ASSUME NEW o, NEW family, o # None
      PROVE  ListIds([Everything EXCEPT !.opening = o, !.family = family])
               = IdsForOpening(diag, o, family)
  <2> DEFINE req == [Everything EXCEPT !.opening = o, !.family = family]
             At(p) == /\ Analysed(diag[p])
                      /\ IF family THEN diag[p].family = o.family ELSE diag[p].line = o.line
  <2>1. /\ req.q = None /\ req.status = None /\ req.motifs = {} /\ req.cause = None
        /\ req.phase = None /\ req.opening = o /\ req.difficulty = None /\ req.family = family
    BY DEF Everything
  <2> HIDE DEF req
  <2>2. \A p \in Puzzles : CauseMatches(p, None) /\ Searched(p, req.q)
    BY <2>1 DEF CauseMatches, Searched
  <2>3. \A p \in Puzzles : PlaceMatches(p, req) <=> At(p)
    BY <1>2, <2>1, Zenon DEF PlaceMatches
  <2> HIDE DEF At
  <2>4. ListIds(req) = {p \in Puzzles : At(p)}
    BY <2>1, <2>2, <2>3 DEF ListIds
  <2> QED BY <2>4 DEF IdsForOpening, At, req
<1> QED BY <1>1, <1>2

LEMMA NameType ==
    ASSUME NEW c, NEW phase
    PROVE  Identify(c, phase) \in PatternNames \union {None}
<1>1. c \in DOMAIN GeneralName => GeneralName[c] \in Range(GeneralName)
  BY DEF Range
<1> QED BY <1>1, Zenon DEF Identify, PatternNames

\* What plan_focus chooses from, best first: the named causes that are counted
\* often enough.
Named == {s \in Range(Breakdown(diag, tally, now)) : ~s.insufficient /\ NameOf(s) # None}
Ranked == ByPriority(Named)

LEMMA RankedFits ==
    ASSUME IInv
    PROVE  /\ Range(Breakdown(diag, tally, now)) = Stats
           /\ Ranked \in Seq(Stats) /\ Len(Ranked) \in Nat /\ DOMAIN Ranked = 1..Len(Ranked)
           /\ \A i \in 1..Len(Ranked) : /\ Ranked[i] \in Stats
                                        /\ NameOf(Ranked[i]) \in PatternNames
<1> DEFINE B == Breakdown(diag, tally, now)
<1>1. Lists(B, Stats)
  BY BreakdownLists
<1> HIDE DEF B
<1>2. Range(B) = Stats
  BY <1>1 DEF Lists, Range
<1>3. Named \in SUBSET Stats
  BY <1>2 DEF Named, B
<1>4. Ranked \in Seq(Named)
  BY <1>3, PriorityLists DEF Ranked, Lists
<1>5. Len(Ranked) \in Nat /\ DOMAIN Ranked = 1..Len(Ranked) /\ Ranked \in Seq(Stats)
  BY <1>3, <1>4
<1>6. \A i \in 1..Len(Ranked) : Ranked[i] \in Named
  BY <1>4
<1>7. \A s \in Named : NameOf(s) \in PatternNames
  BY NameType DEF Named, NameOf
<1> QED BY <1>2, <1>3, <1>5, <1>6, <1>7 DEF B

\* The plan is the first pattern, or nothing when there is none.
LEMMA PlanFits ==
    ASSUME IInv
    PROVE  LET plan == PlanFocus(Breakdown(diag, tally, now)) IN
           /\ Ranked = << >> => plan = None
           /\ Ranked # << >> => /\ plan # None
                                /\ plan.cause = Ranked[1].cause
                                /\ plan.name = NameOf(Ranked[1])
                                /\ 1 \in DOMAIN Ranked
<1> DEFINE plan == PlanFocus(Breakdown(diag, tally, now))
           runnerUp == IF Len(Ranked) > 1 THEN NameOf(Ranked[2]) ELSE None
<1>1. plan = IF Ranked = << >> THEN None
             ELSE [cause |-> Ranked[1].cause, name |-> NameOf(Ranked[1]), runnerUp |-> runnerUp]
  BY DEF PlanFocus, Ranked, Named
<1>2. ASSUME Ranked # << >>
      PROVE  /\ 1 \in DOMAIN Ranked /\ Ranked[1].cause \in KnownCauses
             /\ NameOf(Ranked[1]) \in PatternNames /\ runnerUp \in PatternNames \union {None}
  <2>1. 1 \in 1..Len(Ranked)
    BY <1>2, RankedFits
  <2>2. Len(Ranked) > 1 => 2 \in 1..Len(Ranked)
    BY RankedFits
  <2>3. Ranked[1] \in Stats /\ NameOf(Ranked[1]) \in PatternNames /\ 1 \in DOMAIN Ranked
    BY <2>1, RankedFits
  <2>4. Len(Ranked) > 1 => NameOf(Ranked[2]) \in PatternNames
    BY <2>2, RankedFits
  <2> QED BY <2>3, <2>4, StatsFit
<1> HIDE DEF plan, runnerUp
<1>3. ASSUME Ranked # << >> PROVE plan \in FocusPlan /\ plan.cause = Ranked[1].cause
                                  /\ plan.name = NameOf(Ranked[1])
  BY <1>1, <1>2, <1>3 DEF FocusPlan
<1>4. None \notin FocusPlan
  BY FactsAssumption
<1> QED BY <1>1, <1>2, <1>3, <1>4 DEF plan

LEMMA CausesCount ==
    ASSUME IInv
    PROVE  LET causes == MistakeCauses(diag, tally, now).causes IN
           \A i \in DOMAIN causes :
              causes[i].mistakes =
                  Cardinality(ListIds([Everything EXCEPT !.cause = causes[i].cause]))
<1> DEFINE causes == MistakeCauses(diag, tally, now).causes
           B == Breakdown(diag, tally, now)
<1>1. causes = [i \in DOMAIN B |-> [cause |-> B[i].cause, mistakes |-> B[i].mistakes]]
  BY DEF MistakeCauses
<1> HIDE DEF causes, B
<1>2. \A i \in DOMAIN B : B[i] \in Stats
  <2>1. B \in Seq(Stats)
    BY BreakdownLists DEF Lists, B
  <2> QED BY <2>1
<1>3. ASSUME NEW i \in DOMAIN causes
      PROVE  causes[i].mistakes =
                 Cardinality(ListIds([Everything EXCEPT !.cause = causes[i].cause]))
  <2>1. i \in DOMAIN B /\ causes[i].cause = B[i].cause /\ causes[i].mistakes = B[i].mistakes
    BY <1>1
  <2>2. B[i].mistakes = Cardinality(IdsForCause(diag, B[i].cause)) /\ B[i].cause \in KnownCauses
    BY <1>2, <2>1, StatsFit
  <2>3. B[i].cause # None
    BY <2>2, FactsAssumption
  <2> QED BY <2>1, <2>2, <2>3, FiltersList
<1> QED BY <1>3 DEF causes

LEMMA FocusCounts ==
    ASSUME IInv, NEW cause
    PROVE  LET ids == IdsForCause(diag, cause) IN
           /\ Cardinality(ids) \in Nat
           /\ Cardinality(TrainableIds(ids, stats, now)) \in Nat
           /\ Cardinality(TrainableIds(ids, stats, now)) <= Dashboard.dueNow
           /\ Cardinality(ids) >= 2 <=> Len(FocusSnapshot(cause, 2)) >= 2
<1> DEFINE ids == IdsForCause(diag, cause)
           ready == TrainableIds(ids, stats, now)
           free == {p \in Puzzles : ~Scheduled(stats[p]) \/ stats[p].due <= now}
<1>1. ids \in SUBSET Puzzles
  BY DEF IdsForCause
<1>2. Dashboard.dueNow = Cardinality(free)
  BY DEF Dashboard, TrainableCount
<1>3. FocusSnapshot(cause, 2) = PracticeQueueOf(ids, stats, now, 2)
  BY DEF FocusSnapshot
<1>4. ready \in SUBSET ids
  BY DEF TrainableIds
<1> HIDE DEF ids
<1>5. IsFiniteSet(ids) /\ Cardinality(ids) \in Nat
  BY <1>1, FS_Subset, FS_CardinalityType, PracticeQueueAssumption
<1>6. Len(FocusSnapshot(cause, 2)) = Min({2, Cardinality(ids)})
  <2>1. RowsOK(stats) /\ now \in Int /\ 2 \in Nat
    BY DEF IInv
  <2>2. QueueOf(PracticeQueueOf(ids, stats, now, 2), ids, stats, now, 2)
    BY <1>1, <2>1, PracticeQueues
  <2> QED BY <1>3, <2>2 DEF QueueOf
<1>7. Cardinality(ids) >= 2 <=> Len(FocusSnapshot(cause, 2)) >= 2
  BY <1>5, <1>6, MinOfTwo
<1>8. ready \in SUBSET free
  <2>1. ASSUME NEW p \in ready PROVE p \in free
    <3>1. p \in Puzzles /\ ~ScheduledLater(stats[p], now)
      BY <1>1 DEF TrainableIds
    <3>2. RowOK(stats[p]) /\ now \in Int
      BY <3>1 DEF IInv, RowsOK
    <3> QED BY <3>1, <3>2 DEF ScheduledLater, Scheduled, RowOK, StatsRow
  <2> QED BY <2>1
<1>9. IsFiniteSet(free)
  <2>1. free \in SUBSET Puzzles
    OBVIOUS
  <2> QED BY <2>1, FS_Subset, PracticeQueueAssumption
<1> HIDE DEF ready, free
<1>10. Cardinality(ready) <= Cardinality(free)
  BY <1>8, <1>9, FS_Subset
<1>11. Cardinality(ready) \in Nat
  BY <1>4, <1>5, FS_Subset, FS_CardinalityType
<1> QED BY <1>2, <1>5, <1>7, <1>10, <1>11 DEF ids, ready

LEMMA OpeningsCount ==
    ASSUME IInv, NEW opening, opening # None
    PROVE  LET offer == OpeningPractice(diag, opening)
               Listed(family) == Cardinality(ListIds(
                   [Everything EXCEPT !.opening = opening, !.family = family])) IN
           /\ offer.lines = Listed(FALSE) /\ offer.families = Listed(TRUE)
           /\ offer.scope # "none" => Listed(offer.scope = "family") > 0
<1> DEFINE offer == OpeningPractice(diag, opening)
           Count(family) == Cardinality(IdsForOpening(diag, opening, family))
           Listed(family) == Cardinality(ListIds(
               [Everything EXCEPT !.opening = opening, !.family = family]))
<1>1. \A family : Listed(family) = Count(family)
  BY FiltersList
<1>2. /\ offer.lines = Count(FALSE) /\ offer.families = Count(TRUE)
      /\ offer.scope = IF Count(FALSE) >= MinForLine THEN "line"
                       ELSE IF Count(TRUE) > 0 THEN "family" ELSE "none"
  BY DEF OpeningPractice
<1>3. \A family : Count(family) \in Nat
  <2> SUFFICES ASSUME NEW family PROVE Count(family) \in Nat
    OBVIOUS
  <2>1. IdsForOpening(diag, opening, family) \in SUBSET Puzzles
    BY DEF IdsForOpening
  <2> QED BY <2>1, FS_Subset, FS_CardinalityType, PracticeQueueAssumption
<1>4. MinForLine \in Nat \ {0}
  BY InsightsAssumption
<1> HIDE DEF offer, Count, Listed
<1>5. offer.scope # "none" => Listed(offer.scope = "family") > 0
  <2>1. CASE Count(FALSE) >= MinForLine
    <3>1. (offer.scope = "family") = FALSE
      BY <1>2, <2>1
    <3>2. Count(FALSE) > 0
      <4>1. Count(FALSE) \in Nat
        BY <1>3, Zenon
      <4>2. \A n \in Nat : n >= MinForLine => n > 0
        BY <1>4
      <4> QED BY <2>1, <4>1, <4>2, Zenon
    <3> QED BY <1>1, <3>1, <3>2
  <2>2. CASE ~(Count(FALSE) >= MinForLine) /\ Count(TRUE) > 0
    <3>1. (offer.scope = "family") = TRUE
      BY <1>2, <2>2
    <3> QED BY <1>1, <2>2, <3>1
  <2>3. CASE ~(Count(FALSE) >= MinForLine) /\ ~(Count(TRUE) > 0)
    BY <1>2, <2>3
  <2> QED BY <2>1, <2>2, <2>3
<1> QED BY <1>1, <1>2, <1>5 DEF offer, Listed

LEMMA CausesHold == ASSUME IInv PROVE CausesAgree
<1> DEFINE B == Breakdown(diag, tally, now)
           plan == PlanFocus(B)
           patterns == MistakePatterns(diag, tally, now).patterns
           focus == TodaysFocus(diag, tally, stats, now)
           ids == IdsForCause(diag, plan.cause)
           ready == TrainableIds(ids, stats, now)
           shown == [cause |-> plan.cause, name |-> plan.name,
                     trainable |-> Cardinality(ready), candidates |-> Cardinality(ids),
                     available |-> Cardinality(ids) >= 2]
           Asked(c) == [Anything EXCEPT !.cause = c]
<1>1. patterns = [i \in DOMAIN Ranked |->
                     [cause |-> Ranked[i].cause, name |-> NameOf(Ranked[i]),
                      mistakes |-> Ranked[i].mistakes]]
  BY DEF MistakePatterns, Ranked, Named
<1>2. focus = IF plan = None THEN None ELSE shown
  BY DEF TodaysFocus
<1>3. /\ Ranked = << >> => plan = None
      /\ Ranked # << >> => /\ plan # None
                           /\ plan.cause = Ranked[1].cause
                           /\ plan.name = NameOf(Ranked[1])
                           /\ 1 \in DOMAIN Ranked
  BY PlanFits
<1>4. /\ Cardinality(ids) \in Nat /\ Cardinality(ready) \in Nat
      /\ Cardinality(ready) <= Dashboard.dueNow
      /\ Cardinality(ids) >= 2 <=> Len(FocusSnapshot(plan.cause, 2)) >= 2
  BY FocusCounts
<1>5. ASSUME Ranked # << >>
      PROVE  /\ Ranked[1] \in Stats /\ Ranked[1].cause \in KnownCauses
             /\ NameOf(Ranked[1]) \in PatternNames
  <2>1. 1 \in 1..Len(Ranked)
    BY <1>3, <1>5, RankedFits
  <2> QED BY <2>1, RankedFits, StatsFit
<1>6. ASSUME Ranked # << >> PROVE FocusName(Asked(Ranked[1].cause)) = NameOf(Ranked[1])
  <2> DEFINE c == Ranked[1].cause
             stat == {s \in Range(B) : s.cause = c}
  <2>1. Asked(c).cause = c
    BY DEF Anything
  <2>2. c # None
    BY <1>5, <1>6, FactsAssumption
  <2>3. stat = {Ranked[1]}
    <3>1. Range(B) = Stats
      BY RankedFits
    <3> HIDE DEF B
    <3> QED BY <1>5, <1>6, <3>1, StatsFit
  <2>4. FocusName(Asked(c)) =
            Identify(c, IF stat = {} THEN None ELSE (CHOOSE s \in stat : TRUE).phase)
    <3> DEFINE req == Asked(c)
    <3>1. req.cause = c
      BY <2>1
    <3>2. FocusName(req) =
              Identify(req.cause,
                       IF {s \in Range(B) : s.cause = req.cause} = {} THEN None
                       ELSE (CHOOSE s \in {s \in Range(B) : s.cause = req.cause} : TRUE).phase)
      <4>1. req.cause # None
        BY <2>2, <3>1
      <4> HIDE DEF req
      <4> QED BY <4>1 DEF FocusName
    <3> HIDE DEF req, B
    <3> QED BY <3>1, <3>2 DEF req
  <2>5. (IF stat = {} THEN None ELSE (CHOOSE s \in stat : TRUE).phase) = Ranked[1].phase
    <3> HIDE DEF stat
    <3> QED BY <2>3
  <2> QED BY <2>4, <2>5 DEF NameOf
<1> HIDE DEF B, plan, patterns, focus, ids, ready, Asked
<1>7. ASSUME Ranked # << >>
      PROVE  /\ focus = shown /\ focus # None /\ patterns # << >>
             /\ patterns[1].cause = Ranked[1].cause /\ patterns[1].name = NameOf(Ranked[1])
  <2>1. focus = shown
    BY <1>2, <1>3, <1>7
  <2>2. shown \in Focus
    <3>1. plan.cause \in KnownCauses /\ plan.name \in PatternNames
      BY <1>3, <1>5, <1>7
    <3> QED BY <1>4, <3>1 DEF Focus
  <2>3. patterns # << >> /\ patterns[1].cause = Ranked[1].cause
                         /\ patterns[1].name = NameOf(Ranked[1])
    <3>1. 1 \in DOMAIN Ranked
      BY <1>3, <1>7
    <3> QED BY <1>1, <3>1
  <2> QED BY <2>1, <2>2, <2>3, FactsAssumption
<1>8. focus = None <=> patterns = << >>
  <2>1. CASE Ranked = << >>
    BY <1>1, <1>2, <1>3, <2>1
  <2>2. CASE Ranked # << >>
    BY <1>7, <2>2
  <2> QED BY <2>1, <2>2
<1>9. ASSUME focus # None
      PROVE  /\ patterns[1].cause = focus.cause /\ patterns[1].name = focus.name
             /\ FocusName(Asked(focus.cause)) = focus.name
             /\ focus.available <=> Len(FocusSnapshot(focus.cause, 2)) >= 2
             /\ focus.trainable <= Dashboard.dueNow
  <2>1. Ranked # << >>
    BY <1>2, <1>3, <1>9
  <2>2. /\ focus.cause = plan.cause /\ focus.name = plan.name
        /\ focus.trainable = Cardinality(ready)
        /\ focus.available = (Cardinality(ids) >= 2)
    BY <1>7, <2>1
  <2> QED BY <1>3, <1>4, <1>6, <1>7, <2>1, <2>2
<1>10. \A opening \in {req.opening : req \in QueueRequests} \ {None} :
        LET offer == OpeningPractice(diag, opening)
            Listed(family) == Cardinality(ListIds(
                [Everything EXCEPT !.opening = opening, !.family = family])) IN
        /\ offer.lines = Listed(FALSE) /\ offer.families = Listed(TRUE)
        /\ offer.scope # "none" => Listed(offer.scope = "family") > 0
  <2> SUFFICES ASSUME NEW opening \in {req.opening : req \in QueueRequests} \ {None}
               PROVE  LET offer == OpeningPractice(diag, opening)
                          Listed(family) == Cardinality(ListIds(
                              [Everything EXCEPT !.opening = opening, !.family = family])) IN
                      /\ offer.lines = Listed(FALSE) /\ offer.families = Listed(TRUE)
                      /\ offer.scope # "none" => Listed(offer.scope = "family") > 0
    OBVIOUS
  <2>1. opening # None
    OBVIOUS
  <2> QED BY <2>1, OpeningsCount
<1> QED BY <1>8, <1>9, <1>10, CausesCount, Zenon DEF CausesAgree, patterns, focus, Asked

-----------------------------------------------------------------------------
(* Days of training *)

LEMMA DivBounds ==
    ASSUME NEW a \in Int, NEW d \in Nat \ {0}
    PROVE  /\ a \div d \in Int
           /\ (a \div d) * d <= a /\ a < (a \div d) * d + d
OBVIOUS

LEMMA DivMonotone ==
    ASSUME NEW a \in Int, NEW b \in Int, a <= b, NEW d \in Nat \ {0}
    PROVE  a \div d <= b \div d
<1> DEFINE q == a \div d
           r == b \div d
<1>1. q \in Int /\ r \in Int /\ q * d <= a /\ b < r * d + d
  BY DivBounds
<1> HIDE DEF q, r
<1>2. q * d < (r + 1) * d
  BY <1>1
<1>3. q < r + 1
  BY <1>1, <1>2
<1> QED BY <1>1, <1>3 DEF q, r

\* The days of practice that are walked from the latest.
Walked(first, s) ==
    FoldLeft(Walk, [length |-> 1, expected |-> first - 1, broken |-> FALSE], s)

RunsWalk(r, m, first, s) ==
    /\ r[0] = [length |-> 1, expected |-> first - 1, broken |-> FALSE]
    /\ \A i \in 1..m : r[i] = Walk(r[i - 1], s[i])
    /\ Walked(first, s) = r[m]

LEMMA WalkRun ==
    ASSUME NEW first \in Int, NEW s \in Seq(Int)
    PROVE  \E r \in [0..Len(s) -> [length : Int, expected : Int, broken : BOOLEAN]] :
              RunsWalk(r, Len(s), first, s)
<1> DEFINE m == Len(s)
           Accs == [length : Int, expected : Int, broken : BOOLEAN]
           Start == [length |-> 1, expected |-> first - 1, broken |-> FALSE]
           Op(a, i) == Walk(a, s[i])
           st == [x \in Accs \X (1..m) |-> Op(x[1], x[2])]
           Runs(h) == h = [T \in SUBSET (1..m) |->
                              IF T = {} THEN Start ELSE Op(h[T \ {Max(T)}], Max(T))]
           run == CHOOSE h : Runs(h)
<1>0. m \in Nat /\ DOMAIN s = 1..m /\ \A i \in 1..m : s[i] \in Int
  OBVIOUS
<1>1. \A a \in Accs : \A i \in 1..m : Op(a, i) \in Accs
  <2> SUFFICES ASSUME NEW a \in Accs, NEW i \in 1..m PROVE Op(a, i) \in Accs
    OBVIOUS
  <2>1. \/ Op(a, i) = [a EXCEPT !.length = @ + 1, !.expected = s[i] - 1]
        \/ Op(a, i) = [a EXCEPT !.broken = TRUE]
    BY Zenon DEF Walk
  <2>2. s[i] - 1 \in Int /\ a.length + 1 \in Int
    BY <1>0
  <2>3. ASSUME NEW e \in Int, NEW l \in Int
        PROVE  [a EXCEPT !.length = l, !.expected = e] \in Accs
    OBVIOUS
  <2>4. [a EXCEPT !.broken = TRUE] \in Accs
    OBVIOUS
  <2> HIDE DEF Op, Accs
  <2> QED BY <2>1, <2>2, <2>3, <2>4
<1>2. st \in [Accs \X (1..m) -> Accs]
  <2> HIDE DEF Op
  <2> QED BY <1>1
<1>3. Start \in Accs
  OBVIOUS
<1>4. PICK h : Folds(h, st, Start, m) /\ h \in [SUBSET (1..m) -> Accs]
  <2> HIDE DEF st, Start
  <2> QED BY <1>0, <1>2, <1>3, FoldsExist
<1>5. Runs(h)
  <2>1. \A T \in SUBSET (1..m) : T # {} =>
            st[<<h[T \ {Max(T)}], Max(T)>>] = Op(h[T \ {Max(T)}], Max(T))
    <3> HIDE DEF Op
    <3>1. \A T \in SUBSET (1..m) : T # {} => Max(T) \in 1..m
      BY <1>0, GreatestIndex
    <3>2. \A T \in SUBSET (1..m) : h[T \ {Max(T)}] \in Accs
      BY <1>4
    <3> QED BY <3>1, <3>2
  <2> HIDE DEF st, Op, Start
  <2> QED BY <1>4, <2>1 DEF Folds
<1>6. Runs(run)
  <2> HIDE DEF Runs
  <2> QED BY <1>5
<1>7. Walked(first, s) = run[1..m]
  BY <1>0 DEF Walked, FoldLeft, MapThenFoldSet
<1>8. \A T \in SUBSET (1..m) : run[T] = IF T = {} THEN Start
                                        ELSE Op(run[T \ {Max(T)}], Max(T))
  <2> HIDE DEF run, Op, Start
  <2> QED BY <1>6
<1> DEFINE r == [i \in 0..m |-> run[1..i]]
<1>9. r[0] = Start /\ r[m] = run[1..m]
  <2>1. {} \in SUBSET (1..m) /\ 1..0 = {} /\ 0 \in 0..m /\ m \in 0..m
    BY <1>0
  <2> HIDE DEF run, Op, Start
  <2> QED BY <1>8, <2>1
<1>10. \A i \in 1..m : r[i] = Op(r[i - 1], i)
  <2> TAKE i \in 1..m
  <2>1. run[1..i] = Op(run[1..(i - 1)], i)
    <3> HIDE DEF run, Op
    <3>1. /\ 1..i \in SUBSET (1..m) /\ 1..i # {}
          /\ Max(1..i) = i /\ (1..i) \ {Max(1..i)} = 1..(i - 1)
      BY <1>0, Prefix
    <3> QED BY <1>8, <3>1
  <2>2. i \in 0..m /\ i - 1 \in 0..m
    OBVIOUS
  <2> HIDE DEF run, Op
  <2> QED BY <2>1, <2>2
<1>11. r \in [0..m -> Accs]
  <2>1. \A i \in 0..m : r[i] \in Accs
    <3> DEFINE Typed == {i \in 0..m : r[i] \in Accs}
    <3>1. 0 \in Typed
      <4>1. 0 \in 0..m
        BY <1>0
      <4> HIDE DEF r, Start
      <4> QED BY <1>3, <1>9, <4>1
    <3>2. \A i \in 1..m : i - 1 \in Typed => i \in Typed
      <4> HIDE DEF Op, r
      <4> QED BY <1>1, <1>10
    <3> HIDE DEF Typed
    <3>3. \A i \in 0..m : i \in Typed
      BY <1>0, <3>1, <3>2, UptoInduction
    <3> QED BY <3>3 DEF Typed
  <2> HIDE DEF run
  <2> QED BY <2>1
<1> HIDE DEF r, run
<1> QED BY <1>7, <1>9, <1>10, <1>11 DEF RunsWalk

LEMMA StreakWalks ==
    LET days == SessionDays IN
    TrainingStreak = IF days = << >> \/ days[1] < Today - 1 THEN 0
                     ELSE Walked(days[1], Tail(days)).length
BY Zenon DEF TrainingStreak, Walked

\* D lists days, the latest first.
Descends(D) ==
    /\ D \in Seq(Int) /\ Len(D) \in Nat \ {0}
    /\ \A i, j \in 1..Len(D) : i < j => D[i] > D[j]

\* Where the walk stands at the day D[i + 1].
Stands(acc, i, D) ==
    /\ acc.length \in 1..(i + 1) /\ acc.expected = D[1] - acc.length
    /\ \A j \in 1..acc.length : D[j] = D[1] - j + 1
    /\ ~acc.broken => acc.length = i + 1
    /\ acc.broken => \A j \in 1..Len(D) : D[j] # D[1] - acc.length

LEMMA WalkStands ==
    ASSUME NEW D, Descends(D), NEW i \in 1..(Len(D) - 1),
           NEW acc \in [length : Int, expected : Int, broken : BOOLEAN], Stands(acc, i - 1, D)
    PROVE  Stands(Walk(acc, D[i + 1]), i, D)
<1> DEFINE next == Walk(acc, D[i + 1])
           n == Len(D)
<1>1. /\ n \in Nat /\ i \in Nat /\ i + 1 \in 1..n /\ 1 \in 1..n /\ i \in 1..n
      /\ \A j \in 1..n : D[j] \in Int
  BY DEF Descends
<1>2. \A j, k \in 1..n : j < k => D[j] > D[k]
  BY DEF Descends
<1>3. /\ acc.length \in 1..i /\ acc.expected = D[1] - acc.length
      /\ \A j \in 1..acc.length : D[j] = D[1] - j + 1
  BY <1>1 DEF Stands
<1>4. CASE acc.broken
  <2>1. next = [acc EXCEPT !.broken = TRUE]
    BY <1>4, Zenon DEF Walk
  <2>2. next.length = acc.length /\ next.expected = acc.expected /\ next.broken = TRUE
    <3> HIDE DEF next
    <3> QED BY <2>1
  <2>3. \A j \in 1..n : D[j] # D[1] - acc.length
    BY <1>4 DEF Stands
  <2> HIDE DEF next
  <2>4. next.length \in 1..(i + 1) /\ next.expected = D[1] - next.length
    BY <1>1, <1>3, <2>2
  <2>5. \A j \in 1..next.length : D[j] = D[1] - j + 1
    BY <1>3, <2>2
  <2>6. \A j \in 1..n : D[j] # D[1] - next.length
    BY <2>2, <2>3
  <2>7. Stands(next, i, D)
    BY <2>2, <2>4, <2>5, <2>6, Zenon DEF Stands
  <2> QED BY <2>7 DEF next
<1>5. CASE ~acc.broken
  <2>1. acc.length = i /\ acc.expected = D[1] - i
    BY <1>1, <1>3, <1>5 DEF Stands
  <2>2. CASE D[i + 1] = acc.expected
    <3>1. next = [acc EXCEPT !.length = @ + 1, !.expected = D[i + 1] - 1]
      BY <1>5, <2>2, Zenon DEF Walk
    <3>2. /\ next.length = acc.length + 1 /\ next.expected = D[i + 1] - 1
          /\ next.broken = acc.broken
      <4> HIDE DEF next
      <4> QED BY <3>1
    <3> HIDE DEF next
    <3>3. next.length = i + 1 /\ next.expected = D[1] - (i + 1) /\ ~next.broken
      BY <1>1, <1>5, <2>1, <2>2, <3>2
    <3>4. \A j \in 1..(i + 1) : D[j] = D[1] - j + 1
      <4> SUFFICES ASSUME NEW j \in 1..(i + 1) PROVE D[j] = D[1] - j + 1
        OBVIOUS
      <4>1. CASE j = i + 1
        BY <1>1, <2>1, <2>2, <4>1
      <4>2. CASE j # i + 1
        BY <1>1, <1>3, <2>1, <4>2
      <4> QED BY <4>1, <4>2
    <3>5. next.length \in 1..(i + 1) /\ next.expected = D[1] - next.length
      BY <1>1, <3>3
    <3>6. \A j \in 1..next.length : D[j] = D[1] - j + 1
      BY <3>3, <3>4
    <3>7. Stands(next, i, D)
      BY <3>3, <3>5, <3>6, Zenon DEF Stands
    <3> QED BY <3>7 DEF next
  <2>3. CASE D[i + 1] # acc.expected
    <3>1. next = [acc EXCEPT !.broken = TRUE]
      BY <1>5, <2>3, Zenon DEF Walk
    <3>2. next.length = acc.length /\ next.expected = acc.expected /\ next.broken = TRUE
      <4> HIDE DEF next
      <4> QED BY <3>1
    <3> HIDE DEF next
    <3>3. D[i + 1] < D[1] - i /\ D[i] = D[1] - i + 1
      <4>1. D[i] = D[1] - i + 1
        BY <1>1, <1>3, <2>1
      <4>2. D[i] > D[i + 1]
        BY <1>1, <1>2
      <4> QED BY <1>1, <2>1, <2>3, <4>1, <4>2
    <3>4. ASSUME NEW j \in 1..n PROVE D[j] # D[1] - i
      <4>1. CASE j <= i
        <5>1. D[j] = D[1] - j + 1
          BY <1>1, <1>3, <2>1, <4>1
        <5> QED BY <1>1, <4>1, <5>1
      <4>2. CASE j = i + 1
        BY <1>1, <3>3, <4>2
      <4>3. CASE j > i + 1
        <5>1. D[i + 1] > D[j]
          BY <1>1, <1>2, <4>3
        <5> QED BY <1>1, <3>3, <5>1
      <4> QED BY <1>1, <4>1, <4>2, <4>3
    <3>5. next.length \in 1..(i + 1) /\ next.expected = D[1] - next.length
      BY <1>1, <1>3, <3>2
    <3>6. \A j \in 1..next.length : D[j] = D[1] - j + 1
      BY <1>3, <3>2
    <3>7. \A j \in 1..n : D[j] # D[1] - next.length
      BY <2>1, <3>2, <3>4
    <3>8. Stands(next, i, D)
      BY <3>2, <3>5, <3>6, <3>7, Zenon DEF Stands
    <3> QED BY <3>8 DEF next
  <2> QED BY <2>2, <2>3
<1> QED BY <1>4, <1>5

\* The walk counts the days of the run that the latest ends.
LEMMA WalkCounts ==
    ASSUME NEW D, Descends(D)
    PROVE  LET L == Walked(D[1], Tail(D)).length IN
           /\ L \in 1..Len(D)
           /\ \A j \in 1..L : D[j] = D[1] - j + 1
           /\ \A j \in 1..Len(D) : D[j] # D[1] - L
<1> DEFINE n == Len(D)
           s == Tail(D)
<1>1. /\ n \in Nat /\ 1 \in 1..n /\ n > 0 /\ \A j \in 1..n : D[j] \in Int
      /\ D[1] \in Int /\ D \in Seq(Int) /\ D # << >>
  BY DEF Descends
<1>2. s \in Seq(Int) /\ Len(s) = n - 1 /\ \A i \in 1..(n - 1) : s[i] = D[i + 1]
  BY <1>1
<1> HIDE DEF s
<1>3. PICK r \in [0..(n - 1) -> [length : Int, expected : Int, broken : BOOLEAN]] :
             RunsWalk(r, n - 1, D[1], s)
  BY <1>1, <1>2, WalkRun
<1> DEFINE Good == {i \in 0..(n - 1) : Stands(r[i], i, D)}
<1>4. 0 \in Good
  <2>1. r[0] = [length |-> 1, expected |-> D[1] - 1, broken |-> FALSE]
    BY <1>3 DEF RunsWalk
  <2>2. r[0].length = 1 /\ r[0].expected = D[1] - 1 /\ r[0].broken = FALSE
    BY <2>1
  <2>3. Stands(r[0], 0, D)
    BY <1>1, <2>2 DEF Stands
  <2> QED BY <1>1, <2>3
<1>5. ASSUME NEW i \in 1..(n - 1), i - 1 \in Good PROVE i \in Good
  <2>1. Stands(r[i - 1], i - 1, D)
    BY <1>5
  <2>2. r[i] = Walk(r[i - 1], D[i + 1])
    BY <1>2, <1>3 DEF RunsWalk
  <2>3. i - 1 \in 0..(n - 1) /\ i \in 0..(n - 1)
    BY <1>1
  <2> HIDE DEF n
  <2>4. r[i - 1] \in [length : Int, expected : Int, broken : BOOLEAN]
    BY <1>3, <2>3
  <2>5. Stands(r[i], i, D)
    BY <2>1, <2>2, <2>4, WalkStands DEF n
  <2> QED BY <2>3, <2>5
<1>6. \A i \in 0..(n - 1) : i \in Good
  <2>1. n - 1 \in Nat
    BY <1>1
  <2> HIDE DEF Good
  <2> QED BY <1>4, <1>5, <2>1, UptoInduction
<1>7. Stands(r[n - 1], n - 1, D) /\ Walked(D[1], s) = r[n - 1]
  BY <1>1, <1>3, <1>6 DEF RunsWalk
<1> DEFINE L == r[n - 1].length
<1>8. L \in 1..n /\ \A j \in 1..L : D[j] = D[1] - j + 1
  BY <1>1, <1>7 DEF Stands
<1>9. \A j \in 1..n : D[j] # D[1] - L
  <2>1. CASE r[n - 1].broken
    BY <1>7, <2>1 DEF Stands
  <2>2. CASE ~r[n - 1].broken
    <3>1. L = n
      BY <1>1, <1>7, <2>2 DEF Stands
    <3> HIDE DEF L
    <3> QED BY <1>1, <1>8, <3>1
  <2> QED BY <2>1, <2>2
<1> HIDE DEF L
<1> QED BY <1>7, <1>8, <1>9 DEF L, s

\* The days with a completed session.
Days == {t \div Day : t \in trained}

LEMMA DaysFit ==
    ASSUME IInv
    PROVE  /\ now \in Nat /\ Today \in Int
           /\ Days \in SUBSET Int /\ IsFiniteSet(Days) /\ Cardinality(Days) \in Nat
           /\ \A d \in Days : d <= Today
           /\ \A t \in trained : t \in Int /\ t <= now /\ t \div Day \in Days
<1>1. now \in Nat /\ Day \in Nat \ {0} /\ IsFiniteSet(trained)
  BY PracticeQueueAssumption DEF IInv, Trained
<1>2. \A t \in trained : t \in Int /\ t <= now /\ t \div Day \in Days
  BY DEF IInv, Trained, Days
<1>3. Today \in Int
  BY <1>1, DivBounds DEF Today
<1>4. ASSUME NEW d \in Days PROVE d \in Int /\ d <= Today
  <2>1. PICK t \in trained : d = t \div Day
    BY DEF Days
  <2>2. t \div Day \in Int
    BY <1>1, <1>2, DivBounds
  <2>3. t \div Day <= now \div Day
    BY <1>1, <1>2, DivMonotone
  <2> QED BY <2>1, <2>2, <2>3 DEF Today
<1>5. IsFiniteSet(Days)
  <2> DEFINE f == [t \in trained |-> t \div Day]
  <2>1. f \in Surjection(trained, Days)
    BY DEF Surjection, Days
  <2> HIDE DEF f
  <2> QED BY <1>1, <2>1, FS_Surjection
<1> QED BY <1>1, <1>2, <1>3, <1>4, <1>5, FS_CardinalityType

LEMMA SessionDaysDescend ==
    ASSUME IInv
    PROVE  /\ Lists(SessionDays, Days) /\ Len(SessionDays) = Cardinality(Days)
           /\ SessionDays # << >> => Descends(SessionDays)
<1> DEFINE f == [d \in Days |-> <<-d>>]
           s == InOrder({<<<<-d>>, d>> : d \in Days})
<1>1. ASSUME NEW d \in Days PROVE <<-d>> \in [1..1 -> Int] /\ <<-d>>[1] = -d /\ d \in Int
  BY DaysFit, KeyTypes
<1>2. f \in [Days -> [1..1 -> Int]] /\ \A x, y \in Days : f[x] = f[y] => x = y
  <2>1. f \in [Days -> [1..1 -> Int]]
    BY <1>1
  <2>2. ASSUME NEW x \in Days, NEW y \in Days, f[x] = f[y] PROVE x = y
    <3>1. f[x] = <<-x>> /\ f[y] = <<-y>>
      OBVIOUS
    <3>2. -x = -y
      BY <1>1, <2>2, <3>1
    <3>3. x \in Int /\ y \in Int
      BY <1>1
    <3> QED BY <3>2, <3>3
  <2> QED BY <2>1, <2>2
<1>3. {<<<<-d>>, d>> : d \in Days} = {<<f[d], d>> : d \in Days}
  OBVIOUS
<1>4. Sorted(s, Days, f)
  <2> HIDE DEF f
  <2> QED BY <1>2, <1>3, DaysFit, SortedIsSorted
<1>5. Lists(s, Days) /\ Len(s) = Cardinality(Days)
  <2> HIDE DEF f, s
  <2> QED BY <1>4, DaysFit, SortedLists
<1>6. SessionDays = s
  BY DEF SessionDays, SortedBy, Days
<1> HIDE DEF s
<1>7. s \in Seq(Days) /\ Len(s) \in Nat /\ DOMAIN s = 1..Len(s)
  BY <1>5 DEF Lists
<1>8. ASSUME NEW i \in 1..Len(s), NEW j \in 1..Len(s), i < j PROVE s[i] > s[j]
  <2>1. s[i] \in Days /\ s[j] \in Days
    BY <1>7
  <2>2. Before(f[s[i]], f[s[j]])
    <3> HIDE DEF f
    <3> QED BY <1>4, <1>5, <1>8 DEF Sorted
  <2>3. f[s[i]] = <<-s[i]>> /\ f[s[j]] = <<-s[j]>>
    BY <2>1
  <2>4. s[i] \in Int /\ s[j] \in Int
    BY <1>1, <2>1
  <2>5. Before(<<-s[i]>>, <<-s[j]>>)
    BY <2>2, <2>3
  <2>6. -s[i] < -s[j]
    <3> DEFINE a == -s[i]
               b == -s[j]
    <3>1. a \in Int /\ b \in Int
      BY <2>4
    <3>2. Before(<<a>>, <<b>>)
      BY <2>5
    <3> HIDE DEF a, b
    <3>3. a < b
      BY <3>1, <3>2 DEF Before
    <3> QED BY <3>3 DEF a, b
  <2> QED BY <2>4, <2>6
<1>9. s # << >> => Descends(s)
  <2>1. s \in Seq(Int)
    <3>1. Days \subseteq Int
      BY DaysFit
    <3>2. s \in [1..Len(s) -> Days]
      BY <1>7
    <3>3. s \in [1..Len(s) -> Int]
      BY <3>1, <3>2
    <3> HIDE DEF f
    <3> QED BY <1>7, <3>3
  <2>2. s # << >> => Len(s) \in Nat \ {0}
    BY <1>7
  <2> QED BY <1>8, <2>1, <2>2 DEF Descends
<1> QED BY <1>5, <1>6, <1>9

\* The streak, and the day it ends.
LEMMA StreakFits ==
    ASSUME IInv
    PROVE  LET D == SessionDays
               alive == D # << >> /\ D[1] >= Today - 1 IN
           /\ ~alive => /\ TrainingStreak = 0
                        /\ \A d \in Days : d < Today - 1
           /\ alive => /\ D[1] \in Days /\ \A d \in Days : d <= D[1]
                       /\ TrainingStreak \in 1..Cardinality(Days)
                       /\ \A d \in (D[1] - TrainingStreak + 1)..D[1] : d \in Days
                       /\ D[1] - TrainingStreak \notin Days
<1> DEFINE D == SessionDays
           n == Len(D)
           L == Walked(D[1], Tail(D)).length
<1>1. /\ D \in Seq(Days) /\ n = Cardinality(Days) /\ n \in Nat /\ DOMAIN D = 1..n
      /\ \A d \in Days : \E i \in 1..n : D[i] = d
      /\ \A i \in 1..n : D[i] \in Days
      /\ D # << >> => Descends(D)
  BY SessionDaysDescend DEF Lists
<1>2. TrainingStreak = IF D = << >> \/ D[1] < Today - 1 THEN 0 ELSE L
  BY StreakWalks
<1>3. Days \in SUBSET Int /\ Today \in Int /\ \A d \in Days : d <= Today
  BY DaysFit
<1>4. D # << >> => /\ L \in 1..n
                   /\ \A j \in 1..L : D[j] = D[1] - j + 1
                   /\ \A j \in 1..n : D[j] # D[1] - L
  BY <1>1, WalkCounts
<1>5. D # << >> => 1 \in 1..n /\ D[1] \in Days
  BY <1>1
<1>6. D # << >> => \A d \in Days : d <= D[1]
  <2> SUFFICES ASSUME D # << >>, NEW d \in Days PROVE d <= D[1]
    OBVIOUS
  <2>1. PICK i \in 1..n : D[i] = d
    BY <1>1
  <2>2. i > 1 => D[1] > D[i]
    BY <1>1, <1>5 DEF Descends
  <2>3. D[1] \in Int /\ d \in Int
    BY <1>3, <1>5
  <2> QED BY <1>1, <2>1, <2>2, <2>3
<1> HIDE DEF D, L
<1>7. ASSUME D = << >> \/ ~(D[1] >= Today - 1)
      PROVE  TrainingStreak = 0 /\ \A d \in Days : d < Today - 1
  <2>1. CASE D = << >>
    <3>1. n = 0
      BY <2>1
    <3>2. Days = {}
      BY <1>1, <3>1
    <3> QED BY <1>2, <2>1, <3>2
  <2>2. CASE D # << >>
    <3>1. D[1] \in Int /\ D[1] < Today - 1
      <4>1. D[1] \in Int /\ Today \in Int
        BY <1>3, <1>5, <2>2
      <4>2. ~(D[1] >= Today - 1)
        BY <1>7, <2>2
      <4> QED BY <4>1, <4>2
    <3> QED BY <1>2, <1>3, <1>6, <2>2, <3>1
  <2> QED BY <2>1, <2>2
<1>8. ASSUME D # << >>, D[1] >= Today - 1
      PROVE  /\ D[1] \in Days /\ \A d \in Days : d <= D[1]
             /\ TrainingStreak \in 1..Cardinality(Days)
             /\ \A d \in (D[1] - TrainingStreak + 1)..D[1] : d \in Days
             /\ D[1] - TrainingStreak \notin Days
  <2>1. D[1] \in Int /\ D[1] \in Days
    BY <1>3, <1>5, <1>8
  <2>2. TrainingStreak = L
    BY <1>2, <1>3, <1>8, <2>1
  <2>3. L \in 1..n /\ L \in Int
    BY <1>1, <1>4, <1>8
  <2>4. ASSUME NEW d \in (D[1] - L + 1)..D[1] PROVE d \in Days
    <3> DEFINE j == D[1] - d + 1
    <3>1. j \in 1..L /\ d \in Int
      BY <2>1, <2>3
    <3>2. D[j] = D[1] - j + 1
      BY <1>4, <1>8, <3>1
    <3>3. D[1] - j + 1 = d
      BY <2>1, <3>1
    <3>4. j \in 1..n
      BY <1>1, <2>3, <3>1
    <3> HIDE DEF j
    <3> QED BY <1>1, <3>2, <3>3, <3>4
  <2>5. D[1] - L \notin Days
    BY <1>1, <1>4, <1>8
  <2> QED BY <1>1, <1>6, <1>8, <2>1, <2>2, <2>3, <2>4, <2>5
<1> QED BY <1>7, <1>8 DEF D

LEMMA DaysHold == ASSUME IInv PROVE DaysAgree
<1> DEFINE D == SessionDays
           alive == D # << >> /\ D[1] >= Today - 1
           S == TrainingStreak
           Runs == {k \in 0..Cardinality(Days) :
                       \E end \in {Today, Today - 1} : ((end - k + 1)..end) \subseteq Days}
<1>1. /\ ~alive => S = 0 /\ \A d \in Days : d < Today - 1
      /\ alive => /\ D[1] \in Days /\ \A d \in Days : d <= D[1]
                  /\ S \in 1..Cardinality(Days)
                  /\ \A d \in (D[1] - S + 1)..D[1] : d \in Days
                  /\ D[1] - S \notin Days
  BY StreakFits
<1>2. /\ now \in Nat /\ Today \in Int
      /\ Days \in SUBSET Int /\ IsFiniteSet(Days) /\ Cardinality(Days) \in Nat
      /\ \A d \in Days : d <= Today
      /\ \A t \in trained : t \in Int /\ t <= now /\ t \div Day \in Days
  BY DaysFit
<1>3. /\ Dashboard.streak = S /\ Dashboard.completedToday = CompletedToday
      /\ Dashboard.sinceLast = DaysSinceLast
  BY DEF Dashboard
<1> DEFINE first == D[1]
<1>4. alive => first \in Days /\ first \in Int /\ first \in {Today, Today - 1}
  <2>1. alive => first \in Days /\ first \in Int /\ first <= Today /\ first >= Today - 1
    BY <1>1, <1>2
  <2> QED BY <1>2, <2>1
<1> HIDE DEF S, D, alive, first
<1>5. S \in Runs
  <2>1. CASE ~alive
    <3>1. S = 0 /\ 0 \in 0..Cardinality(Days)
      BY <1>1, <1>2, <2>1
    <3>2. (Today - 0 + 1)..Today = {}
      BY <1>2
    <3> QED BY <3>1, <3>2
  <2>2. CASE alive
    <3>1. S \in 0..Cardinality(Days)
      BY <1>1, <1>2, <2>2
    <3>2. (first - S + 1)..first \subseteq Days
      BY <1>1, <2>2 DEF first
    <3> QED BY <1>4, <2>2, <3>1, <3>2
  <2> QED BY <2>1, <2>2
<1>6. ASSUME NEW k \in Runs PROVE k <= S
  <2>1. PICK end \in {Today, Today - 1} : ((end - k + 1)..end) \subseteq Days
    OBVIOUS
  <2>2. k \in Nat /\ end \in Int /\ end >= Today - 1 /\ S \in Nat
    BY <1>1, <1>2
  <2>3. CASE k = 0
    BY <2>2, <2>3
  <2>4. CASE k > 0
    <3>1. end \in Days
      <4>1. end \in (end - k + 1)..end
        BY <2>2, <2>4
      <4> QED BY <2>1, <4>1
    <3>2. alive
      BY <1>1, <1>2, <2>2, <3>1
    <3>3. end <= first
      BY <1>1, <3>1, <3>2 DEF first
    <3>4. first \in Int /\ first <= Today /\ S >= 1 /\ first - S \notin Days
      BY <1>1, <1>2, <1>4, <3>2 DEF first
    <3>5. first - S \notin (end - k + 1)..end
      BY <2>1, <3>4
    <3> QED BY <1>2, <2>2, <2>4, <3>3, <3>4, <3>5
  <2> QED BY <2>2, <2>3, <2>4
<1>7. S = Max(Runs)
  <2>1. Runs \in SUBSET Int
    BY <1>2
  <2>2. IsFiniteSet(Runs)
    <3>1. Runs \in SUBSET (0..Cardinality(Days))
      OBVIOUS
    <3>2. IsFiniteSet(0..Cardinality(Days))
      <4>1. 0 \in Int /\ Cardinality(Days) \in Int
        BY <1>2
      <4> QED BY <4>1, FS_Interval
    <3> QED BY <3>1, <3>2, FS_Subset
  <2> HIDE DEF Runs
  <2>3. Max(Runs) \in Runs /\ \A k \in Runs : Max(Runs) >= k
    BY <1>5, <2>1, <2>2, GreatestOfFinite
  <2>4. Max(Runs) <= S /\ Max(Runs) >= S /\ Max(Runs) \in Int /\ S \in Int
    BY <1>5, <1>6, <2>1, <2>3
  <2> QED BY <2>4
<1>8. ASSUME trained # {}
      PROVE  /\ Max(trained) \in trained /\ \A t \in trained : Max(trained) >= t
             /\ DaysSinceLast = (now - Max(trained)) \div Day
  <2>1. trained \in SUBSET Int /\ IsFiniteSet(trained)
    BY DEF IInv, Trained
  <2>2. Max(trained) \in trained /\ \A t \in trained : Max(trained) >= t
    BY <1>8, <2>1, GreatestOfFinite
  <2> QED BY <1>8, <2>2 DEF DaysSinceLast
<1>9. /\ Day \in Nat \ {0} /\ Today * Day <= now /\ now < Today * Day + Day
  <2>1. Day \in Nat \ {0} /\ now \in Int
    BY <1>2, PracticeQueueAssumption
  <2> QED BY <2>1, DivBounds DEF Today
<1>10. ASSUME NEW t \in trained, NEW m \in {0, 1}, t >= (Today - m) * Day
       PROVE  DaysSinceLast <= m /\ DaysSinceLast >= 0 /\ DaysSinceLast \in Int
  <2> DEFINE last == Max(trained)
             gap == now - last
             q == gap \div Day
  <2>1. /\ last \in Int /\ last >= t /\ last <= now /\ t \in Int
        /\ DaysSinceLast = q
    BY <1>2, <1>8
  <2> HIDE DEF last
  <2>2. gap \in Int /\ 0 <= gap /\ gap < (m + 1) * Day
    <3>1. CASE m = 0
      BY <1>2, <1>9, <1>10, <2>1, <3>1
    <3>2. CASE m = 1
      <4>1. (Today - 1) * Day = Today * Day - Day
        BY <1>2, <1>9
      <4>2. now < Today * Day + Day /\ t >= Today * Day - Day
        BY <1>9, <1>10, <3>2, <4>1
      <4>3. Today * Day \in Int
        BY <1>2, <1>9
      <4> QED BY <1>2, <1>9, <2>1, <3>2, <4>2, <4>3
    <3> QED BY <3>1, <3>2
  <2>3. q \in Int /\ q * Day <= gap /\ gap < q * Day + Day
    BY <1>9, <2>2, DivBounds
  <2> HIDE DEF q, gap
  <2>4. q * Day < (m + 1) * Day /\ 0 < (q + 1) * Day
    BY <1>9, <2>2, <2>3
  <2>5. q < m + 1 /\ 0 < q + 1
    BY <1>9, <2>3, <2>4
  <2> QED BY <2>1, <2>3, <2>5
<1>11. ASSUME CompletedToday PROVE S > 0 /\ DaysSinceLast = 0
  <2>1. PICK t \in trained : t >= Today * Day /\ t < (Today + 1) * Day
    BY <1>11 DEF CompletedToday
  <2>2. t \div Day = Today
    <3> DEFINE q == t \div Day
    <3>1. t \in Int /\ q \in Int /\ q * Day <= t /\ t < q * Day + Day
      BY <1>2, <1>9, DivBounds
    <3> HIDE DEF q
    <3>2. q * Day < (Today + 1) * Day /\ Today * Day < (q + 1) * Day
      BY <1>2, <1>9, <2>1, <3>1
    <3>3. q < Today + 1 /\ Today < q + 1
      BY <1>2, <1>9, <3>1, <3>2
    <3>4. q = Today
      BY <1>2, <3>1, <3>3
    <3> QED BY <3>4 DEF q
  <2>3. Today \in Days
    BY <1>2, <2>2
  <2>4. alive
    BY <1>1, <1>2, <2>3
  <2>5. t >= (Today - 0) * Day
    BY <1>2, <2>1
  <2>6. DaysSinceLast <= 0 /\ DaysSinceLast >= 0 /\ DaysSinceLast \in Int
    BY <1>10, <2>5
  <2> QED BY <1>1, <1>2, <2>4, <2>6
<1>12. ASSUME S > 0 PROVE DaysSinceLast <= 1
  <2>1. alive
    BY <1>1, <1>12
  <2>2. PICK t \in trained : first = t \div Day
    BY <1>4, <2>1 DEF Days
  <2>3. t \in Int /\ first * Day <= t
    BY <1>2, <1>9, <2>2, DivBounds
  <2>4. first >= Today - 1 /\ first \in Int
    BY <1>2, <1>4, <2>1
  <2>5. (Today - 1) * Day <= first * Day
    BY <1>2, <1>9, <2>4
  <2>6. t >= (Today - 1) * Day
    BY <1>2, <1>9, <2>3, <2>4, <2>5
  <2> QED BY <1>10, <2>6
<1> HIDE DEF Runs
<1>13. Dashboard.streak = Max(Runs)
  BY <1>3, <1>7
<1>14. Dashboard.completedToday => Dashboard.streak > 0 /\ Dashboard.sinceLast = 0
  BY <1>3, <1>11
<1>15. Dashboard.streak > 0 => Dashboard.sinceLast <= 1
  BY <1>3, <1>12
<1> QED BY <1>13, <1>14, <1>15, Zenon DEF DaysAgree, Runs, Days

\* The dashboard, the queue, the Library, Insights and the openings report the
\* same counts, the same causes, one name for a focus and a streak that no gap is
\* stepped over for.
THEOREM SurfacesReportAlike == Spec => []SurfacesAgree
<1>1. IInv => SurfacesAgree
  BY CountsHold, CausesHold, DaysHold DEF SurfacesAgree
<1> QED BY <1>1, Invariance, PTL
=============================================================================
