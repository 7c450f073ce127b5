--------------------------- MODULE TemplateProofs ---------------------------
(***************************************************************************)
(* Proofs about the two kinds of templates, for any values: what the       *)
(* normalisation leaves of the deployment template of an agent pool, and   *)
(* what the node that is predicted for a scale set carries.                *)
(***************************************************************************)
EXTENDS ArmTemplate, NodeTemplate, FiniteSetTheorems, WellFoundedInduction, TLAPS

-----------------------------------------------------------------------------
(* removeIndexesFromArray: the recursion, unrolled.                        *)

\* What one more place leaves of what is left so far.
Leaves(array, indexes, g, n) ==
    IF n > 0 /\ Len(array) + 1 - n \in indexes THEN RemoveAt(g[n - 1], Len(array) + 1 - n)
    ELSE IF n > 0 THEN g[n - 1] ELSE array

\* g says what is left after each of n places.
IsRemoval(g, array, indexes, n) == g = [k \in 0..n |-> Leaves(array, indexes, g, k)]

\* A set of numbers that is not empty has a least one.
LEMMA LeastNumber ==
    ASSUME NEW S \in SUBSET Nat, S # {}
    PROVE  \E m \in S : \A k \in S : m <= k
  <1>1. PICK m \in S : \A k \in S : ~(<<k, m>> \in OpToRel(<, Nat))
    BY WFMin, NatLessThanWellFounded, Zenon
  <1>2. ASSUME NEW k \in S PROVE m <= k
    <2>1. k \in Nat /\ m \in Nat
      OBVIOUS
    <2>2. ~(k < m)
      BY <1>1, <2>1 DEF OpToRel
    <2> QED
      BY <2>1, <2>2
  <1> QED
    BY <1>2

\* There is such a g: the recursion is well defined.
LEMMA RemovalExists ==
    ASSUME NEW array, Len(array) \in Nat, NEW indexes
    PROVE  \E g : IsRemoval(g, array, indexes, Len(array))
  <1> DEFINE N   == Len(array)
             Bad == {n \in 0..N : ~\E g : IsRemoval(g, array, indexes, n)}
  <1>1. SUFFICES ASSUME Bad # {} PROVE FALSE
    OBVIOUS
  <1>2. PICK m \in Bad : \A k \in Bad : m <= k
    <2>1. Bad \in SUBSET Nat
      OBVIOUS
    <2> HIDE DEF Bad
    <2> QED
      BY <1>1, <2>1, LeastNumber
  <1>3. m \in 0..N
    OBVIOUS
  <1>4. m # 0
    <2> DEFINE g == [k \in 0..0 |-> array]
    <2>1. IsRemoval(g, array, indexes, 0)
      BY DEF IsRemoval, Leaves
    <2> QED
      BY <2>1
  <1>5. m - 1 \in 0..N /\ m - 1 \notin Bad
    BY <1>2, <1>3, <1>4
  <1>6. PICK g : IsRemoval(g, array, indexes, m - 1)
    BY <1>5
  <1> DEFINE h == [k \in 0..m |-> IF k = m THEN Leaves(array, indexes, g, k) ELSE g[k]]
  <1>7. \A k \in 0..(m - 1) : g[k] = Leaves(array, indexes, g, k)
    BY <1>6 DEF IsRemoval
  <1>8. ASSUME NEW k \in 0..m PROVE h[k] = Leaves(array, indexes, h, k)
    <2>1. k > 0 => k - 1 \in 0..m /\ h[k - 1] = g[k - 1]
      BY <1>3
    <2>2. Leaves(array, indexes, h, k) = Leaves(array, indexes, g, k)
      BY <2>1 DEF Leaves
    <2>3. k # m => k \in 0..(m - 1)
      BY <1>3
    <2> QED
      BY <1>7, <2>2, <2>3
  <1>9. IsRemoval(h, array, indexes, m)
    <2>1. h = [k \in 0..m |-> h[k]]
      OBVIOUS
    <2> HIDE DEF h
    <2> QED
      BY <1>8, <2>1 DEF IsRemoval
  <1> QED
    BY <1>2, <1>9

\* removeIndexesFromArray is the last of these steps.
LEMMA RemovalSteps ==
    ASSUME NEW array, Len(array) \in Nat, NEW indexes
    PROVE  \E g : /\ IsRemoval(g, array, indexes, Len(array))
                  /\ removeIndexesFromArray(array, indexes) = g[Len(array)]
  <1> DEFINE g == CHOOSE g : g = [n \in 0..Len(array) |-> Leaves(array, indexes, g, n)]
  <1>1. removeIndexesFromArray(array, indexes) = g[Len(array)]
    BY DEF removeIndexesFromArray, Leaves
  <1>2. g = [n \in 0..Len(array) |-> Leaves(array, indexes, g, n)]
    BY RemovalExists DEF IsRemoval
  <1> QED
    BY <1>1, <1>2 DEF IsRemoval

\* The elements after the one that is removed move up.
LEMMA RemoveAtElements ==
    ASSUME NEW X, NEW s \in Seq(X), NEW i \in 1..Len(s)
    PROVE  /\ RemoveAt(s, i) \in Seq(X)
           /\ Len(RemoveAt(s, i)) = Len(s) - 1
           /\ \A j \in 1..(Len(s) - 1) : RemoveAt(s, i)[j] = IF j < i THEN s[j] ELSE s[j + 1]
  <1> DEFINE a == SubSeq(s, 1, i - 1)
             b == SubSeq(s, i + 1, Len(s))
  <1>1. a \in Seq(X) /\ Len(a) = i - 1 /\ \A j \in 1..(i - 1) : a[j] = s[j]
    OBVIOUS
  <1>2. b \in Seq(X) /\ Len(b) = Len(s) - i /\ \A j \in 1..(Len(s) - i) : b[j] = s[i + j]
    OBVIOUS
  <1> HIDE DEF a, b
  <1>3. /\ a \o b \in Seq(X) /\ Len(a \o b) = Len(s) - 1
        /\ \A j \in 1..(Len(s) - 1) : (a \o b)[j] = IF j < i THEN a[j] ELSE b[j - i + 1]
    <2>1. a \o b \in Seq(X) /\ Len(a \o b) = Len(a) + Len(b)
      <3>1. a \in Seq(X)
        BY <1>1
      <3>2. b \in Seq(X)
        BY <1>2
      <3> QED
        BY <3>1, <3>2
    <2>2. \A j \in 1..(Len(a) + Len(b)) : (a \o b)[j] = IF j <= Len(a) THEN a[j] ELSE b[j - Len(a)]
      BY <1>1, <1>2
    <2>3. \A j \in 1..(Len(s) - 1) : j - (i - 1) = j - i + 1 /\ (j <= i - 1 <=> j < i)
      OBVIOUS
    <2>4. Len(a) = i - 1 /\ Len(a) + Len(b) = Len(s) - 1
      BY <1>1, <1>2
    <2>5. \A j \in 1..(Len(s) - 1) : (a \o b)[j] = IF j <= i - 1 THEN a[j] ELSE b[j - (i - 1)]
      BY <2>2, <2>4
    <2>6. \A j \in 1..(Len(s) - 1) : (a \o b)[j] = IF j < i THEN a[j] ELSE b[j - i + 1]
      BY <2>3, <2>5
    <2> QED
      BY <2>1, <2>4, <2>6
  <1>4. RemoveAt(s, i) = a \o b
    BY DEF RemoveAt, a, b
  <1>5. \A j \in 1..(Len(s) - 1) : (a \o b)[j] = IF j < i THEN s[j] ELSE s[j + 1]
    <2>1. \A j \in 1..(Len(s) - 1) : j < i => j \in 1..(i - 1)
      OBVIOUS
    <2>2. \A j \in 1..(Len(s) - 1) : ~(j < i) => j - i + 1 \in 1..(Len(s) - i) /\ i + (j - i + 1) = j + 1
      OBVIOUS
    <2>3. ASSUME NEW j \in 1..(Len(s) - 1), j < i PROVE (a \o b)[j] = s[j]
      BY <1>1, <1>3, <2>1, <2>3
    <2>4. ASSUME NEW j \in 1..(Len(s) - 1), ~(j < i) PROVE (a \o b)[j] = s[j + 1]
      <3>1. (a \o b)[j] = b[j - i + 1]
        BY <1>3, <2>4
      <3>2. b[j - i + 1] = s[i + (j - i + 1)]
        BY <1>2, <2>2, <2>4
      <3> QED
        BY <2>2, <2>4, <3>1, <3>2
    <2> QED
      BY <2>3, <2>4
  <1> QED
    BY <1>3, <1>4, <1>5

\* Counting those before it numbers the elements of a finite set of indexes.
LEMMA Ranks ==
    ASSUME NEW S \in SUBSET Nat, IsFiniteSet(S)
    PROVE  /\ Cardinality(S) \in Nat
           /\ \A k \in 1..Cardinality(S) :
                 \E i \in S : Cardinality({j \in S : j <= i}) = k
           /\ \A i \in S : Cardinality({j \in S : j <= i}) \in 1..Cardinality(S)
  <1> DEFINE Rank(i) == Cardinality({j \in S : j <= i})
             rank == [i \in S |-> Rank(i)]
             n == Cardinality(S)
  <1>1. n \in Nat
    BY FS_CardinalityType
  <1>2. ASSUME NEW i \in S PROVE Rank(i) \in 1..n
    <2>1. {j \in S : j <= i} \in SUBSET S /\ {j \in S : j <= i} # {}
      OBVIOUS
    <2>2. IsFiniteSet({j \in S : j <= i}) /\ Rank(i) <= n
      BY <2>1, FS_Subset
    <2>3. Rank(i) \in Nat /\ Rank(i) # 0
      BY <2>1, <2>2, FS_CardinalityType, FS_EmptySet
    <2> HIDE DEF Rank, n
    <2> QED
      BY <1>1, <2>2, <2>3
  <1>3. ASSUME NEW i \in S, NEW k \in S, i < k PROVE Rank(i) # Rank(k)
    <2>1. IsFiniteSet({j \in S : j <= k})
      BY FS_Subset
    <2>2. {j \in S : j <= i} \in SUBSET {j \in S : j <= k}
      <3>1. \A j \in S : j <= i => j <= k
        BY <1>3
      <3> QED
        BY <3>1
    <2>3. {j \in S : j <= i} # {j \in S : j <= k}
      BY <1>3
    <2> DEFINE A == {j \in S : j <= i}
               B == {j \in S : j <= k}
    <2> HIDE DEF A, B
    <2>4. IsFiniteSet(B) /\ A \in SUBSET B /\ A # B
      BY <2>1, <2>2, <2>3 DEF A, B
    <2>5. Cardinality(B) = Cardinality(A) => B = A
      BY <2>4, FS_Subset
    <2> QED
      BY <2>4, <2>5 DEF A, B
  <1>4. rank \in Injection(S, 1..n)
    <2>1. rank \in [S -> 1..n]
      BY <1>2
    <2>2. ASSUME NEW i \in S, NEW k \in S, rank[i] = rank[k] PROVE i = k
      <3>1. Rank(i) = Rank(k)
        BY <2>2
      <3> HIDE DEF Rank
      <3> QED
        BY <1>3, <3>1
    <2> QED
      BY <2>1, <2>2 DEF Injection, IsInjective
  <1>5. IsFiniteSet(1..n) /\ Cardinality(1..n) = n
    BY <1>1, FS_Interval
  <1>6. rank \in Surjection(S, 1..n)
    BY <1>4, <1>5, FS_Injection
  <1>7. \A k \in 1..n : \E i \in S : rank[i] = k
    BY <1>6 DEF Surjection
  <1> QED
    BY <1>1, <1>2, <1>7

\* f numbers the elements of S upwards; t has what array has there.
Numbers(f, n, S) ==
    /\ f \in [1..n -> S]
    /\ \A j, k \in 1..n : j < k => f[j] < f[k]
    /\ \A p \in S : \E j \in 1..n : f[j] = p

Picks(t, array, S) ==
    \E f : Numbers(f, Len(t), S) /\ \A j \in 1..Len(t) : t[j] = array[f[j]]

\* What removeIndexesFromArray leaves: the elements at the other indexes, in their order.
LEMMA RemovalPicks ==
    ASSUME NEW X, NEW array \in Seq(X), NEW indexes
    PROVE  /\ removeIndexesFromArray(array, indexes) \in Seq(X)
           /\ Picks(removeIndexesFromArray(array, indexes), array, DOMAIN array \ indexes)
  <1> DEFINE N == Len(array)
             Kept(n) == {p \in 1..N : p <= N - n \/ p \notin indexes}
  <1>1. N \in Nat /\ DOMAIN array = 1..N
    OBVIOUS
  <1>2. PICK g : IsRemoval(g, array, indexes, N) /\ removeIndexesFromArray(array, indexes) = g[N]
    BY <1>1, RemovalSteps
  <1>3. \A n \in 0..N : g[n] = Leaves(array, indexes, g, n)
    BY <1>2 DEF IsRemoval
  <1> DEFINE Good(n) == /\ g[n] \in Seq(X)
                        /\ N - n <= Len(g[n])
                        /\ \E f : /\ Numbers(f, Len(g[n]), Kept(n))
                                  /\ \A j \in 1..Len(g[n]) : g[n][j] = array[f[j]]
                                  /\ \A j \in 1..(N - n) : f[j] = j
             Bad == {n \in 0..N : ~Good(n)}
  <1>4. Good(0)
    <2> DEFINE f == [j \in 1..N |-> j]
    <2>1. g[0] = array
      BY <1>1, <1>3 DEF Leaves
    <2>2. Kept(0) = 1..N
      BY <1>1
    <2>3. Numbers(f, N, 1..N)
      BY <1>1 DEF Numbers
    <2>4. \A j \in 1..N : array[j] = array[f[j]] /\ f[j] = j
      OBVIOUS
    <2>5. g[0] \in Seq(X) /\ Len(g[0]) = N /\ N - 0 = N
      BY <1>1, <2>1
    <2> HIDE DEF f, N, Kept
    <2> QED
      BY <1>1, <2>1, <2>2, <2>3, <2>4, <2>5
  <1>5. ASSUME NEW n \in 0..N, n # 0, Good(n - 1) PROVE Good(n)
    <2> DEFINE i == N + 1 - n
               s == g[n - 1]
               m == Len(s)
    <2>1. i \in 1..N /\ n - 1 \in 0..N /\ N - (n - 1) = i /\ N - n = i - 1
      BY <1>1, <1>5
    <2>2. s \in Seq(X) /\ m \in Nat /\ i <= m
      BY <1>5, <2>1
    <2>3. PICK f : /\ Numbers(f, m, Kept(n - 1))
                   /\ \A j \in 1..m : s[j] = array[f[j]]
                   /\ \A j \in 1..i : f[j] = j
      BY <1>5, <2>1
    <2>4. g[n] = IF i \in indexes THEN RemoveAt(s, i) ELSE s
      BY <1>1, <1>3, <1>5 DEF Leaves
    <2>5. /\ Kept(n - 1) = {p \in 1..N : p <= i \/ p \notin indexes}
          /\ Kept(n) = {p \in 1..N : p <= i - 1 \/ p \notin indexes}
      BY <2>1
    <2> HIDE DEF i, s, m, Kept, N
    <2>6. CASE i \notin indexes
      <3>1. Kept(n) = Kept(n - 1)
        BY <1>1, <2>1, <2>5, <2>6
      <3> QED
        BY <1>1, <2>1, <2>2, <2>3, <2>4, <2>6, <3>1 DEF m
    <2>7. CASE i \in indexes
      <3> DEFINE t == RemoveAt(s, i)
                 h == [j \in 1..(m - 1) |-> IF j < i THEN f[j] ELSE f[j + 1]]
      <3>1. /\ t \in Seq(X) /\ Len(t) = m - 1
            /\ \A j \in 1..(m - 1) : t[j] = IF j < i THEN s[j] ELSE s[j + 1]
        <4>1. i \in 1..Len(s) /\ m = Len(s)
          BY <2>1, <2>2 DEF m
        <4> HIDE DEF m
        <4> QED
          BY <2>2, <4>1, RemoveAtElements
      <3>2. Kept(n) = Kept(n - 1) \ {i}
        BY <1>1, <2>1, <2>5, <2>7
      <3>3. /\ f \in [1..m -> Kept(n - 1)] /\ Kept(n - 1) \subseteq 1..N
            /\ \A j, k \in 1..m : j < k => f[j] < f[k]
            /\ \A p \in Kept(n - 1) : \E j \in 1..m : f[j] = p
            /\ f[i] = i /\ i \in 1..m
        BY <2>1, <2>2, <2>3, <2>5 DEF Numbers
      <3>4. ASSUME NEW j \in 1..(m - 1) PROVE h[j] \in Kept(n)
        <4>1. j < i => j \in 1..m /\ f[j] < i
          BY <2>2, <3>3
        <4>2. ~(j < i) => j + 1 \in 1..m /\ i < f[j + 1]
          BY <2>1, <2>2, <3>3
        <4> QED
          BY <2>1, <2>2, <3>2, <3>3, <4>1, <4>2
      <3>5. ASSUME NEW j \in 1..(m - 1), NEW k \in 1..(m - 1), j < k PROVE h[j] < h[k]
        <4> DEFINE a == IF j < i THEN j ELSE j + 1
                   b == IF k < i THEN k ELSE k + 1
        <4>1. a \in 1..m /\ b \in 1..m /\ a < b
          BY <2>1, <2>2, <3>5
        <4>2. h[j] = f[a] /\ h[k] = f[b]
          OBVIOUS
        <4> QED
          BY <3>3, <4>1, <4>2
      <3>6. ASSUME NEW p \in Kept(n) PROVE \E j \in 1..(m - 1) : h[j] = p
        <4>1. p \in Kept(n - 1) /\ p # i
          BY <3>2
        <4>2. PICK k \in 1..m : f[k] = p
          BY <3>3, <4>1
        <4>3. k # i
          BY <3>3, <4>1, <4>2
        <4>4. CASE k < i
          <5>1. k \in 1..(m - 1) /\ h[k] = p
            BY <2>1, <2>2, <4>2, <4>4
          <5> QED
            BY <5>1
        <4>5. CASE k > i
          <5>1. k - 1 \in 1..(m - 1) /\ h[k - 1] = f[k]
            BY <2>1, <2>2, <4>5
          <5> QED
            BY <4>2, <5>1
        <4> QED
          BY <2>1, <4>3, <4>4, <4>5
      <3>7. Numbers(h, m - 1, Kept(n))
        BY <3>4, <3>5, <3>6 DEF Numbers
      <3>8. \A j \in 1..(m - 1) : t[j] = array[h[j]]
        BY <2>1, <2>2, <2>3, <3>1
      <3>9. \A j \in 1..(i - 1) : h[j] = j
        BY <2>1, <2>2, <2>3
      <3>10. g[n] = t /\ N - n <= Len(t)
        BY <1>1, <2>1, <2>2, <2>4, <2>7, <3>1
      <3> HIDE DEF t, h
      <3> QED
        BY <2>1, <3>1, <3>7, <3>8, <3>9, <3>10
    <2> QED
      BY <2>6, <2>7
  <1>6. Bad = {}
    <2> HIDE DEF Good, N
    <2>1. SUFFICES ASSUME Bad # {} PROVE FALSE
      OBVIOUS
    <2>2. PICK n \in Bad : \A k \in Bad : n <= k
      <3>1. Bad \in SUBSET Nat
        BY <1>1
      <3> HIDE DEF Bad
      <3> QED
        BY <2>1, <3>1, LeastNumber
    <2>3. n \in 0..N /\ ~Good(n)
      BY <2>2
    <2>4. n # 0
      BY <1>4, <2>3
    <2>5. n - 1 \in 0..N /\ n - 1 < n
      BY <1>1, <2>3, <2>4
    <2>6. Good(n - 1)
      <3>1. n - 1 \notin Bad
        BY <1>1, <2>2, <2>3, <2>5
      <3> QED
        BY <2>5, <3>1
    <2> QED
      BY <1>5, <2>3, <2>4, <2>6
  <1>7. Good(N)
    <2> HIDE DEF Good, N
    <2> QED
      BY <1>1, <1>6
  <1>8. Kept(N) = DOMAIN array \ indexes
    BY <1>1
  <1> QED
    BY <1>1, <1>2, <1>7, <1>8 DEF Picks

\* An increasing numbering gives each its rank.
LEMMA PicksThose ==
    ASSUME NEW t, NEW X, t \in Seq(X), NEW array, NEW S \in SUBSET Nat, Picks(t, array, S)
    PROVE  t = Those(array, S)
  <1> DEFINE n == Len(t)
             Rank(i) == Cardinality({j \in S : j <= i})
  <1>1. n \in Nat /\ DOMAIN t = 1..n
    OBVIOUS
  <1>2. PICK f : Numbers(f, n, S) /\ \A j \in 1..n : t[j] = array[f[j]]
    BY DEF Picks
  <1>3. /\ f \in [1..n -> S]
        /\ \A j, k \in 1..n : j < k => f[j] < f[k]
        /\ \A p \in S : \E j \in 1..n : f[j] = p
    BY <1>2 DEF Numbers
  <1>4. \A j, k \in 1..n : f[j] = f[k] => j = k
    <2> SUFFICES ASSUME NEW j \in 1..n, NEW k \in 1..n, j # k PROVE f[j] # f[k]
      OBVIOUS
    <2>1. f[j] \in Nat /\ f[k] \in Nat
      BY <1>3
    <2>2. j < k \/ k < j
      BY <1>1
    <2> QED
      BY <1>3, <2>1, <2>2
  <1>5. ASSUME NEW k \in 1..n PROVE Rank(f[k]) = k
    <2> DEFINE T == {j \in S : j <= f[k]}
               h == [i \in 1..k |-> f[i]]
    <2>1. k \in Nat /\ 1..k \subseteq 1..n
      BY <1>1
    <2>2. h \in [1..k -> T]
      <3> SUFFICES ASSUME NEW i \in 1..k PROVE f[i] \in S /\ f[i] <= f[k]
        OBVIOUS
      <3>1. i \in 1..n /\ f[i] \in S /\ f[i] \in Nat /\ f[k] \in Nat
        BY <1>3, <2>1
      <3>2. i = k \/ i < k
        BY <2>1
      <3> QED
        BY <1>3, <3>1, <3>2
    <2>3. \A i, j \in 1..k : h[i] = h[j] => i = j
      BY <1>4, <2>1
    <2>4. ASSUME NEW p \in T PROVE \E i \in 1..k : h[i] = p
      <3>1. PICK i \in 1..n : f[i] = p
        BY <1>3
      <3>2. ~(k < i)
        <4>1. k < i => f[k] < f[i]
          BY <1>3
        <4>2. f[i] <= f[k] /\ f[i] \in Nat /\ f[k] \in Nat
          BY <1>3, <3>1
        <4> QED
          BY <4>1, <4>2
      <3>3. i \in 1..k
        BY <1>1, <3>2
      <3> QED
        BY <3>1, <3>3
    <2>5. h \in Bijection(1..k, T)
      BY <2>2, <2>3, <2>4 DEF Bijection, Injection, Surjection, IsInjective
    <2>6. ExistsBijection(1..k, T)
      BY <2>5 DEF ExistsBijection
    <2> QED
      BY <2>1, <2>6, FS_CountingElements, FS_Interval, FS_Bijection
  <1>6. Cardinality(S) = n
    <2>1. f \in Bijection(1..n, S)
      BY <1>3, <1>4 DEF Bijection, Injection, Surjection, IsInjective
    <2>2. ExistsBijection(1..n, S)
      BY <2>1 DEF ExistsBijection
    <2> HIDE DEF n
    <2> QED
      BY <1>1, <2>2, FS_CountingElements
  <1>7. ASSUME NEW k \in 1..n PROVE (CHOOSE i \in S : Rank(i) = k) = f[k]
    <2>1. f[k] \in S /\ Rank(f[k]) = k
      BY <1>3, <1>5
    <2>2. ASSUME NEW i \in S, Rank(i) = k PROVE i = f[k]
      <3>1. PICK j \in 1..n : f[j] = i
        BY <1>3
      <3>2. Rank(f[j]) = j
        BY <1>5
      <3> HIDE DEF Rank
      <3> QED
        BY <2>2, <3>1, <3>2
    <2> HIDE DEF Rank
    <2> QED
      BY <2>1, <2>2
  <1>8. t = [k \in 1..n |-> array[f[k]]]
    <2>1. t = [k \in 1..n |-> t[k]]
      BY <1>1
    <2> QED
      BY <1>2, <2>1
  <1> QED
    BY <1>6, <1>7, <1>8 DEF Those

-----------------------------------------------------------------------------
(* The normalisation of a deployment template.                             *)

\* A resource without what is removed of it.
Stripped(res) == WithoutNetworkDependencies(WithoutMasterFields(res))

\* What the reference keeps of a resource.
Reference(res) ==
    [res EXCEPT
        !.dependsOn = Those(@, {j \in DOMAIN @ : @[j] = "other"}),
        !.fields = IF res.type = "vm" /\ res.master THEN {} ELSE @]

\* What is removed of a master is nothing that the normalisation looks at.
LEMMA MasterFieldsOnly ==
    ASSUME NEW res \in Resource
    PROVE  LET s == WithoutMasterFields(res)
           IN  /\ s \in Resource
               /\ s.map = res.map /\ s.type = res.type /\ s.named = res.named
               /\ s.master = res.master /\ s.dependsOn = res.dependsOn /\ s.maps = res.maps
  BY DEF WithoutMasterFields, removeImageReference, removeCustomData, Resource

\* The dependencies on the network go, whichever they are, and the others stay.
LEMMA DependenciesLeft ==
    ASSUME NEW deps \in Seq({"nsg", "rt", "other"})
    PROVE  /\ removeIndexesFromArray(deps, {i \in DOMAIN deps : deps[i] \in {"nsg", "rt"}})
              = Those(deps, {j \in DOMAIN deps : deps[j] = "other"})
           /\ Those(deps, {j \in DOMAIN deps : deps[j] = "other"}) \in Seq({"nsg", "rt", "other"})
  <1> DEFINE X    == {"nsg", "rt", "other"}
             gone == {i \in DOMAIN deps : deps[i] \in {"nsg", "rt"}}
             kept == {j \in DOMAIN deps : deps[j] = "other"}
             t    == removeIndexesFromArray(deps, gone)
  <1>1. DOMAIN deps \ gone = kept /\ kept \in SUBSET Nat
    OBVIOUS
  <1>2. t \in Seq(X) /\ Picks(t, deps, DOMAIN deps \ gone)
    <2> HIDE DEF gone
    <2> QED
      BY RemovalPicks
  <1> HIDE DEF t, kept, gone
  <1>3. t = Those(deps, kept)
    BY <1>1, <1>2, PicksThose
  <1> QED
    BY <1>2, <1>3 DEF t, kept, gone

\* Of a well-formed resource is left what the reference keeps.
LEMMA StrippedIsReference ==
    ASSUME NEW res \in Resource, WellFormed(res)
    PROVE  Stripped(res) = Reference(res) /\ Stripped(res) \in Resource
  <1> DEFINE s     == WithoutMasterFields(res)
             deps  == Those(res.dependsOn, {j \in DOMAIN res.dependsOn : res.dependsOn[j] = "other"})
  <1>1. /\ s \in Resource
        /\ s.map = res.map /\ s.type = res.type /\ s.named = res.named
        /\ s.master = res.master /\ s.dependsOn = res.dependsOn /\ s.maps = res.maps
    BY MasterFieldsOnly
  <1>2. s.fields = IF res.type = "vm" /\ res.master THEN {} ELSE res.fields
    BY DEF WithoutMasterFields, removeImageReference, removeCustomData, Resource, WellFormed,
           OfMasters, Maps, Fields
  <1>3. res.map /\ res.dependsOn \in Seq({"nsg", "rt", "other"})
    BY DEF Resource, WellFormed
  <1>4. /\ removeIndexesFromArray(s.dependsOn,
              {i \in DOMAIN s.dependsOn : s.dependsOn[i] \in {"nsg", "rt"}}) = deps
        /\ deps \in Seq({"nsg", "rt", "other"})
    BY <1>1, <1>3, DependenciesLeft
  <1> HIDE DEF s, deps
  <1>5. Stripped(res) = [s EXCEPT !.dependsOn = deps]
    BY <1>1, <1>3, <1>4 DEF Stripped, s, WithoutNetworkDependencies
  <1>6. Reference(res) = [res EXCEPT !.dependsOn = deps, !.fields = s.fields]
    BY <1>2 DEF Reference, deps
  <1>7. Stripped(res) \in Resource
    BY <1>1, <1>4, <1>5 DEF Resource
  <1>8. [s EXCEPT !.dependsOn = deps] = [res EXCEPT !.dependsOn = deps, !.fields = s.fields]
    BY <1>1 DEF Resource
  <1> QED
    BY <1>5, <1>6, <1>7, <1>8

\* One numbering after another, and what it numbers.
Twice(f, g, m) == [j \in 1..m |-> f[g[j]]]
Numbered(f, T) == {f[i] : i \in T}

\* Numbering what has been numbered already.
LEMMA NumbersTwice ==
    ASSUME NEW n \in Nat, NEW m \in Nat, NEW S \in SUBSET Nat, NEW T \in SUBSET (1..n),
           NEW f, Numbers(f, n, S), NEW g, Numbers(g, m, T)
    PROVE  Numbers(Twice(f, g, m), m, Numbered(f, T))
  <1> DEFINE h == [j \in 1..m |-> f[g[j]]]
  <1>1. /\ f \in [1..n -> S] /\ g \in [1..m -> T]
        /\ \A j, k \in 1..n : j < k => f[j] < f[k]
        /\ \A j, k \in 1..m : j < k => g[j] < g[k]
        /\ \A p \in T : \E j \in 1..m : g[j] = p
    BY DEF Numbers
  <1>2. h \in [1..m -> {f[i] : i \in T}]
    BY <1>1
  <1>3. \A j, k \in 1..m : j < k => h[j] < h[k]
    <2> SUFFICES ASSUME NEW j \in 1..m, NEW k \in 1..m, j < k PROVE h[j] < h[k]
      OBVIOUS
    <2>1. g[j] \in 1..n /\ g[k] \in 1..n /\ g[j] < g[k]
      BY <1>1
    <2> QED
      BY <1>1, <2>1
  <1>4. \A p \in {f[i] : i \in T} : \E j \in 1..m : h[j] = p
    BY <1>1
  <1> QED
    BY <1>2, <1>3, <1>4 DEF Numbers, Twice, Numbered

\* The normalisation of a template of well-formed resources keeps just what the
\* reference keeps: removing indexes twice, each time from the highest to the lowest,
\* hits the resources that were meant and no other.
LEMMA NormalisationIsReference ==
    ASSUME NEW exported \in Seq(Resource), \A j \in DOMAIN exported : WellFormed(exported[j])
    PROVE  normalizeForK8sVMASScalingUp(exported).template = Redeployable(exported)
  <1> DEFINE n    == Len(exported)
             a1   == [i \in DOMAIN exported |-> WithoutMasterFields(exported[i])]
             ext  == {i \in DOMAIN exported : OfMasters(exported[i]) /\ exported[i].type = "extension"}
             t1   == removeIndexesFromArray(a1, ext)
             a2   == [i \in DOMAIN t1 |-> WithoutNetworkDependencies(t1[i])]
             net  == IndexesOf(t1, "nsg") \cup IndexesOf(t1, "rt")
             t2   == removeIndexesFromArray(a2, net)
             kept == {i \in DOMAIN exported :
                        /\ exported[i].type \notin {"nsg", "rt"}
                        /\ ~(exported[i].type = "extension" /\ exported[i].master)}
             r    == [i \in DOMAIN exported |-> Reference(exported[i])]
  <1>1. normalizeForK8sVMASScalingUp(exported).template = t2
    BY DEF normalizeForK8sVMASScalingUp, normalizeMasterResourcesForScaling
  <1>2. n \in Nat /\ DOMAIN exported = 1..n /\ \A i \in 1..n : exported[i] \in Resource
    OBVIOUS
  <1>3. a1 \in Seq(Resource) /\ DOMAIN a1 = 1..n /\ \A i \in 1..n : a1[i] = WithoutMasterFields(exported[i])
    BY <1>2, MasterFieldsOnly
  <1>4. t1 \in Seq(Resource) /\ Picks(t1, a1, 1..n \ ext)
    <2> HIDE DEF a1, ext
    <2> QED
      BY <1>3, RemovalPicks
  <1> HIDE DEF t1, a1
  <1>5. PICK f : Numbers(f, Len(t1), 1..n \ ext) /\ \A j \in 1..Len(t1) : t1[j] = a1[f[j]]
    BY <1>4 DEF Picks
  <1>6. Len(t1) \in Nat /\ DOMAIN t1 = 1..Len(t1)
    BY <1>4
  <1>7. /\ f \in [1..Len(t1) -> 1..n \ ext]
        /\ \A p \in 1..n \ ext : \E j \in 1..Len(t1) : f[j] = p
    BY <1>5 DEF Numbers
  <1>8. ASSUME NEW j \in 1..Len(t1)
        PROVE  /\ t1[j] = WithoutMasterFields(exported[f[j]]) /\ t1[j].map
               /\ t1[j].type = exported[f[j]].type
    <2>1. f[j] \in 1..n /\ t1[j] = WithoutMasterFields(exported[f[j]])
      BY <1>3, <1>5, <1>7
    <2> HIDE DEF ext
    <2>2. exported[f[j]] \in Resource /\ WellFormed(exported[f[j]])
      BY <1>2, <2>1
    <2> QED
      BY <2>1, <2>2, MasterFieldsOnly DEF WellFormed
  <1>9. /\ \A j \in 1..Len(t1) : a2[j] = Stripped(exported[f[j]])
        /\ a2 \in Seq(Resource) /\ DOMAIN a2 = 1..Len(t1)
    <2>1. \A j \in 1..Len(t1) : a2[j] = Stripped(exported[f[j]])
      BY <1>6, <1>8 DEF Stripped
    <2>2. \A j \in 1..Len(t1) : a2[j] \in Resource
      BY <1>2, <1>7, <2>1, StrippedIsReference
    <2>3. a2 \in [1..Len(t1) -> Resource]
      BY <1>6, <2>2
    <2> HIDE DEF a2
    <2> QED
      BY <1>6, <2>1, <2>3
  <1>10. t2 \in Seq(Resource) /\ Picks(t2, a2, 1..Len(t1) \ net)
    <2> HIDE DEF a2, net
    <2> QED
      BY <1>9, RemovalPicks
  <1>11. 1..Len(t1) \ net = {j \in 1..Len(t1) : exported[f[j]].type \notin {"nsg", "rt"}}
    BY <1>6, <1>8 DEF IndexesOf
  <1> HIDE DEF t2, a2, net
  <1>12. PICK g : Numbers(g, Len(t2), 1..Len(t1) \ net) /\ \A j \in 1..Len(t2) : t2[j] = a2[g[j]]
    BY <1>10 DEF Picks
  <1> DEFINE h == [j \in 1..Len(t2) |-> f[g[j]]]
  <1>13. Len(t2) \in Nat
    BY <1>10
  <1>14. 1..n \ ext = {i \in 1..n : ~(exported[i].type = "extension" /\ exported[i].master)}
    BY <1>2 DEF OfMasters, WellFormed
  <1>15. {f[j] : j \in 1..Len(t1) \ net} = kept
    BY <1>2, <1>7, <1>11, <1>14
  <1>16. Numbers(h, Len(t2), kept)
    <2> DEFINE S == 1..n \ ext
               T == 1..Len(t1) \ net
    <2>1. S \in SUBSET Nat /\ T \in SUBSET (1..Len(t1))
      OBVIOUS
    <2>2. Numbers(f, Len(t1), S) /\ Numbers(g, Len(t2), T)
      BY <1>5, <1>12
    <2>3. {f[j] : j \in T} = kept
      BY <1>15
    <2> HIDE DEF ext, kept, S, T
    <2>4. Numbers(Twice(f, g, Len(t2)), Len(t2), Numbered(f, T))
      BY <1>6, <1>13, <2>1, <2>2, NumbersTwice
    <2> QED
      BY <2>3, <2>4 DEF Twice, Numbered
  <1>17. ASSUME NEW j \in 1..Len(t2) PROVE t2[j] = r[h[j]]
    <2>1. g[j] \in 1..Len(t1)
      BY <1>12 DEF Numbers
    <2>2. t2[j] = Stripped(exported[f[g[j]]]) /\ f[g[j]] \in 1..n
      BY <1>7, <1>9, <1>12, <2>1
    <2>3. Stripped(exported[f[g[j]]]) = Reference(exported[f[g[j]]])
      BY <1>2, <2>2, StrippedIsReference
    <2> QED
      BY <1>2, <2>2, <2>3
  <1>18. Picks(t2, r, kept)
    <2> HIDE DEF h, r, kept
    <2> QED
      BY <1>16, <1>17 DEF Picks
  <1>19. t2 = Those(r, kept)
    <2>1. kept \in SUBSET Nat
      BY <1>2
    <2> HIDE DEF r, kept
    <2> QED
      BY <1>10, <1>18, <2>1, PicksThose
  <1>20. Those(r, kept) = Redeployable(exported)
    <2> DEFINE at(k) == CHOOSE i \in kept : Cardinality({j \in kept : j <= i}) = k
    <2>1. IsFiniteSet(kept)
      <3>1. IsFiniteSet(1..n) /\ kept \in SUBSET (1..n)
        BY <1>2, FS_Interval
      <3> QED
        BY <3>1, FS_Subset
    <2>2. \A k \in 1..Cardinality(kept) : at(k) \in kept
      <3>1. kept \in SUBSET Nat
        BY <1>2
      <3> HIDE DEF kept
      <3>2. \A k \in 1..Cardinality(kept) : \E i \in kept : Cardinality({j \in kept : j <= i}) = k
        BY <2>1, <3>1, Ranks
      <3> QED
        BY <3>2
    <2>3. Redeployable(exported) = [k \in 1..Cardinality(kept) |-> Reference(exported[at(k)])]
      <3> DEFINE e == Those(exported, kept)
      <3>1. Redeployable(exported) = [k \in DOMAIN e |-> Reference(e[k])]
        BY DEF Redeployable, Reference
      <3>2. e = [k \in 1..Cardinality(kept) |-> exported[at(k)]]
        BY DEF Those
      <3> HIDE DEF e, kept, at
      <3>3. DOMAIN e = 1..Cardinality(kept) /\ \A k \in 1..Cardinality(kept) : e[k] = exported[at(k)]
        BY <3>2
      <3> QED
        BY <3>1, <3>3
    <2>4. Those(r, kept) = [k \in 1..Cardinality(kept) |-> r[at(k)]]
      BY DEF Those
    <2>5. \A i \in kept : r[i] = Reference(exported[i])
      OBVIOUS
    <2> HIDE DEF r, kept, at
    <2> QED
      BY <2>2, <2>3, <2>4, <2>5
  <1> QED
    BY <1>1, <1>19, <1>20

-----------------------------------------------------------------------------
(* Sizes of machines.                                                      *)

\* A promotional name without its end, which no other name has.
LEMMA OrdinaryNames ==
    ASSUME NEW a, NEW b
    PROVE  /\ b # "_promo" => WithoutPromo(<<a, b>>) = <<a, b>>
           /\ WithoutPromo(<<a, b, "_promo">>) = <<a, b>>
  <1>1. ASSUME b # "_promo" PROVE WithoutPromo(<<a, b>>) = <<a, b>>
    BY <1>1 DEF WithoutPromo
  <1>2. ASSUME NEW p, p = "_promo" PROVE WithoutPromo(<<a, b, p>>) = <<a, b>>
    <2> DEFINE s == <<a, b, p>>
               S == {a, b, p}
    <2>1. s \in Seq(S)
      <3>1. a \in S /\ b \in S /\ p \in S
        OBVIOUS
      <3> HIDE DEF S
      <3> QED
        BY <3>1
    <2>2. Len(s) = 3 /\ s[1] = a /\ s[2] = b /\ s[3] = p
      OBVIOUS
    <2>3. s # <<>>
      OBVIOUS
    <2> HIDE DEF s, S
    <2>4. /\ SubSeq(s, 1, 2) \in Seq(S) /\ Len(SubSeq(s, 1, 2)) = 2
          /\ SubSeq(s, 1, 2)[1] = a /\ SubSeq(s, 1, 2)[2] = b
      BY <2>1, <2>2
    <2>5. SubSeq(s, 1, 2) = <<a, b>>
      <3>1. \A t \in Seq(S) : Len(t) = 2 => t = <<t[1], t[2]>>
        OBVIOUS
      <3> QED
        BY <2>4, <3>1
    <2>6. WithoutPromo(s) = SubSeq(s, 1, 2)
      <3>1. s # <<>>
        BY <2>3
      <3>2. Len(s) - 1 = 2
        BY <2>2
      <3> QED
        BY <1>2, <2>2, <3>1, <3>2 DEF WithoutPromo
    <2> QED
      BY <2>5, <2>6 DEF s
  <1> QED
    BY <1>1, <1>2

\* The sizes Nvidia's drivers are for are of three families.
LEMMA NvidiaNames ==
    ASSUME NEW sku \in NvidiaEnabledSKUs
    PROVE  /\ sku[1] \in {"nc", "nd", "nv"}
           /\ \E a, b : sku = <<a, b>> /\ b # "_promo"
  BY SMTT(60) DEF NvidiaEnabledSKUs

\* A family's rows, by their first part; none of them is promotional.
LEMMA OtherFamilies ==
    /\ \A r \in ASeries : r[1] = "a" /\ r[2] # "_promo"
    /\ \A r \in BSeries : r[1] = "b" /\ r[2] # "_promo"
    /\ \A r \in BLargeSeries : r[1] = "b" /\ r[2] # "_promo"
    /\ \A r \in DSSeries : r[1] = "ds" /\ r[2] # "_promo"
    /\ \A r \in DSLargeSeries : r[1] = "ds" /\ r[2] # "_promo"
    /\ \A r \in DSPromoSeries : r[1] = "ds" /\ r[2] # "_promo"
    /\ \A r \in NPSeries : r[1] = "np" /\ r[2] # "_promo"
  <1>1. \A r \in ASeries : r[1] = "a" /\ r[2] # "_promo"
    BY SMTT(60) DEF ASeries
  <1>2. \A r \in BSeries : r[1] = "b" /\ r[2] # "_promo"
    BY SMTT(60) DEF BSeries
  <1>3. \A r \in BLargeSeries : r[1] = "b" /\ r[2] # "_promo"
    BY SMTT(60) DEF BLargeSeries
  <1>4. \A r \in DSSeries : r[1] = "ds" /\ r[2] # "_promo"
    BY SMTT(60) DEF DSSeries
  <1>5. \A r \in DSLargeSeries : r[1] = "ds" /\ r[2] # "_promo"
    BY SMTT(60) DEF DSLargeSeries
  <1>6. \A r \in DSPromoSeries : r[1] = "ds" /\ r[2] # "_promo"
    BY <1>4, <1>5 DEF DSPromoSeries
  <1>7. \A r \in NPSeries : r[1] = "np" /\ r[2] # "_promo"
    BY SMTT(60) DEF NPSeries
  <1> QED
    BY <1>1, <1>2, <1>3, <1>4, <1>5, <1>6, <1>7

\* The rows of the three families that have no GPU, and the others.
LEMMA NvidiaFamilies ==
    /\ \A r \in NCSeries : r[2] # "_promo" /\ r[5] > 0
    /\ \A r \in NDSeries :
          /\ r[2] # "_promo"
          /\ r[5] > 0 \/ r[1] = "ng" \/ r[2] = "96is_mi300x_v5"
    /\ \A r \in NVSeries :
          /\ r[2] # "_promo"
          /\ r[5] > 0 \/ r[2] \in {"12ads_v710_v5", "24ads_v710_v5", "28adms_v710_v5",
                                   "4ads_v710_v5", "8ads_v710_v5"}
  <1>1. \A r \in NCSeries : r[2] # "_promo" /\ r[5] > 0
    BY SMTT(60) DEF NCSeries
  <1>2. \A r \in NDSeries :
           /\ r[2] # "_promo"
           /\ r[5] > 0 \/ r[1] = "ng" \/ r[2] = "96is_mi300x_v5"
    BY SMTT(60) DEF NDSeries
  <1>3. \A r \in NVSeries :
           /\ r[2] # "_promo"
           /\ r[5] > 0 \/ r[2] \in {"12ads_v710_v5", "24ads_v710_v5", "28adms_v710_v5",
                                    "4ads_v710_v5", "8ads_v710_v5"}
    BY SMTT(60) DEF NVSeries
  <1> QED
    BY <1>1, <1>2, <1>3

\* The names of these are not on Nvidia's list.
LEMMA NotNvidia ==
    ASSUME NEW a, NEW b, <<a, b>> \in NvidiaEnabledSKUs
    PROVE  /\ a \in {"nc", "nd", "nv"}
           /\ b \notin {"96is_mi300x_v5", "12ads_v710_v5", "24ads_v710_v5", "28adms_v710_v5",
                        "4ads_v710_v5", "8ads_v710_v5"}
  BY SMTT(60) DEF NvidiaEnabledSKUs

\* Of the static list: where Nvidia's drivers are wanted there is a GPU.
LEMMA StaticGPUs ==
    ASSUME NEW row \in StaticList, isNvidiaEnabledSKU(row.sku)
    PROVE  row.GPU > 0
  <1> DEFINE Rows == ASeries \cup BSeries \cup BLargeSeries \cup DSSeries \cup DSLargeSeries
                     \cup NCSeries \cup NDSeries \cup NPSeries \cup NVSeries
  <1>1. ASSUME NEW r \in Rows, row = Row(<<r[1], r[2]>>, r) PROVE row.GPU > 0
    <2>1. row.sku = <<r[1], r[2]>> /\ row.GPU = r[5]
      BY <1>1 DEF Row
    <2>2. r[2] # "_promo"
      BY OtherFamilies, NvidiaFamilies
    <2>3. <<r[1], r[2]>> \in NvidiaEnabledSKUs
      BY <2>1, <2>2, OrdinaryNames DEF isNvidiaEnabledSKU
    <2>4. /\ r[1] \in {"nc", "nd", "nv"}
          /\ r[2] \notin {"96is_mi300x_v5", "12ads_v710_v5", "24ads_v710_v5",
                          "28adms_v710_v5", "4ads_v710_v5", "8ads_v710_v5"}
      BY <2>3, NotNvidia
    <2> QED
      BY <2>1, <2>4, OtherFamilies, NvidiaFamilies
  <1>2. ASSUME NEW r \in DSPromoSeries, row = Row(<<r[1], r[2], "_promo">>, r) PROVE FALSE
    <2>1. row.sku = <<r[1], r[2], "_promo">>
      BY <1>2 DEF Row
    <2>2. <<r[1], r[2]>> \in NvidiaEnabledSKUs
      BY <2>1, OrdinaryNames DEF isNvidiaEnabledSKU
    <2> QED
      BY <2>2, NotNvidia, OtherFamilies
  <1> HIDE DEF Rows
  <1>3. \/ \E r \in Rows : row = Row(<<r[1], r[2]>>, r)
        \/ \E r \in DSPromoSeries : row = Row(<<r[1], r[2], "_promo">>, r)
    BY DEF StaticList, Rows
  <1> QED
    BY <1>1, <1>2, <1>3

\* Whichever way a size is looked up: where Nvidia's drivers are wanted there is a GPU, if
\* the API counts them.
LEMMA LookUpGPUs ==
    ASSUME NEW sku, isNvidiaEnabledSKU(sku), NEW dynamic, NEW api,
           \A c \in api : isNvidiaEnabledSKU(c.sku) => c.GPUs > 0,
           NEW type \in InstanceTypeOf(sku, dynamic, api)
    PROVE  type.GPU > 0
  <1> DEFINE plain == WithoutPromo(sku)
  <1>1. plain \in NvidiaEnabledSKUs
    BY DEF isNvidiaEnabledSKU
  <1>2. isNvidiaEnabledSKU(plain)
    <2> HIDE DEF plain
    <2>1. PICK a, b : plain = <<a, b>> /\ b # "_promo"
      BY <1>1, NvidiaNames
    <2>2. WithoutPromo(plain) = plain
      BY <2>1, OrdinaryNames
    <2> QED
      BY <1>1, <2>2 DEF isNvidiaEnabledSKU
  <1>3. CASE type \in GetInstanceTypeStatically(sku)
    <2>1. type \in StaticList /\ type.sku \in {sku, plain}
      BY <1>3 DEF GetInstanceTypeStatically, Find
    <2> QED
      BY <1>2, <2>1, StaticGPUs
  <1>4. CASE type \in GetInstanceTypeDynamically(sku, api)
    <2>1. PICK c \in Capabilities(sku, api) : type = DynamicType(c)
      BY <1>4 DEF GetInstanceTypeDynamically
    <2>2. c \in api /\ c.sku \in {sku, plain}
      BY DEF Capabilities, Find
    <2>3. c.GPUs > 0
      BY <1>2, <2>2
    <2>4. c.GPUs # Missing
      BY <2>3 DEF Missing
    <2> QED
      BY <2>1, <2>3, <2>4 DEF DynamicType, getGpuFromSku
  <1> QED
    BY <1>3, <1>4 DEF InstanceTypeOf

\* FPGAs and Nvidia's GPUs are in different families.
LEMMA NvidiaNotNP ==
    ASSUME NEW S, NEW sku \in Seq(S), isNvidiaEnabledSKU(sku)
    PROVE  ~isNPSeries(sku)
  <1>1. WithoutPromo(sku) \in NvidiaEnabledSKUs
    BY DEF isNvidiaEnabledSKU
  <1>2. WithoutPromo(sku)[1] \in {"nc", "nd", "nv"} /\ Len(WithoutPromo(sku)) = 2
    BY <1>1, NvidiaNames
  <1>3. WithoutPromo(sku)[1] = sku[1]
    <2>1. CASE sku # <<>> /\ sku[Len(sku)] = "_promo"
      <3>1. WithoutPromo(sku) = SubSeq(sku, 1, Len(sku) - 1)
        BY <2>1 DEF WithoutPromo
      <3> QED
        BY <1>2, <3>1
    <2> QED
      BY <2>1 DEF WithoutPromo
  <1> QED
    BY <1>2, <1>3 DEF isNPSeries

-----------------------------------------------------------------------------
(* Nodes.                                                                  *)

\* One map over another.
LEMMA Overlaid ==
    ASSUME NEW f, NEW g
    PROVE  /\ DOMAIN (f ++ g) = DOMAIN f \cup DOMAIN g
           /\ \A x \in DOMAIN f : (f ++ g)[x] = f[x]
           /\ \A x \in DOMAIN g : x \notin DOMAIN f => (f ++ g)[x] = g[x]
  BY DEF ++

\* No map.
LEMMA NoMap == DOMAIN <<>> = {}
  OBVIOUS

\* The labels of a scale set's node, by what overrides what.
ScaleSetLabels(vmss, arch, zone, predict) ==
    LET template == buildNodeTemplateFromVMSS(vmss)
    IN  (IF predict THEN PredictedLabels(template) ELSE <<>>)
        ++ extractLabelsFromTags(vmss.tags)
        ++ buildGenericLabels(template, arch, zone)
        ++ [name \in DOMAIN vmss.tags |-> vmss.tags[name].text]

\* Its capacity.
ScaleSetCapacity(vmss, type) ==
    extractAllocatableResourcesFromScaleSet(vmss.tags)
    ++ (IF vmss.disk.kind # "none" /\ vmss.disk.size > 0
        THEN Each({<<"ephemeral-storage">>}, vmss.disk.size) ELSE <<>>)
    ++ Capacity(type, vmss.sku)

\* The node of a scale set, for some zone and what is known of its size.
LEMMA ScaleSetNode ==
    ASSUME NEW vmss, NEW dynamic, NEW predict, NEW api,
           NEW node \in buildNodeFromTemplate(buildNodeTemplateFromVMSS(vmss), dynamic,
                                              predict, api)
    PROVE  \E type \in InstanceTypeOf(vmss.sku, dynamic, api) : \E zone :
              /\ node.labels = ScaleSetLabels(vmss, type.Architecture, zone, predict)
              /\ node.capacity = ScaleSetCapacity(vmss, type)
              /\ node.taints = extractTaintsFromTags(vmss.tags)
  <1> DEFINE template == buildNodeTemplateFromVMSS(vmss)
  <1>1. /\ template.kind = "vmss" /\ template.sku = vmss.sku /\ template.disk = vmss.disk
        /\ template.tags = vmss.tags
    BY DEF buildNodeTemplateFromVMSS
  <1> HIDE DEF template
  <1>2. PICK type \in InstanceTypeOf(vmss.sku, dynamic, api), zone \in Zones(template) :
           node = processVMSSTemplate(template, PlainNode(template, type, zone), predict)
    <2>1. node \in buildNodeFromTemplate(template, dynamic, predict, api)
      BY DEF template
    <2> QED
      BY <1>1, <2>1 DEF buildNodeFromTemplate
  <1>3. /\ node.labels = (IF predict THEN PredictedLabels(template) ELSE <<>>)
                         ++ extractLabelsFromTags(template.tags)
                         ++ buildGenericLabels(template, type.Architecture, zone)
                         ++ [name \in DOMAIN template.tags |-> template.tags[name].text]
        /\ node.capacity = extractAllocatableResourcesFromScaleSet(template.tags)
                           ++ (IF template.disk.kind # "none" /\ template.disk.size > 0
                               THEN Each({<<"ephemeral-storage">>}, template.disk.size)
                               ELSE <<>>)
                           ++ Capacity(type, template.sku)
        /\ node.taints = extractTaintsFromTags(template.tags)
    BY <1>2 DEF processVMSSTemplate, PlainNode
  <1> QED
    BY <1>1, <1>3 DEF ScaleSetLabels, ScaleSetCapacity, template

\* Every node has a label for its accelerator only where the size has Nvidia's drivers.
LEMMA PredictedAccelerator ==
    ASSUME NEW template, AKS("accelerator") \in DOMAIN PredictedLabels(template)
    PROVE  isNvidiaEnabledSKU(template.sku)
  <1> DEFINE key == AKS("accelerator")
  <1>1. /\ key \notin {<<"agentpool">>, AKS("agentpool")}
        /\ key \notin {<<"storageprofile">>, AKS("storageprofile")}
        /\ key \notin {<<"storagetier">>, AKS("storagetier")}
    BY DEF AKS
  <1>2. \A label, text : DOMAIN Both(label, text) = {<<label>>, AKS(label)}
    BY DEF Both, Each
  <1>3. DOMAIN PredictedLabels(template)
        \subseteq {<<"agentpool">>, AKS("agentpool")}
                  \cup {<<"storageprofile">>, AKS("storageprofile")}
                  \cup {<<"storagetier">>, AKS("storagetier")}
                  \cup (IF isNvidiaEnabledSKU(template.sku)
                        THEN {<<"accelerator">>, AKS("accelerator")} ELSE {})
    <2> DEFINE a == IF PoolName(template.tags) # <<>>
                    THEN Both("agentpool", PoolName(template.tags)) ELSE <<>>
               b == IF template.disk.kind # "none"
                    THEN Both("storageprofile", <<template.disk.kind>>) ELSE <<>>
               c == IF template.disk.kind # "none" /\ template.disk.tier # <<>>
                    THEN Both("storagetier", template.disk.tier) ELSE <<>>
               d == IF isNvidiaEnabledSKU(template.sku)
                    THEN Both("accelerator", <<"nvidia">>) ELSE <<>>
    <2>1. /\ DOMAIN a \subseteq {<<"agentpool">>, AKS("agentpool")}
          /\ DOMAIN b \subseteq {<<"storageprofile">>, AKS("storageprofile")}
          /\ DOMAIN c \subseteq {<<"storagetier">>, AKS("storagetier")}
          /\ DOMAIN d = IF isNvidiaEnabledSKU(template.sku)
                        THEN {<<"accelerator">>, AKS("accelerator")} ELSE {}
      BY <1>2, NoMap
    <2>2. PredictedLabels(template) = a ++ b ++ c ++ d
      BY DEF PredictedLabels
    <2> HIDE DEF a, b, c, d
    <2>3. DOMAIN (a ++ b ++ c ++ d) = DOMAIN a \cup DOMAIN b \cup DOMAIN c \cup DOMAIN d
      BY DEF ++
    <2> QED
      BY <2>1, <2>2, <2>3
  <1> QED
    BY <1>1, <1>3

\* The generic labels are about other things.
LEMMA GenericNames ==
    ASSUME NEW template, NEW arch, NEW zone
    PROVE  \A label : AKS(label) \notin DOMAIN buildGenericLabels(template, arch, zone)
  <1> DEFINE Heads == {"beta.kubernetes.io", "kubernetes.io", "node.kubernetes.io",
                       "failure-domain.beta.kubernetes.io", "topology.kubernetes.io",
                       "topology.disk.csi.azure.com"}
  <1>1. \A key \in DOMAIN buildGenericLabels(template, arch, zone) : key[1] \in Heads
    <2> DEFINE a == Each({<<"beta.kubernetes.io", "/", "arch">>,
                          <<"kubernetes.io", "/", "arch">>}, <<arch>>)
               b == Each({<<"beta.kubernetes.io", "/", "os">>,
                          <<"kubernetes.io", "/", "os">>}, <<template.os>>)
               c == Each({<<"beta.kubernetes.io", "/", "instance-type">>,
                          <<"node.kubernetes.io", "/", "instance-type">>}, template.sku)
               d == Each({<<"failure-domain.beta.kubernetes.io", "/", "region">>,
                          <<"topology.kubernetes.io", "/", "region">>},
                         <<template.location>>)
               e == Each({<<"failure-domain.beta.kubernetes.io", "/", "zone">>,
                          <<"topology.kubernetes.io", "/", "zone">>}, zone.topology)
               f == Each({<<"topology.disk.csi.azure.com", "/", "zone">>}, zone.disk)
    <2>1. /\ \A key \in DOMAIN a : key[1] \in Heads
          /\ \A key \in DOMAIN b : key[1] \in Heads
          /\ \A key \in DOMAIN c : key[1] \in Heads
      BY DEF Each
    <2>2. /\ \A key \in DOMAIN d : key[1] \in Heads
          /\ \A key \in DOMAIN e : key[1] \in Heads
          /\ \A key \in DOMAIN f : key[1] \in Heads
      BY DEF Each
    <2>3. buildGenericLabels(template, arch, zone) = a ++ b ++ c ++ d ++ e ++ f
      BY DEF buildGenericLabels
    <2> HIDE DEF a, b, c, d, e, f, Heads
    <2>4. DOMAIN (a ++ b ++ c ++ d ++ e ++ f)
             = DOMAIN a \cup DOMAIN b \cup DOMAIN c \cup DOMAIN d \cup DOMAIN e \cup DOMAIN f
      BY DEF ++
    <2> QED
      BY <2>1, <2>2, <2>3, <2>4
  <1>2. \A label : AKS(label)[1] = "kubernetes.azure.com"
    BY DEF AKS
  <1>3. "kubernetes.azure.com" \notin Heads
    OBVIOUS
  <1> QED
    BY <1>1, <1>2, <1>3

\* What the size says of GPUs is said of Nvidia's, but for the NP series.
LEMMA CapacityGPUs ==
    ASSUME NEW type, NEW sku, ~isNPSeries(sku)
    PROVE  /\ DOMAIN Capacity(type, sku) = {<<"pods">>, <<"cpu">>, <<"memory">>, Nvidia}
           /\ Capacity(type, sku)[Nvidia] = type.GPU
  <1>1. Nvidia \notin {<<"pods">>, <<"cpu">>, <<"memory">>}
    BY DEF Nvidia
  <1>2. Capacity(type, sku) = Each({<<"pods">>}, 110) ++ Each({<<"cpu">>}, type.VCPU)
                              ++ Each({<<"memory">>}, type.MemoryMb) ++ Each({Nvidia}, type.GPU)
    BY DEF Capacity
  <1> QED
    BY <1>1, <1>2 DEF Each, ++

\* A scale set's node with the label of Nvidia's accelerators has one.  No tag may stand
\* for the label, or say that there is none; and the API has to count them.
LEMMA ScaleSetAccelerator ==
    ASSUME NEW vmss, NEW S, vmss.sku \in Seq(S), NEW dynamic, NEW predict, NEW api,
           NEW node \in buildNodeFromTemplate(buildNodeTemplateFromVMSS(vmss), dynamic,
                                              predict, api),
           \A c \in api : isNvidiaEnabledSKU(c.sku) => c.GPUs > 0,
           AKS("accelerator") \notin DOMAIN vmss.tags,
           AKS("accelerator") \notin DOMAIN extractLabelsFromTags(vmss.tags),
           Nvidia \in DOMAIN extractAllocatableResourcesFromScaleSet(vmss.tags) =>
              extractAllocatableResourcesFromScaleSet(vmss.tags)[Nvidia] > 0,
           AKS("accelerator") \in DOMAIN node.labels
    PROVE  Nvidia \in DOMAIN node.capacity /\ node.capacity[Nvidia] > 0
  <1> DEFINE key      == AKS("accelerator")
             template == buildNodeTemplateFromVMSS(vmss)
             told     == extractAllocatableResourcesFromScaleSet(vmss.tags)
             disk     == IF vmss.disk.kind # "none" /\ vmss.disk.size > 0
                         THEN Each({<<"ephemeral-storage">>}, vmss.disk.size) ELSE <<>>
  <1>0. PICK type \in InstanceTypeOf(vmss.sku, dynamic, api) : \E zone :
           /\ node.labels = ScaleSetLabels(vmss, type.Architecture, zone, predict)
           /\ node.capacity = ScaleSetCapacity(vmss, type)
    BY ScaleSetNode
  <1>1. PICK zone :
           /\ node.labels = ScaleSetLabels(vmss, type.Architecture, zone, predict)
           /\ node.capacity = ScaleSetCapacity(vmss, type)
    BY <1>0
  <1>2. isNvidiaEnabledSKU(vmss.sku)
    <2> DEFINE predicted == IF predict THEN PredictedLabels(template) ELSE <<>>
               fromTags  == extractLabelsFromTags(vmss.tags)
               generic   == buildGenericLabels(template, type.Architecture, zone)
               raw       == [name \in DOMAIN vmss.tags |-> vmss.tags[name].text]
    <2>1. node.labels = predicted ++ fromTags ++ generic ++ raw
      BY <1>1 DEF ScaleSetLabels
    <2>2. key \notin DOMAIN generic /\ key \notin DOMAIN fromTags /\ key \notin DOMAIN raw
      BY GenericNames
    <2> HIDE DEF predicted, fromTags, generic, raw, key
    <2>3. key \in DOMAIN predicted
      <3>1. key \in DOMAIN (predicted ++ fromTags ++ generic ++ raw)
        BY <2>1 DEF key
      <3> QED
        BY <2>2, <3>1 DEF ++
    <2>4. key \in DOMAIN PredictedLabels(template)
      BY <2>3, NoMap DEF predicted
    <2> QED
      BY <2>4, PredictedAccelerator DEF key, buildNodeTemplateFromVMSS
  <1>3. type.GPU > 0
    BY <1>2, LookUpGPUs
  <1>4. /\ Nvidia \in DOMAIN Capacity(type, vmss.sku)
        /\ Capacity(type, vmss.sku)[Nvidia] = type.GPU
    BY <1>2, NvidiaNotNP, CapacityGPUs
  <1>5. Nvidia \notin DOMAIN disk
    BY NoMap DEF Each, Nvidia
  <1>6. node.capacity = told ++ disk ++ Capacity(type, vmss.sku)
    BY <1>1 DEF ScaleSetCapacity
  <1> HIDE DEF told, disk
  <1>7. /\ Nvidia \in DOMAIN (told ++ disk ++ Capacity(type, vmss.sku))
        /\ (told ++ disk ++ Capacity(type, vmss.sku))[Nvidia]
           = IF Nvidia \in DOMAIN told THEN told[Nvidia] ELSE Capacity(type, vmss.sku)[Nvidia]
    BY <1>4, <1>5 DEF ++
  <1> QED
    BY <1>3, <1>4, <1>6, <1>7 DEF told

\* A node has the capacity of its size, where no tag says otherwise.
LEMMA CapacityKept ==
    ASSUME NEW vmss, NEW type,
           DOMAIN extractAllocatableResourcesFromScaleSet(vmss.tags) \cap SizeResources = {}
    PROVE  \A resource \in DOMAIN Capacity(type, vmss.sku) :
              ScaleSetCapacity(vmss, type)[resource] = Capacity(type, vmss.sku)[resource]
  <1> DEFINE told == extractAllocatableResourcesFromScaleSet(vmss.tags)
             disk == IF vmss.disk.kind # "none" /\ vmss.disk.size > 0
                     THEN Each({<<"ephemeral-storage">>}, vmss.disk.size) ELSE <<>>
             size == Capacity(type, vmss.sku)
  <1>1. DOMAIN size \subseteq SizeResources
    <2>1. (IF isNPSeries(vmss.sku) THEN Xilinx ELSE Nvidia) \in {Nvidia, Xilinx}
      OBVIOUS
    <2> QED
      BY <2>1 DEF Capacity, Each, ++, SizeResources
  <1>2. DOMAIN disk \cap SizeResources = {}
    BY NoMap DEF Each, SizeResources, Nvidia, Xilinx
  <1>3. ScaleSetCapacity(vmss, type) = told ++ disk ++ size
    BY DEF ScaleSetCapacity
  <1> HIDE DEF told, disk, size
  <1>4. \A resource \in DOMAIN size : (told ++ disk ++ size)[resource] = size[resource]
    <2>1. DOMAIN told \cap SizeResources = {}
      BY DEF told
    <2> QED
      BY <1>1, <1>2, <2>1 DEF ++
  <1> QED
    BY <1>3, <1>4 DEF size

\* Whether or not the API is looked up, a node has what the list says of its size, or what
\* the generator would write, if the list was generated from that API.
LEMMA ScaleSetSize ==
    ASSUME NEW vmss, NEW dynamic, NEW predict, NEW api,
           NEW node \in buildNodeFromTemplate(buildNodeTemplateFromVMSS(vmss), dynamic,
                                              predict, api),
           DOMAIN extractAllocatableResourcesFromScaleSet(vmss.tags) \cap SizeResources = {},
           \A c \in api, row \in StaticList :
              SameSize(c.sku, row.sku) /\ Missing \notin {c.vCPUs, c.MemoryMB} =>
                 /\ row.VCPU = GeneratedRow(c).VCPU /\ row.GPU = GeneratedRow(c).GPU
                 /\ row.MemoryMb = GeneratedRow(c).MemoryMb
    PROVE  LET known == GetInstanceTypeStatically(vmss.sku)
               rows  == IF known # {} THEN known
                        ELSE {GeneratedRow(c) : c \in Capabilities(vmss.sku, api)}
           IN  \E type \in rows :
                  \A resource \in DOMAIN Capacity(type, vmss.sku) :
                     node.capacity[resource] = Capacity(type, vmss.sku)[resource]
  <1> DEFINE known == GetInstanceTypeStatically(vmss.sku)
             rows  == IF known # {} THEN known
                      ELSE {GeneratedRow(c) : c \in Capabilities(vmss.sku, api)}
  <1>1. PICK type \in InstanceTypeOf(vmss.sku, dynamic, api) :
           node.capacity = ScaleSetCapacity(vmss, type)
    BY ScaleSetNode
  <1>2. \A resource \in DOMAIN Capacity(type, vmss.sku) :
           node.capacity[resource] = Capacity(type, vmss.sku)[resource]
    BY <1>1, CapacityKept
  <1>3. \E row \in rows : Capacity(row, vmss.sku) = Capacity(type, vmss.sku)
    <2>1. CASE type \in known
      BY <2>1
    <2>2. CASE type \in GetInstanceTypeDynamically(vmss.sku, api)
      <3>1. PICK c \in Capabilities(vmss.sku, api) : type = DynamicType(c)
        BY <2>2 DEF GetInstanceTypeDynamically
      <3>2. /\ c \in api /\ Missing \notin {c.vCPUs, c.MemoryMB}
            /\ c.sku = vmss.sku \/ c.sku = WithoutPromo(vmss.sku)
        BY DEF Capabilities, Find
      <3>3. /\ type.VCPU = GeneratedRow(c).VCPU /\ type.GPU = GeneratedRow(c).GPU
            /\ type.MemoryMb = GeneratedRow(c).MemoryMb
        BY <3>1, <3>2 DEF DynamicType, GeneratedRow, getGpuFromSku
      <3>4. CASE known = {}
        BY <3>3, <3>4 DEF Capacity
      <3>5. ASSUME NEW row \in known PROVE <1>3
        <4>1. row \in StaticList /\ (row.sku = vmss.sku \/ row.sku = WithoutPromo(vmss.sku))
          BY <3>5 DEF GetInstanceTypeStatically, Find
        <4>2. SameSize(c.sku, row.sku)
          BY <3>2, <4>1 DEF SameSize
        <4>3. /\ row.VCPU = type.VCPU /\ row.GPU = type.GPU /\ row.MemoryMb = type.MemoryMb
          BY <3>2, <3>3, <4>1, <4>2
        <4> QED
          BY <3>5, <4>3 DEF Capacity
      <3> QED
        BY <3>4, <3>5
    <2> QED
      BY <2>1, <2>2 DEF InstanceTypeOf
  <1> QED
    BY <1>2, <1>3

-----------------------------------------------------------------------------
(* Names and texts in tags.                                                *)

\* A name is what it is encoded from, unless the escape is in it.
LEMMA DecodedEncoded ==
    ASSUME NEW S, NEW name \in Seq(S), Unescaped(name)
    PROVE  Decoded(Encoded(name)) = name
  <1> DEFINE n == Len(name)
  <1>1. n \in Nat /\ DOMAIN name = 1..n /\ name = [i \in 1..n |-> name[i]]
    OBVIOUS
  <1>2. /\ DOMAIN Decoded(Encoded(name)) = DOMAIN name
        /\ \A i \in DOMAIN name : Decoded(Encoded(name))[i] = name[i]
    BY DEF Decoded, Encoded, Replace, Unescaped
  <1>3. Decoded(Encoded(name)) = [i \in DOMAIN name |-> Decoded(Encoded(name))[i]]
    BY DEF Decoded, Encoded, Replace
  <1> QED
    BY <1>1, <1>2, <1>3

\* It is as long.
LEMMA EncodedElements ==
    ASSUME NEW S, NEW name \in Seq(S)
    PROVE  Encoded(name) \in Seq(S \cup {"~2", "_"}) /\ Len(Encoded(name)) = Len(name)
  <1> DEFINE n == Len(name)
             T == S \cup {"~2", "_"}
             val(i) == IF (IF name[i] = "_" THEN "~2" ELSE name[i]) = "/" THEN "_"
                       ELSE IF name[i] = "_" THEN "~2" ELSE name[i]
  <1>1. n \in Nat /\ DOMAIN name = 1..n /\ \A i \in 1..n : name[i] \in S
    OBVIOUS
  <1>2. Encoded(name) = [i \in 1..n |-> val(i)]
    BY <1>1 DEF Encoded, Replace
  <1>3. \A i \in 1..n : val(i) \in T
    BY <1>1
  <1> HIDE DEF val, T, n
  <1>4. [i \in 1..n |-> val(i)] \in [1..n -> T]
    BY <1>3
  <1>5. \A e \in [1..n -> T] : e \in Seq(T) /\ Len(e) = n
    BY <1>1
  <1> QED
    BY <1>2, <1>4, <1>5 DEF n, T

\* What stands behind the prefix of a tag.
LEMMA AfterPrefix ==
    ASSUME NEW S, NEW e \in Seq(S), NEW p \in S
    PROVE  /\ Contains(<<p>> \o e, p)
           /\ After(<<p>> \o e, p) = e
  <1> DEFINE t == <<p>> \o e
  <1>1. t \in Seq(S) /\ Len(t) = Len(e) + 1 /\ t[1] = p
        /\ \A i \in 1..Len(e) : t[i + 1] = e[i]
    OBVIOUS
  <1> HIDE DEF t
  <1>2. Contains(t, p)
    BY <1>1 DEF Contains
  <1>3. FirstIndex(t, p) = 1
    <2>1. 1 \in DOMAIN t /\ \A j \in 1..(1 - 1) : t[j] # p
      BY <1>1
    <2>2. \A i \in DOMAIN t : (\A j \in 1..(i - 1) : t[j] # p) => i = 1
      BY <1>1
    <2> QED
      BY <1>1, <2>1, <2>2 DEF FirstIndex
  <1>4. After(t, p) = SubSeq(t, 2, Len(t))
    BY <1>3 DEF After
  <1>5. SubSeq(t, 2, Len(t)) = e
    <2> DEFINE u == SubSeq(t, 2, Len(t))
    <2>1. u \in Seq(S) /\ Len(u) = Len(e) /\ \A i \in 1..Len(e) : u[i] = e[i]
      BY <1>1
    <2> HIDE DEF u
    <2>2. u = e
      BY <2>1
    <2> QED
      BY <2>2 DEF u
  <1> QED
    BY <1>2, <1>4, <1>5 DEF t

\* One sequence behind another.
LEMMA Concatenated ==
    ASSUME NEW S, NEW u \in Seq(S), NEW e \in Seq(S)
    PROVE  /\ u \o e \in Seq(S) /\ Len(u \o e) = Len(u) + Len(e)
           /\ \A i \in 1..Len(u) : (u \o e)[i] = u[i]
           /\ \A i \in 1..Len(e) : (u \o e)[Len(u) + i] = e[i]
  <1>1. Len(u) \in Nat /\ Len(e) \in Nat
    OBVIOUS
  <1>2. u \o e \in Seq(S) /\ Len(u \o e) = Len(u) + Len(e)
    OBVIOUS
  <1>3. \A i \in 1..Len(u) : (u \o e)[i] = u[i]
    OBVIOUS
  <1>4. ASSUME NEW i \in 1..Len(e) PROVE (u \o e)[Len(u) + i] = e[i]
    <2> DEFINE k == Len(u) + i
    <2>1. k \in 1..(Len(u) + Len(e)) /\ k > Len(u) /\ k - Len(u) = i
      BY <1>1
    <2> HIDE DEF k
    <2>2. (u \o e)[k] = e[k - Len(u)]
      BY <2>1
    <2> QED
      BY <2>1, <2>2 DEF k
  <1> QED
    BY <1>2, <1>3, <1>4

\* A text in two parts, at the first of its separators.
LEMMA TextParts ==
    ASSUME NEW S, NEW v \in Seq(S), NEW e \in Seq(S), NEW c \in S,
           \A i \in DOMAIN v : v[i] # c
    PROVE  LET t == v \o <<c>> \o e
           IN  /\ Before(t, c) = v /\ After(t, c) = e
               /\ Len(t) = Len(v) + 1 + Len(e) /\ DOMAIN t = 1..(Len(v) + 1 + Len(e))
               /\ t[Len(v) + 1] = c /\ \A i \in 1..Len(e) : t[Len(v) + 1 + i] = e[i]
  <1> DEFINE t == v \o <<c>> \o e
             n == Len(v)
  <1>1. n \in Nat /\ Len(e) \in Nat /\ DOMAIN v = 1..n
    OBVIOUS
  <1>2. /\ t \in Seq(S) /\ Len(t) = n + 1 + Len(e)
        /\ \A i \in 1..n : t[i] = v[i]
        /\ t[n + 1] = c
        /\ \A i \in 1..Len(e) : t[n + 1 + i] = e[i]
    <2> DEFINE u == v \o <<c>>
    <2>1. /\ u \in Seq(S) /\ Len(u) = n + 1 /\ \A i \in 1..n : u[i] = v[i]
          /\ u[n + 1] = c
      OBVIOUS
    <2> HIDE DEF u
    <2>2. /\ u \o e \in Seq(S) /\ Len(u \o e) = Len(u) + Len(e)
          /\ \A i \in 1..Len(u) : (u \o e)[i] = u[i]
          /\ \A i \in 1..Len(e) : (u \o e)[Len(u) + i] = e[i]
      <3> HIDE DEF t, n
      <3> QED
        <4>1. u \in Seq(S) /\ e \in Seq(S)
          BY <2>1
        <4> QED
          BY <4>1, Concatenated
    <2>3. u \o e = t
      BY DEF u
    <2> HIDE DEF t, n
    <2> QED
      BY <1>1, <2>1, <2>2, <2>3
  <1> HIDE DEF t
  <1>3. DOMAIN t = 1..(n + 1 + Len(e))
    BY <1>1, <1>2
  <1> HIDE DEF n
  <1>4. FirstIndex(t, c) = n + 1
    <2>1. n + 1 \in DOMAIN t /\ t[n + 1] = c /\ \A j \in 1..(n + 1 - 1) : t[j] # c
      BY <1>1, <1>2, <1>3
    <2>2. ASSUME NEW i \in DOMAIN t, t[i] = c, \A j \in 1..(i - 1) : t[j] # c
          PROVE  i = n + 1
      <3>1. i \in Nat /\ i >= 1
        BY <1>1, <1>3
      <3>2. CASE i <= n
        <4>1. t[i] = v[i] /\ i \in DOMAIN v
          BY <1>1, <1>2, <3>1, <3>2
        <4> QED
          BY <2>2, <4>1
      <3>3. CASE i > n + 1
        <4>1. n + 1 \in 1..(i - 1)
          BY <1>1, <3>1, <3>3
        <4> QED
          BY <1>2, <2>2, <4>1
      <3> QED
        BY <1>1, <3>1, <3>2, <3>3
    <2> QED
      BY <2>1, <2>2 DEF FirstIndex
  <1>5. SubSeq(t, 1, n) = v
    <2> DEFINE w == SubSeq(t, 1, n)
    <2>1. w \in Seq(S) /\ Len(w) = n /\ \A i \in 1..n : w[i] = t[i]
      BY <1>1, <1>2
    <2> HIDE DEF w
    <2>2. w = v
      BY <1>1, <1>2, <2>1 DEF n
    <2> QED
      BY <2>2 DEF w
  <1>6. SubSeq(t, n + 2, Len(t)) = e
    <2> DEFINE w == SubSeq(t, n + 2, Len(t))
    <2>1. w \in Seq(S) /\ Len(w) = Len(e) /\ \A i \in 1..Len(e) : w[i] = t[n + 1 + i]
      BY <1>1, <1>2
    <2> HIDE DEF w
    <2>2. \A i \in 1..Len(e) : w[i] = e[i]
      BY <1>2, <2>1
    <2>3. w = e
      BY <2>1, <2>2
    <2> QED
      BY <2>3 DEF w
  <1>7. Before(t, c) = v /\ After(t, c) = e
    <2>1. FirstIndex(t, c) - 1 = n /\ FirstIndex(t, c) + 1 = n + 2
      BY <1>1, <1>4
    <2> QED
      BY <1>5, <1>6, <2>1 DEF Before, After
  <1> QED
    BY <1>2, <1>3, <1>7 DEF t, n

\* An encoded name behind its prefix, decoded.
LEMMA PrefixedName ==
    ASSUME NEW S, NEW name \in Seq(S), NEW prefix
    PROVE  /\ Contains(<<prefix>> \o Encoded(name), prefix)
           /\ After(<<prefix>> \o Encoded(name), prefix) = Encoded(name)
           /\ Unescaped(name) => Decoded(After(<<prefix>> \o Encoded(name), prefix)) = name
           /\ name # <<>> => After(<<prefix>> \o Encoded(name), prefix) # <<>>
  <1> DEFINE T == S \cup {"~2", "_"} \cup {prefix}
  <1>1. Encoded(name) \in Seq(S \cup {"~2", "_"}) /\ Len(Encoded(name)) = Len(name)
    BY EncodedElements
  <1>2. Encoded(name) \in Seq(T) /\ prefix \in T
    <2>1. \A A, B, e : e \in Seq(A) => e \in Seq(A \cup B)
      OBVIOUS
    <2> QED
      BY <1>1, <2>1
  <1> HIDE DEF T
  <1>3. /\ Contains(<<prefix>> \o Encoded(name), prefix)
        /\ After(<<prefix>> \o Encoded(name), prefix) = Encoded(name)
    BY <1>2, AfterPrefix
  <1>4. Unescaped(name) => Decoded(Encoded(name)) = name
    BY DecodedEncoded
  <1>5. ASSUME name # <<>> PROVE Encoded(name) # <<>>
    <2>1. Len(name) # 0
      BY <1>5
    <2>2. Len(<<>>) = 0
      OBVIOUS
    <2> QED
      BY <1>1, <2>1, <2>2
  <1> QED
    BY <1>3, <1>4, <1>5

\* A label is extracted from its tag as it was meant.
LEMMA LabelExtracted ==
    ASSUME NEW S, NEW tags, NEW label \in Seq(S), NEW text, LabelTagged(tags, label, text)
    PROVE  /\ label \in DOMAIN extractLabelsFromTags(tags)
           /\ extractLabelsFromTags(tags)[label] = text
  <1> DEFINE tag   == <<LabelTag>> \o Encoded(label)
             names == TagsFor(tags, LabelTag)
  <1>1. /\ tag \in DOMAIN tags /\ tags[tag].text = text
        /\ \A n \in names : Decoded(After(n, LabelTag)) = label => n = tag
    BY DEF LabelTagged
  <1>2. /\ Contains(tag, LabelTag) /\ After(tag, LabelTag) # <<>>
        /\ Decoded(After(tag, LabelTag)) = label
    BY PrefixedName DEF LabelTagged
  <1>3. tag \in names
    BY <1>1, <1>2 DEF TagsFor
  <1> HIDE DEF tag
  <1>4. (CHOOSE n \in names : Decoded(After(n, LabelTag)) = label) = tag
    BY <1>1, <1>2, <1>3
  <1>5. extractLabelsFromTags(tags)
        = [l \in {Decoded(After(n, LabelTag)) : n \in names} |->
              tags[CHOOSE n \in names : Decoded(After(n, LabelTag)) = l].text]
    BY DEF extractLabelsFromTags
  <1> HIDE DEF names
  <1>6. label \in {Decoded(After(n, LabelTag)) : n \in names}
    BY <1>2, <1>3
  <1> QED
    BY <1>1, <1>4, <1>5, <1>6

\* A taint is extracted from its tag as it was meant.
LEMMA TaintExtracted ==
    ASSUME NEW S, NEW tags, NEW taint \in [key : Seq(S), value : Seq(S), effect : Seq(S)],
           TaintTagged(tags, taint)
    PROVE  taint \in extractTaintsFromTags(tags)
  <1> DEFINE tag  == <<TaintTag>> \o Encoded(taint.key)
             text == taint.value \o <<":">> \o taint.effect
             T    == S \cup {":"}
             n    == Len(taint.value)
  <1>1. /\ tag \in DOMAIN tags /\ tags[tag].text = text
        /\ Len(taint.effect) > 0 /\ taint.effect[1] \in Effects
    BY DEF TaintTagged
  <1>2. /\ Contains(tag, TaintTag) /\ Decoded(After(tag, TaintTag)) = taint.key
    BY PrefixedName DEF TaintTagged
  <1>3. /\ taint.value \in Seq(T) /\ taint.effect \in Seq(T) /\ ":" \in T
        /\ \A i \in DOMAIN taint.value : taint.value[i] # ":"
    <2>1. \A A, B, e : e \in Seq(A) => e \in Seq(A \cup B)
      OBVIOUS
    <2>2. taint.value \in Seq(S) /\ taint.effect \in Seq(S)
      OBVIOUS
    <2> QED
      BY <2>1, <2>2 DEF TaintTagged, Range
  <1> HIDE DEF T
  <1>4. /\ Before(text, ":") = taint.value /\ After(text, ":") = taint.effect
        /\ Len(text) = n + 1 + Len(taint.effect)
        /\ DOMAIN text = 1..(n + 1 + Len(taint.effect))
        /\ text[n + 1] = ":"
        /\ \A i \in 1..Len(taint.effect) : text[n + 1 + i] = taint.effect[i]
    BY <1>3, TextParts
  <1>5. n \in Nat /\ Len(taint.effect) \in Nat
    BY <1>3
  <1> HIDE DEF text, n, tag
  <1>6. IsTaintValue(text)
    <2>1. n + 1 \in DOMAIN text /\ n + 1 < Len(text)
      BY <1>1, <1>4, <1>5
    <2>2. text[n + 1 + 1] \in Effects
      BY <1>1, <1>4, <1>5
    <2> QED
      BY <1>4, <2>1, <2>2 DEF IsTaintValue
  <1>7. TaintOf(taint.key, text) = taint
    BY <1>4 DEF TaintOf
  <1> QED
    BY <1>1, <1>2, <1>6, <1>7 DEF extractTaintsFromTags

\* What is predicted are system labels.
LEMMA PredictedNames ==
    ASSUME NEW template
    PROVE  DOMAIN PredictedLabels(template) \subseteq SystemLabels
  <1> DEFINE pool    == IF PoolName(template.tags) # <<>>
                        THEN Both("agentpool", PoolName(template.tags)) ELSE <<>>
             profile == IF template.disk.kind # "none"
                        THEN Both("storageprofile", <<template.disk.kind>>) ELSE <<>>
             tier    == IF template.disk.kind # "none" /\ template.disk.tier # <<>>
                        THEN Both("storagetier", template.disk.tier) ELSE <<>>
             nvidia  == IF isNvidiaEnabledSKU(template.sku)
                        THEN Both("accelerator", <<"nvidia">>) ELSE <<>>
  <1>1. PredictedLabels(template) = pool ++ profile ++ tier ++ nvidia
    BY DEF PredictedLabels
  <1>2. \A label, text : DOMAIN Both(label, text) = {<<label>>, AKS(label)}
    BY DEF Both, Each
  <1>3. /\ DOMAIN pool \subseteq {<<"agentpool">>, AKS("agentpool")}
        /\ DOMAIN profile \subseteq {<<"storageprofile">>, AKS("storageprofile")}
        /\ DOMAIN tier \subseteq {<<"storagetier">>, AKS("storagetier")}
        /\ DOMAIN nvidia \subseteq {<<"accelerator">>, AKS("accelerator")}
    BY <1>2, NoMap
  <1>4. \A l \in {"agentpool", "storageprofile", "storagetier", "accelerator"} :
           {<<l>>, AKS(l)} \subseteq SystemLabels
    BY DEF SystemLabels
  <1> HIDE DEF pool, profile, tier, nvidia
  <1>5. DOMAIN PredictedLabels(template)
        = DOMAIN pool \cup DOMAIN profile \cup DOMAIN tier \cup DOMAIN nvidia
    BY <1>1 DEF ++
  <1> QED
    BY <1>3, <1>4, <1>5

\* The pool's name is predicted by both labels.
LEMMA PoolPredicted ==
    ASSUME NEW template, NEW text, PoolTagged(template.tags, text),
           NEW label \in {<<"agentpool">>, AKS("agentpool")}
    PROVE  /\ label \in DOMAIN PredictedLabels(template)
           /\ PredictedLabels(template)[label] = text
  <1>1. PoolName(template.tags) = text /\ text # <<>>
    BY DEF PoolTagged, PoolName
  <1>2. label \in DOMAIN Both("agentpool", text) /\ Both("agentpool", text)[label] = text
    BY DEF Both, Each
  <1> QED
    BY <1>1, <1>2 DEF PredictedLabels, ++

\* A node has a label, with this text.
Carries(node, label, text) == label \in DOMAIN node.labels /\ node.labels[label] = text

\* A scale set's node has the labels that are meant.
LEMMA ScaleSetLabelled ==
    ASSUME NEW vmss, NEW dynamic, NEW predict, NEW api,
           NEW node \in buildNodeFromTemplate(buildNodeTemplateFromVMSS(vmss), dynamic,
                                              predict, api),
           NEW label, NEW text, LabelMeant(vmss.tags, label, text, predict)
    PROVE  Carries(node, label, text)
  <1>1. PICK arch, zone : node.labels = ScaleSetLabels(vmss, arch, zone, predict)
    BY ScaleSetNode
  <1> DEFINE template  == buildNodeTemplateFromVMSS(vmss)
             predicted == IF predict THEN PredictedLabels(template) ELSE <<>>
             fromTags  == extractLabelsFromTags(vmss.tags)
             generic   == buildGenericLabels(template, arch, zone)
             raw       == [name \in DOMAIN vmss.tags |-> vmss.tags[name].text]
             S         == STRING
  <1>2. node.labels = predicted ++ fromTags ++ generic ++ raw
    BY <1>1 DEF ScaleSetLabels
  <1>3. template.tags = vmss.tags
    BY DEF buildNodeTemplateFromVMSS
  <1>4. CASE /\ label \in Seq(STRING) /\ label \notin SystemLabels
             /\ LabelTagged(vmss.tags, label, text)
    <2>1. label \notin DOMAIN predicted
      BY <1>4, PredictedNames, NoMap
    <2>2. label \in Seq(S)
      BY <1>4
    <2> HIDE DEF predicted, generic, raw, S
    <2>3. label \in DOMAIN fromTags /\ fromTags[label] = text
      BY <1>4, <2>2, LabelExtracted
    <2> HIDE DEF fromTags
    <2> QED
      BY <1>2, <2>1, <2>3 DEF ++, Carries
  <1>5. CASE /\ label \in {<<"agentpool">>, AKS("agentpool")} /\ predict
             /\ PoolTagged(vmss.tags, text)
    <2>1. label \in DOMAIN predicted /\ predicted[label] = text
      BY <1>3, <1>5, PoolPredicted
    <2> HIDE DEF predicted, fromTags, generic, raw
    <2> QED
      BY <1>2, <2>1 DEF ++, Carries
  <1> QED
    BY <1>4, <1>5 DEF LabelMeant

\* And the taints.
LEMMA ScaleSetTainted ==
    ASSUME NEW vmss, NEW dynamic, NEW predict, NEW api,
           NEW node \in buildNodeFromTemplate(buildNodeTemplateFromVMSS(vmss), dynamic,
                                              predict, api),
           NEW taint, TaintMeant(vmss.tags, taint)
    PROVE  taint \in node.taints
  <1> DEFINE S == STRING
  <1>1. /\ taint \in [key : Seq(S), value : Seq(S), effect : Seq(S)]
        /\ TaintTagged(vmss.tags, taint)
    BY DEF TaintMeant
  <1> HIDE DEF S
  <1>2. taint \in extractTaintsFromTags(vmss.tags)
    BY <1>1, TaintExtracted
  <1> QED
    BY <1>2, ScaleSetNode

\* The node of a VMs pool has the labels of the pool, its name and the generic ones: none
\* says that it has an accelerator, unless the operator does.
LEMMA PoolAccelerator ==
    ASSUME NEW pool, NEW location, NEW sku, NEW dynamic, NEW predict, NEW api,
           NEW node \in buildNodeFromTemplate(
                           buildNodeTemplateFromVMPool(pool, location, sku), dynamic, predict, api),
           AKS("accelerator") \notin DOMAIN pool.labels
    PROVE  AKS("accelerator") \notin DOMAIN node.labels
  <1> DEFINE template == buildNodeTemplateFromVMPool(pool, location, sku)
             key      == AKS("accelerator")
  <1>1. template.kind = "vms" /\ template.labels = pool.labels
    BY DEF buildNodeTemplateFromVMPool
  <1> HIDE DEF template
  <1>2. PICK type, zone : node = processVMPoolTemplate(template, PlainNode(template, type, zone))
    <2>1. "vms" # "vmss"
      OBVIOUS
    <2> QED
      BY <1>1, <2>1 DEF buildNodeFromTemplate, template
  <1>3. node.labels = template.labels ++ Each({AKS("agentpool")}, <<template.name>>)
                      ++ buildGenericLabels(template, type.Architecture, zone)
    BY <1>2 DEF processVMPoolTemplate, PlainNode
  <1>4. key \notin DOMAIN buildGenericLabels(template, type.Architecture, zone)
    BY GenericNames
  <1>5. key \notin DOMAIN Each({AKS("agentpool")}, <<template.name>>)
    BY DEF Each, AKS
  <1> HIDE DEF key
  <1>6. key \notin DOMAIN template.labels
    BY <1>1 DEF key
  <1>7. key \notin DOMAIN (template.labels ++ Each({AKS("agentpool")}, <<template.name>>)
                           ++ buildGenericLabels(template, type.Architecture, zone))
    BY <1>4, <1>5, <1>6 DEF ++
  <1> QED
    BY <1>3, <1>7 DEF key

==============================================================================
