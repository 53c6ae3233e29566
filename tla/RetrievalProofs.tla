--------------------------- MODULE RetrievalProofs ---------------------------
(***************************************************************************)
(* Proofs about Retrieval: an answer holds what the pool and the limits    *)
(* allow and starts with the best for its own query, and a fusion loses    *)
(* and repeats no chunk, never puts one before another that dominates it   *)
(* and never moves one down that a source moved up, for any chunks, lists, *)
(* relevances and limits.  At the end SearchCache, the cache of a search's *)
(* answers: it stays within its size with one entry for a query, and only  *)
(* a search that overlapped a delete, or a delete that met an ingestion,   *)
(* leaves a stale entry, for any number of searches, queries, scopes and   *)
(* documents.                                                              *)
(***************************************************************************)
EXTENDS Retrieval, SearchCache,
        FiniteSetTheorems, SequenceTheorems, WellFoundedInduction, TLAPS

(* A set of numbers that is not empty has a least one.                     *)
LEMMA Least ==
    ASSUME NEW S, S \subseteq Nat, S # {}
    PROVE  \E x \in S : \A y \in S : x <= y
<1>1. PICK x \in S : \A y \in S : ~ (<<y, x>> \in OpToRel(<, Nat))
  BY WFMin, NatLessThanWellFounded
<1>2. ASSUME NEW y \in S PROVE x <= y
  <2>1. ~(<<y, x>> \in {p \in Nat \X Nat : p[1] < p[2]})
    BY <1>1 DEF OpToRel
  <2> QED BY <2>1
<1> QED BY <1>2

(* f is what a loop of N passes goes through from `base`.                  *)
Passes(f, N, base, step) == f = [n \in 0..N |-> IF n = 0 THEN base ELSE step[<<n, f[n - 1]>>]]

(* What a loop goes through from `base`, where its n-th pass keeps I: the  *)
(* function exists, and I holds all along.                                 *)
LEMMA Loop ==
    ASSUME NEW N \in Nat, NEW I, NEW base \in I[0], NEW step,
           \A n \in 1..N : \A x \in I[n - 1] : step[<<n, x>>] \in I[n]
    PROVE  \E f : Passes(f, N, base, step) /\ \A n \in 0..N : f[n] \in I[n]
<1> USE DEF Passes
<1> DEFINE Upto(f, m) == Passes(f, m, base, step) /\ \A n \in 0..m : f[n] \in I[n]
           Bad == {m \in 0..N : ~\E f : Upto(f, m)}
<1>1. ASSUME Bad # {} PROVE FALSE
  <2>1. PICK m \in Bad : \A y \in Bad : m <= y
    <3>1. Bad \subseteq Nat
      OBVIOUS
    <3> HIDE DEF Bad
    <3> QED BY <1>1, <3>1, Least
  <2>2. m \in 0..N /\ ~\E f : Upto(f, m)
    OBVIOUS
  <2>3. CASE m = 0
    <3>1. Upto([n \in 0..0 |-> base], 0)
      OBVIOUS
    <3> QED BY <2>2, <2>3, <3>1
  <2>4. CASE m > 0
    <3>1. m - 1 \in 0..N /\ ~(m <= m - 1)
      BY <2>2, <2>4
    <3>2. PICK g : Upto(g, m - 1)
      BY <2>1, <3>1
    <3> DEFINE f == [n \in 0..m |-> IF n = m THEN step[<<m, g[m - 1]>>] ELSE g[n]]
    <3>3. f[m] = step[<<m, g[m - 1]>>] /\ \A n \in 0..(m - 1) : f[n] = g[n]
      BY <2>2, <2>4
    <3>4. ASSUME NEW n \in 0..m PROVE f[n] \in I[n]
      <4>1. CASE n = m
        <5>1. m \in 1..N /\ g[m - 1] \in I[m - 1]
          BY <2>2, <2>4, <3>2
        <5> QED BY <3>3, <4>1, <5>1
      <4>2. CASE n # m
        BY <2>2, <3>2, <3>3, <4>2
      <4> QED BY <4>1, <4>2
    <3>5. ASSUME NEW n \in 0..m PROVE f[n] = IF n = 0 THEN base ELSE step[<<n, f[n - 1]>>]
      <4>1. CASE n = m
        <5>1. m - 1 \in 0..(m - 1) /\ m # 0
          BY <2>2, <2>4
        <5> HIDE DEF f
        <5> QED BY <3>3, <4>1, <5>1
      <4>2. CASE n # m
        <5>1. n \in 0..(m - 1) /\ (n # 0 => n - 1 \in 0..(m - 1))
          BY <2>2, <4>2
        <5>2. g[n] = IF n = 0 THEN base ELSE step[<<n, g[n - 1]>>]
          BY <3>2, <5>1
        <5> QED BY <3>3, <5>1, <5>2
      <4> QED BY <4>1, <4>2
    <3>6. f = [n \in 0..m |-> IF n = 0 THEN base ELSE step[<<n, f[n - 1]>>]]
      <4> HIDE DEF f
      <4>1. f = [n \in 0..m |-> f[n]]
        BY DEF f
      <4> QED BY <3>5, <4>1
    <3> HIDE DEF f
    <3>7. Upto(f, m)
      BY <3>4, <3>6
    <3> QED BY <2>2, <3>7
  <2> QED BY <2>2, <2>3, <2>4
<1>2. N \in 0..N
  OBVIOUS
<1>3. \E f : Upto(f, N)
  BY <1>1, <1>2
<1> QED BY <1>3

(* What holds at first and is kept by every pass holds all along.          *)
LEMMA Kept ==
    ASSUME NEW N \in Nat, NEW I, NEW f, f[0] \in I[0],
           \A n \in 1..N : f[n - 1] \in I[n - 1] => f[n] \in I[n]
    PROVE  \A n \in 0..N : f[n] \in I[n]
<1> DEFINE Bad == {m \in 0..N : f[m] \notin I[m]}
<1>1. ASSUME Bad # {} PROVE FALSE
  <2>1. PICK m \in Bad : \A y \in Bad : m <= y
    <3>1. Bad \subseteq Nat
      OBVIOUS
    <3> HIDE DEF Bad
    <3> QED BY <1>1, <3>1, Least
  <2>2. m \in 0..N /\ f[m] \notin I[m] /\ m # 0
    OBVIOUS
  <2>3. m \in 1..N /\ m - 1 \in 0..N /\ ~(m <= m - 1)
    BY <2>2
  <2>4. f[m - 1] \in I[m - 1]
    BY <2>1, <2>3
  <2> QED BY <2>2, <2>3, <2>4
<1> QED BY <1>1
(* A strict order of S, and the place of an element: one more than those   *)
(* before it.                                                              *)
Orders(R, S) ==
    /\ \A a, b \in S : a # b => <<a, b>> \in R \/ <<b, a>> \in R
    /\ \A a \in S : <<a, a>> \notin R
    /\ \A a, b, c \in S : <<a, b>> \in R /\ <<b, c>> \in R => <<a, c>> \in R

(* How many stand before c, and c itself.                                  *)
Place(R, S) == [c \in S |-> Cardinality({d \in S : <<d, c>> \in R}) + 1]

(* In a strict order of a finite set each element has a place of its own,  *)
(* and no place is left free.                                              *)
LEMMA Places ==
    ASSUME NEW S, IsFiniteSet(S), NEW R, Orders(R, S)
    PROVE  /\ Place(R, S) \in [S -> 1..Cardinality(S)]
           /\ \A a, b \in S : <<a, b>> \in R => Place(R, S)[a] < Place(R, S)[b]
           /\ \A a, b \in S : Place(R, S)[a] = Place(R, S)[b] => a = b
           /\ \A p \in 1..Cardinality(S) : \E a \in S : Place(R, S)[a] = p
<1> USE DEF Orders
<1> DEFINE place == Place(R, S)
<1> DEFINE below(c) == {d \in S : <<d, c>> \in R}
           N == Cardinality(S)
<1>1. N \in Nat
  BY FS_CardinalityType
<1>2. ASSUME NEW c \in S
      PROVE  IsFiniteSet(below(c)) /\ Cardinality(below(c)) \in Nat /\ Cardinality(below(c)) < N
  <2>1. below(c) \subseteq S /\ c \notin below(c)
    OBVIOUS
  <2>2. /\ IsFiniteSet(below(c)) /\ Cardinality(below(c)) <= N
        /\ (N = Cardinality(below(c)) => S = below(c))
    <3> HIDE DEF below
    <3> QED BY <2>1, FS_Subset
  <2>3. Cardinality(below(c)) \in Nat
    BY <2>2, FS_CardinalityType
  <2>4. Cardinality(below(c)) # N
    BY <2>1, <2>2
  <2> QED BY <1>1, <2>2, <2>3, <2>4
<1>3. /\ \A c \in S : place[c] = Cardinality(below(c)) + 1
      /\ place = [c \in S |-> place[c]]
  BY DEF Place
<1> HIDE DEF place
<1>4. ASSUME NEW a \in S, NEW b \in S, <<a, b>> \in R PROVE place[a] < place[b]
  <2>1. below(a) \subseteq below(b) /\ a \in below(b) /\ a \notin below(a)
    BY <1>4
  <2>2. /\ Cardinality(below(a)) <= Cardinality(below(b))
        /\ Cardinality(below(a)) # Cardinality(below(b))
    <3>1. IsFiniteSet(below(b))
      BY <1>2
    <3> HIDE DEF below
    <3> QED BY <2>1, <3>1, FS_Subset
  <2>3. Cardinality(below(a)) \in Nat /\ Cardinality(below(b)) \in Nat
    BY <1>2
  <2> HIDE DEF below
  <2> QED BY <1>3, <2>2, <2>3
<1>5. place \in [S -> 1..N]
  <2>1. ASSUME NEW c \in S PROVE place[c] \in 1..N
    <3> HIDE DEF below, N
    <3> QED BY <1>1, <1>2, <1>3
  <2> QED BY <1>3, <2>1, Zenon
<1>6. ASSUME NEW a \in S, NEW b \in S, place[a] = place[b] PROVE a = b
  <2>1. place[a] \in Nat /\ place[b] \in Nat
    BY <1>1, <1>5
  <2>2. ASSUME <<a, b>> \in R \/ <<b, a>> \in R PROVE FALSE
    <3>1. place[a] < place[b] \/ place[b] < place[a]
      BY <1>4, <2>2
    <3> QED BY <1>6, <2>1, <3>1
  <2> QED BY <2>2
<1>7. \A p \in 1..N : \E a \in S : place[a] = p
  <2>1. IsFiniteSet(1..N) /\ Cardinality(1..N) = N
    <3>1. 1 \in Int /\ N \in Int
      BY <1>1
    <3>2. IsFiniteSet(1..N) /\ Cardinality(1..N) = IF 1 > N THEN 0 ELSE N - 1 + 1
      BY <3>1, FS_Interval, Zenon
    <3> QED BY <1>1, <3>2
  <2>2. place \in Injection(S, 1..N)
    BY <1>5, <1>6 DEF Injection, IsInjective
  <2>3. place \in Surjection(S, 1..N)
    <3> HIDE DEF N
    <3>1. Cardinality(S) = N
      BY DEF N
    <3> QED BY <2>1, <2>2, <3>1, FS_Injection
  <2> QED BY <2>3 DEF Surjection
<1> QED BY <1>4, <1>5, <1>6, <1>7 DEF place

(* A set of positions has an order, the least first.                       *)
LEMMA AscendingIs ==
    ASSUME NEW N \in Nat, NEW ks, ks \subseteq 1..N
    PROVE  /\ IsFiniteSet(ks) /\ Cardinality(ks) \in Nat /\ Cardinality(ks) <= N
           /\ Ascending(ks) \in [1..Cardinality(ks) -> ks]
           /\ \A m, n \in 1..Cardinality(ks) : m < n => Ascending(ks)[m] < Ascending(ks)[n]
           /\ \A m, n \in 1..Cardinality(ks) : Ascending(ks)[m] = Ascending(ks)[n] => m = n
           /\ \A k \in ks : \E n \in 1..Cardinality(ks) : Ascending(ks)[n] = k
<1> DEFINE C == Cardinality(ks)
<1>1. IsFiniteSet(1..N) /\ Cardinality(1..N) = N
  <2>1. 1 \in Int /\ N \in Int
    OBVIOUS
  <2>2. IsFiniteSet(1..N) /\ Cardinality(1..N) = IF 1 > N THEN 0 ELSE N - 1 + 1
    BY <2>1, FS_Interval, Zenon
  <2> QED BY <2>2
<1>2. IsFiniteSet(ks) /\ C <= N
  BY <1>1, FS_Subset
<1>3. C \in Nat
  BY <1>2, FS_CardinalityType
<1> DEFINE R == {p \in ks \X ks : p[1] < p[2]}
           place == Place(R, ks)
           Fits(s) == s \in [1..C -> ks] /\ \A m, n \in DOMAIN s : m < n => s[m] < s[n]
<1>4. /\ place \in [ks -> 1..C]
      /\ \A a, b \in ks : <<a, b>> \in R => place[a] < place[b]
      /\ \A a, b \in ks : place[a] = place[b] => a = b
      /\ \A p \in 1..C : \E a \in ks : place[a] = p
  <2>0. \A a \in ks : a \in Int
    OBVIOUS
  <2>1. \A a, b \in ks : a # b => <<a, b>> \in R \/ <<b, a>> \in R
    BY <2>0
  <2>2. \A a \in ks : <<a, a>> \notin R
    BY <2>0
  <2>3. \A a, b, c \in ks : <<a, b>> \in R /\ <<b, c>> \in R => <<a, c>> \in R
    BY <2>0
  <2>4. Orders(R, ks)
    <3> HIDE DEF R
    <3> QED BY <2>1, <2>2, <2>3 DEF Orders
  <2>5. IsFiniteSet(ks)
    BY <1>2
  <2> HIDE DEF R
  <2>6. place \in [ks -> 1..C]
    BY <2>4, <2>5, Places
  <2>7. \A a, b \in ks : <<a, b>> \in R => place[a] < place[b]
    BY <2>4, <2>5, Places
  <2>8. \A a, b \in ks : place[a] = place[b] => a = b
    BY <2>4, <2>5, Places
  <2>9. \A p \in 1..C : \E a \in ks : place[a] = p
    BY <2>4, <2>5, Places
  <2> QED BY <2>6, <2>7, <2>8, <2>9
<1> DEFINE inv == [p \in 1..C |-> CHOOSE a \in ks : place[a] = p]
<1>5. \A p \in 1..C : inv[p] \in ks /\ place[inv[p]] = p
  <2> HIDE DEF place
  <2> QED BY <1>4
<1>6. Fits(inv)
  <2>1. inv \in [1..C -> ks] /\ DOMAIN inv = 1..C
    BY <1>5
  <2>2. ASSUME NEW m \in 1..C, NEW n \in 1..C, m < n PROVE inv[m] < inv[n]
    <3>1. inv[m] \in ks /\ inv[n] \in ks /\ place[inv[m]] = m /\ place[inv[n]] = n
      BY <1>5
    <3>2. inv[m] \in Nat /\ inv[n] \in Nat /\ m \in Nat /\ n \in Nat
      <4> HIDE DEF inv, place, C
      <4>1. inv[m] \in 1..N /\ inv[n] \in 1..N
        BY <3>1
      <4> QED BY <1>3, <4>1
    <3> DEFINE x == inv[m]
               y == inv[n]
    <3>3. y < x => place[y] < place[x]
      <4>1. x \in ks /\ y \in ks
        BY <3>1
      <4>2. y < x => <<y, x>> \in R
        <5> HIDE DEF x, y
        <5> QED BY <4>1
      <4> HIDE DEF place, R, x, y
      <4> QED BY <1>4, <4>1, <4>2
    <3> HIDE DEF place, inv
    <3> QED BY <2>2, <3>1, <3>2, <3>3
  <2> QED BY <2>1, <2>2
<1>7. Fits(Ascending(ks))
  <2>1. Ascending(ks) = CHOOSE s : Fits(s)
    BY DEF Ascending
  <2> HIDE DEF Fits
  <2> QED BY <1>6, <2>1
<1> DEFINE a == Ascending(ks)
<1>8. a \in [1..C -> ks] /\ \A m, n \in 1..C : m < n => a[m] < a[n]
  BY <1>7
<1> HIDE DEF a
<1>9. ASSUME NEW m \in 1..C, NEW n \in 1..C, a[m] = a[n] PROVE m = n
  <2>1. a[m] \in Nat /\ a[n] \in Nat /\ m \in Nat /\ n \in Nat
    <3> HIDE DEF C
    <3>1. a[m] \in 1..N /\ a[n] \in 1..N
      BY <1>8
    <3> QED BY <1>3, <3>1
  <2> QED BY <1>8, <1>9, <2>1
<1>10. a \in Surjection(1..C, ks)
  <2>1. a \in Injection(1..C, ks)
    BY <1>8, <1>9 DEF Injection, IsInjective
  <2>2. IsFiniteSet(1..C) /\ Cardinality(1..C) = C
    <3>1. 1 \in Int /\ C \in Int
      BY <1>3
    <3>2. IsFiniteSet(1..C) /\ Cardinality(1..C) = IF 1 > C THEN 0 ELSE C - 1 + 1
      BY <3>1, FS_Interval, Zenon
    <3> QED BY <1>3, <3>2
  <2> QED BY <1>2, <2>1, <2>2, FS_Injection
<1>11. \A k \in ks : \E n \in 1..C : a[n] = k
  BY <1>10 DEF Surjection
<1> QED BY <1>2, <1>3, <1>8, <1>9, <1>11 DEF a

(* What is picked of a sequence is in it, and nothing else is left.        *)
LEMMA PickedIs ==
    ASSUME NEW D, NEW s \in Seq(D), NEW ks, ks \subseteq DOMAIN s
    PROVE  /\ Picked(s, ks) \in Seq(D) /\ Len(Picked(s, ks)) = Cardinality(ks)
           /\ IsFiniteSet(ks) /\ Cardinality(ks) \in Nat /\ Cardinality(ks) <= Len(s)
           /\ \A n \in DOMAIN Picked(s, ks) : \E k \in ks : Picked(s, ks)[n] = s[k]
           /\ \A m, n \in DOMAIN Picked(s, ks) :
                 m # n => \E h, k \in ks : h # k /\ Picked(s, ks)[m] = s[h] /\ Picked(s, ks)[n] = s[k]
           /\ \A k \in ks : \E n \in DOMAIN Picked(s, ks) : Picked(s, ks)[n] = s[k]
<1> DEFINE C == Cardinality(ks)
           a == Ascending(ks)
           f == Picked(s, ks)
<1>1. Len(s) \in Nat /\ DOMAIN s = 1..Len(s)
  OBVIOUS
<1>2. /\ IsFiniteSet(ks) /\ C \in Nat /\ C <= Len(s)
      /\ a \in [1..C -> ks]
      /\ \A m, n \in 1..C : a[m] = a[n] => m = n
      /\ \A k \in ks : \E n \in 1..C : a[n] = k
  BY <1>1, AscendingIs
<1>3. f = [n \in 1..C |-> s[a[n]]]
  BY DEF Picked
<1> HIDE DEF a, C, f
<1>4. \A n \in 1..C : a[n] \in ks /\ s[a[n]] \in D
  BY <1>1, <1>2
<1>5. f \in [1..C -> D]
  BY <1>3, <1>4
<1>6. f \in Seq(D) /\ Len(f) = C /\ DOMAIN f = 1..C
  BY <1>2, <1>5
<1>7. \A n \in 1..C : f[n] = s[a[n]]
  BY <1>3
<1>8. ASSUME NEW m \in 1..C, NEW n \in 1..C, m # n
      PROVE  \E h, k \in ks : h # k /\ f[m] = s[h] /\ f[n] = s[k]
  BY <1>2, <1>4, <1>7, <1>8
<1>9. ASSUME NEW k \in ks PROVE \E n \in 1..C : f[n] = s[k]
  BY <1>2, <1>7
<1>10. \A n \in 1..C : \E k \in ks : f[n] = s[k]
  BY <1>4, <1>7
<1> HIDE DEF f
<1>11. /\ f \in Seq(D) /\ Len(f) = C
       /\ IsFiniteSet(ks) /\ C \in Nat /\ C <= Len(s)
       /\ \A n \in DOMAIN f : \E k \in ks : f[n] = s[k]
       /\ \A m, n \in DOMAIN f : m # n => \E h, k \in ks : h # k /\ f[m] = s[h] /\ f[n] = s[k]
       /\ \A k \in ks : \E n \in DOMAIN f : f[n] = s[k]
  <2>1. DOMAIN f = 1..C
    BY <1>6
  <2>2. \A n \in DOMAIN f : \E k \in ks : f[n] = s[k]
    BY <1>10, <2>1
  <2>3. \A m, n \in DOMAIN f : m # n => \E h, k \in ks : h # k /\ f[m] = s[h] /\ f[n] = s[k]
    BY <1>8, <2>1
  <2>4. \A k \in ks : \E n \in DOMAIN f : f[n] = s[k]
    BY <1>9, <2>1
  <2> QED BY <1>2, <1>6, <2>2, <2>3, <2>4
<1> QED BY <1>11, Zenon DEF C, f

-----------------------------------------------------------------------------
(* The unit of the scores is a number.                                     *)
LEMMA OneIs == One \in Nat
<1> DEFINE N == LongestList
           I == [n \in 0..N |-> Nat]
           step == [p \in (1..N) \X Nat |-> p[2] * (K + p[1])]
           Rec(g) == g = [n \in 0..N |-> IF n = 0 THEN 1 ELSE g[n - 1] * (K + n)]
           h == CHOOSE g : Rec(g)
<1>1. N \in Nat /\ K \in Nat
  <2>1. Len(Rows) \in Nat
    BY RetrievalAssumption
  <2>2. K \in {K, TopK, MaxSubs, RerankTop, MmrTop, MmrFast, FinalTop}
    OBVIOUS
  <2>3. K \in Nat
    BY <2>2, RetrievalAssumption
  <2> QED BY <2>1, <2>3 DEF LongestList
<1>2. ASSUME NEW n \in 1..N, NEW x \in Nat PROVE step[<<n, x>>] = x * (K + n) /\ x * (K + n) \in Nat
  <2>1. n \in Nat /\ K + n \in Nat
    BY <1>1
  <2>2. x * (K + n) \in Nat
    <3> DEFINE k == K + n
    <3> HIDE DEF k
    <3>1. k \in Nat
      BY <2>1 DEF k
    <3>2. x * k \in Nat
      BY <3>1
    <3> QED BY <3>2 DEF k
  <2> QED BY <2>2
<1>3. PICK f : Passes(f, N, 1, step) /\ \A n \in 0..N : f[n] \in I[n]
  <2>1. 1 \in I[0]
    BY <1>1
  <2>2. ASSUME NEW n \in 1..N, NEW x \in I[n - 1] PROVE step[<<n, x>>] \in I[n]
    <3>1. n - 1 \in 0..N /\ n \in 0..N
      BY <1>1
    <3>2. x \in Nat
      BY <3>1
    <3>3. step[<<n, x>>] \in Nat
      BY <1>2, <3>2
    <3> HIDE DEF step
    <3> QED BY <3>1, <3>3
  <2> HIDE DEF N, I, step
  <2> QED BY <1>1, <2>1, <2>2, Loop
<1>4. Rec(f)
  <2>1. ASSUME NEW n \in 0..N PROVE f[n] = IF n = 0 THEN 1 ELSE f[n - 1] * (K + n)
    <3>1. CASE n = 0
      BY <1>3, <3>1 DEF Passes
    <3>2. CASE n # 0
      <4>1. n - 1 \in 0..N /\ n \in 1..N
        BY <1>1, <3>2
      <4>2. f[n - 1] \in Nat
        BY <1>3, <4>1
      <4> HIDE DEF I, step
      <4>3. f[n] = step[<<n, f[n - 1]>>]
        BY <1>3, <3>2, <4>1 DEF Passes
      <4> QED BY <1>2, <3>2, <4>1, <4>2, <4>3
    <3> QED BY <3>1, <3>2
  <2>2. f = [n \in 0..N |-> f[n]]
    BY <1>3 DEF Passes
  <2> HIDE DEF N, I, step
  <2> QED BY <2>1, <2>2
<1>5. Rec(h)
  <2> HIDE DEF Rec
  <2> QED BY <1>4
<1>6. One = h[N]
  BY DEF One
<1>7. \A n \in 0..N : h[n] \in I[n]
  <2> HIDE DEF h
  <2>1. h[0] \in I[0]
    BY <1>1, <1>5
  <2>2. ASSUME NEW n \in 1..N, h[n - 1] \in I[n - 1] PROVE h[n] \in I[n]
    <3>1. n - 1 \in 0..N /\ n \in 0..N /\ n # 0
      BY <1>1
    <3>2. h[n] = h[n - 1] * (K + n)
      BY <1>5, <3>1
    <3>3. h[n - 1] \in Nat
      BY <2>2, <3>1
    <3>4. h[n] \in Nat
      <4> HIDE DEF N
      <4> QED BY <1>2, <3>2, <3>3
    <3> QED BY <3>1, <3>4
  <2> HIDE DEF N, I
  <2> QED BY <1>1, <2>1, <2>2, Kept
<1>8. N \in 0..N /\ I[N] = Nat
  BY <1>1
<1> HIDE DEF N, I, h
<1> QED BY <1>6, <1>7, <1>8

(* A higher rank weighs at least as much.                                  *)
LEMMA WeightIs ==
    ASSUME NEW r \in Nat
    PROVE  Weight(r) \in Nat /\ \A s \in Nat : r <= s => Weight(s) <= Weight(r)
<1>1. K \in Nat /\ K # 0
  <2>2. K \in {K, TopK, MaxSubs, RerankTop, MmrTop, MmrFast, FinalTop}
    OBVIOUS
  <2> QED BY <2>2, RetrievalAssumption
<1>2. One \in Nat
  BY OneIs
<1> DEFINE q(s) == One \div (K + s)
<1>3. ASSUME NEW s \in Nat
      PROVE  /\ q(s) \in Nat /\ (K + s) * q(s) <= One /\ One < (K + s) * (q(s) + 1)
             /\ K + s \in Nat /\ K + s > 0
  <2>1. K + s \in Nat /\ K + s > 0
    BY <1>1
  <2> DEFINE k == K + s
  <2> HIDE DEF k
  <2>2. k \in Nat /\ k > 0
    BY <2>1 DEF k
  <2>3. One \div k \in Int
    BY <1>2, <2>2
  <2>4. k * (One \div k) <= One
    BY <1>2, <2>2
  <2>5. One < k * ((One \div k) + 1)
    BY <1>2, <2>2
  <2> DEFINE d == One \div k
  <2>6. d \in Int /\ k * d <= One /\ One < k * (d + 1)
    BY <2>3, <2>4, <2>5
  <2> HIDE DEF d
  <2>7. d >= 0
    BY <1>2, <2>2, <2>6
  <2> QED BY <2>1, <2>6, <2>7 DEF k, d
<1>4. ASSUME NEW s \in Nat, r <= s PROVE q(s) <= q(r)
  <2> DEFINE a == q(r)
             b == q(s)
             k == K + r
             l == K + s
  <2>1. /\ a \in Nat /\ b \in Nat /\ k \in Nat /\ l \in Nat /\ k <= l
        /\ l * b <= One /\ One < k * (a + 1)
    BY <1>1, <1>3, <1>4
  <2> HIDE DEF a, b, k, l
  <2>2. ASSUME a + 1 <= b PROVE FALSE
    <3>1. k * (a + 1) <= k * b
      BY <2>1, <2>2
    <3>2. k * b <= l * b
      BY <2>1
    <3> DEFINE x == k * (a + 1)
               y == k * b
               z == l * b
    <3>3. x \in Int /\ y \in Int /\ z \in Int
      BY <2>1
    <3>4. x <= y /\ y <= z /\ z <= One /\ One < x
      BY <2>1, <3>1, <3>2
    <3> HIDE DEF x, y, z
    <3> QED BY <1>2, <3>3, <3>4
  <2>3. b <= a
    BY <2>1, <2>2
  <2> QED BY <2>3 DEF a, b
<1> QED BY <1>3, <1>4 DEF Weight

-----------------------------------------------------------------------------
(* What c earns at position n.                                             *)
Earned(ranked, c, n) == IF ranked[n][1] = c THEN Weight(ranked[n][2]) ELSE 0

(* f is the score of c after each position.                                *)
Sums(f, ranked, c) ==
    /\ f[0] = 0
    /\ \A n \in 1..Len(ranked) : f[n] = f[n - 1] + Earned(ranked, c, n)
    /\ \A n \in 0..Len(ranked) : f[n] \in Nat
    /\ Score(ranked, c) = f[Len(ranked)]

(* What a position adds to a score is a number.                            *)
LEMMA EarnedIs ==
    ASSUME NEW D, NEW ranked \in Seq(D \X Nat), NEW c, NEW n \in 1..Len(ranked)
    PROVE  Earned(ranked, c, n) \in Nat
<1>1. ranked[n] \in D \X Nat
  OBVIOUS
<1>2. ranked[n][2] \in Nat
  BY <1>1
<1> QED BY <1>2, WeightIs DEF Earned

(* A score is the sum over the positions.                                  *)
LEMMA ScoreIs ==
    ASSUME NEW D, NEW ranked \in Seq(D \X Nat), NEW c
    PROVE  (\E f : Sums(f, ranked, c)) /\ Score(ranked, c) \in Nat
<1> DEFINE N == Len(ranked)
           I == [n \in 0..N |-> Nat]
           step == [p \in (1..N) \X Nat |-> p[2] + Earned(ranked, c, p[1])]
           Rec(g) == g = [n \in 0..N |-> IF n = 0 THEN 0
                             ELSE g[n - 1] + IF ranked[n][1] = c THEN Weight(ranked[n][2]) ELSE 0]
           h == CHOOSE g : Rec(g)
<1>1. N \in Nat
  OBVIOUS
<1>2. ASSUME NEW n \in 1..N, NEW x \in Nat
      PROVE  step[<<n, x>>] = x + Earned(ranked, c, n) /\ x + Earned(ranked, c, n) \in Nat
  <2>1. Earned(ranked, c, n) \in Nat
    BY EarnedIs
  <2>2. step[<<n, x>>] = x + Earned(ranked, c, n)
    OBVIOUS
  <2> HIDE DEF step
  <2> QED BY <2>1, <2>2
<1>3. PICK f : Passes(f, N, 0, step) /\ \A n \in 0..N : f[n] \in I[n]
  <2>1. 0 \in I[0]
    BY <1>1
  <2>2. ASSUME NEW n \in 1..N, NEW x \in I[n - 1] PROVE step[<<n, x>>] \in I[n]
    <3>1. n - 1 \in 0..N /\ n \in 0..N
      BY <1>1
    <3>2. x \in Nat
      BY <3>1
    <3>3. step[<<n, x>>] \in Nat
      BY <1>2, <3>2
    <3> HIDE DEF step
    <3> QED BY <3>1, <3>3
  <2> HIDE DEF N, I, step
  <2> QED BY <1>1, <2>1, <2>2, Loop
<1>4. Rec(f)
  <2>1. ASSUME NEW n \in 0..N
        PROVE  f[n] = IF n = 0 THEN 0
                      ELSE f[n - 1] + IF ranked[n][1] = c THEN Weight(ranked[n][2]) ELSE 0
    <3>1. CASE n = 0
      BY <1>3, <3>1 DEF Passes
    <3>2. CASE n # 0
      <4>1. n - 1 \in 0..N /\ n \in 1..N
        BY <1>1, <3>2
      <4>2. f[n - 1] \in Nat
        BY <1>3, <4>1
      <4> HIDE DEF I, step
      <4>3. f[n] = step[<<n, f[n - 1]>>]
        BY <1>3, <3>2, <4>1 DEF Passes
      <4>4. f[n] = f[n - 1] + Earned(ranked, c, n)
        BY <1>2, <4>1, <4>2, <4>3
      <4> QED BY <3>2, <4>4 DEF Earned
    <3> QED BY <3>1, <3>2
  <2>2. f = [n \in 0..N |-> f[n]]
    BY <1>3 DEF Passes
  <2> HIDE DEF N, I, step
  <2> QED BY <2>1, <2>2
<1>5. Rec(h)
  <2> HIDE DEF Rec
  <2> QED BY <1>4
<1>6. Score(ranked, c) = h[N]
  BY DEF Score
<1>7. h[0] = 0 /\ \A n \in 1..N : h[n] = h[n - 1] + Earned(ranked, c, n)
  <2> HIDE DEF h
  <2>1. ASSUME NEW n \in 1..N PROVE h[n] = h[n - 1] + Earned(ranked, c, n)
    <3>1. n \in 0..N /\ n # 0
      BY <1>1
    <3> QED BY <1>5, <3>1 DEF Earned
  <2>2. 0 \in 0..N
    BY <1>1
  <2>3. h[0] = 0
    BY <1>5, <2>2
  <2> HIDE DEF Rec
  <2> QED BY <2>1, <2>3
<1>8. \A n \in 0..N : h[n] \in I[n]
  <2> HIDE DEF h
  <2>1. h[0] \in I[0]
    BY <1>1, <1>7
  <2>2. ASSUME NEW n \in 1..N, h[n - 1] \in I[n - 1] PROVE h[n] \in I[n]
    <3>1. n - 1 \in 0..N /\ n \in 0..N
      BY <1>1
    <3>2. h[n - 1] \in Nat
      BY <2>2, <3>1
    <3>3. h[n] \in Nat
      <4> HIDE DEF N
      <4> QED BY <1>2, <1>7, <3>2
    <3> QED BY <3>1, <3>3
  <2> HIDE DEF N, I
  <2> QED BY <1>1, <2>1, <2>2, Kept
<1>9. (\A n \in 0..N : h[n] \in Nat) /\ N \in 0..N
  BY <1>1, <1>8
<1>10. Sums(h, ranked, c)
  <2> HIDE DEF h
  <2> QED BY <1>6, <1>7, <1>9 DEF Sums
<1>11. Score(ranked, c) \in Nat
  <2> HIDE DEF h
  <2> QED BY <1>6, <1>9
<1> HIDE DEF h
<1> QED BY <1>10, <1>11

-----------------------------------------------------------------------------
(* A list with its ranks.                                                  *)
Ranks(l) == [r \in DOMAIN l |-> <<l[r], r>>]

(* f is what is ranked after each list.                                    *)
Grows(f, lists, D) ==
    /\ f[0] = <<>>
    /\ \A i \in 1..Len(lists) : f[i] = f[i - 1] \o Ranks(lists[i])
    /\ \A i \in 0..Len(lists) : f[i] \in Seq(D \X Nat)
    /\ Ranked(lists) = f[Len(lists)]

(* A list with its ranks is as long as the list.                           *)
LEMMA RanksIs ==
    ASSUME NEW D, NEW l \in Seq(D)
    PROVE  /\ Ranks(l) \in Seq(D \X Nat) /\ Len(Ranks(l)) = Len(l) /\ DOMAIN Ranks(l) = 1..Len(l)
           /\ \A r \in 1..Len(l) :
                 Ranks(l)[r] = <<l[r], r>> /\ Ranks(l)[r][1] = l[r] /\ Ranks(l)[r][2] = r
<1>1. Len(l) \in Nat /\ DOMAIN l = 1..Len(l) /\ \A r \in 1..Len(l) : l[r] \in D /\ r \in Nat
  OBVIOUS
<1>2. Ranks(l) = [r \in 1..Len(l) |-> <<l[r], r>>]
  BY <1>1 DEF Ranks
<1>3. Ranks(l) \in [1..Len(l) -> D \X Nat]
  BY <1>1, <1>2
<1>4. \A r \in 1..Len(l) : Ranks(l)[r] = <<l[r], r>>
  BY <1>2
<1> QED BY <1>1, <1>3, <1>4

(* The lists are ranked one after the other.                               *)
LEMMA RankedIs ==
    ASSUME NEW D, NEW lists \in Seq(Seq(D))
    PROVE  (\E f : Grows(f, lists, D)) /\ Ranked(lists) \in Seq(D \X Nat)
<1> DEFINE N == Len(lists)
           S == Seq(D \X Nat)
           I == [n \in 0..N |-> S]
           step == [p \in (1..N) \X S |-> p[2] \o Ranks(lists[p[1]])]
           Rec(g) == g = [i \in 0..N |-> IF i = 0 THEN <<>>
                             ELSE g[i - 1] \o [r \in DOMAIN lists[i] |-> <<lists[i][r], r>>]]
           h == CHOOSE g : Rec(g)
<1>1. N \in Nat
  OBVIOUS
<1>2. ASSUME NEW n \in 1..N, NEW x \in S
      PROVE  step[<<n, x>>] = x \o Ranks(lists[n]) /\ x \o Ranks(lists[n]) \in S
  <2>1. lists[n] \in Seq(D)
    OBVIOUS
  <2>2. Ranks(lists[n]) \in S
    BY <2>1, RanksIs
  <2>3. step[<<n, x>>] = x \o Ranks(lists[n])
    OBVIOUS
  <2> HIDE DEF step
  <2> QED BY <2>2, <2>3
<1>3. PICK f : Passes(f, N, <<>>, step) /\ \A n \in 0..N : f[n] \in I[n]
  <2>1. <<>> \in I[0]
    BY <1>1
  <2>2. ASSUME NEW n \in 1..N, NEW x \in I[n - 1] PROVE step[<<n, x>>] \in I[n]
    <3>1. n - 1 \in 0..N /\ n \in 0..N
      BY <1>1
    <3> HIDE DEF S
    <3>2. x \in S
      BY <3>1
    <3>3. step[<<n, x>>] \in S
      BY <1>2, <3>2
    <3> HIDE DEF step
    <3> QED BY <3>1, <3>3
  <2> HIDE DEF N, I, step
  <2> QED BY <1>1, <2>1, <2>2, Loop
<1>4. Rec(f)
  <2>1. ASSUME NEW i \in 0..N
        PROVE  f[i] = IF i = 0 THEN <<>>
                      ELSE f[i - 1] \o [r \in DOMAIN lists[i] |-> <<lists[i][r], r>>]
    <3>1. CASE i = 0
      BY <1>3, <3>1 DEF Passes
    <3>2. CASE i # 0
      <4>1. i - 1 \in 0..N /\ i \in 1..N
        BY <1>1, <3>2
      <4> HIDE DEF S
      <4>2. f[i - 1] \in S
        BY <1>3, <4>1
      <4> HIDE DEF I, step
      <4>3. f[i] = step[<<i, f[i - 1]>>]
        BY <1>3, <3>2, <4>1 DEF Passes
      <4>4. f[i] = f[i - 1] \o Ranks(lists[i])
        BY <1>2, <4>1, <4>2, <4>3
      <4> QED BY <3>2, <4>4 DEF Ranks
    <3> QED BY <3>1, <3>2
  <2>2. f = [i \in 0..N |-> f[i]]
    BY <1>3 DEF Passes
  <2> HIDE DEF N, I, step
  <2> QED BY <2>1, <2>2
<1>5. Rec(h)
  <2> HIDE DEF Rec
  <2> QED BY <1>4
<1>6. Ranked(lists) = h[N]
  BY DEF Ranked
<1>7. h[0] = <<>> /\ \A i \in 1..N : h[i] = h[i - 1] \o Ranks(lists[i])
  <2> HIDE DEF h
  <2>1. ASSUME NEW i \in 1..N PROVE h[i] = h[i - 1] \o Ranks(lists[i])
    <3>1. i \in 0..N /\ i # 0
      BY <1>1
    <3> QED BY <1>5, <3>1 DEF Ranks
  <2>2. 0 \in 0..N
    BY <1>1
  <2>3. h[0] = <<>>
    BY <1>5, <2>2
  <2> HIDE DEF Rec
  <2> QED BY <2>1, <2>3
<1>8. \A n \in 0..N : h[n] \in I[n]
  <2> HIDE DEF h
  <2>1. h[0] \in I[0]
    BY <1>1, <1>7
  <2>2. ASSUME NEW n \in 1..N, h[n - 1] \in I[n - 1] PROVE h[n] \in I[n]
    <3>1. n - 1 \in 0..N /\ n \in 0..N
      BY <1>1
    <3> HIDE DEF S
    <3>2. h[n - 1] \in S
      BY <2>2, <3>1
    <3>3. h[n] \in S
      <4> HIDE DEF N
      <4> QED BY <1>2, <1>7, <3>2
    <3> QED BY <3>1, <3>3
  <2> HIDE DEF N, I
  <2> QED BY <1>1, <2>1, <2>2, Kept
<1>9. (\A n \in 0..N : h[n] \in S) /\ N \in 0..N
  <2> HIDE DEF S, h
  <2>1. \A n \in 0..N : I[n] = S
    OBVIOUS
  <2> HIDE DEF I
  <2> QED BY <1>1, <1>8, <2>1
<1>10. Grows(h, lists, D)
  <2> HIDE DEF h
  <2> QED BY <1>6, <1>7, <1>9 DEF Grows
<1>11. Ranked(lists) \in S
  <2> HIDE DEF h
  <2> QED BY <1>6, <1>9
<1> HIDE DEF h
<1> QED BY <1>10, <1>11

-----------------------------------------------------------------------------
(* The least of a set is the least.                                        *)
LEMMA MinIs ==
    ASSUME NEW S, S \subseteq Nat, S # {}
    PROVE  Min(S) \in S /\ \A y \in S : Min(S) <= y
<1>1. \E x \in S : \A y \in S : x <= y
  BY Least
<1> QED BY <1>1 DEF Min

(* Where c is found first.                                                 *)
First(ranked, c) == Min({n \in DOMAIN ranked : ranked[n][1] = c})

(* The chunks that were ranked.                                            *)
Found(ranked) == {ranked[n][1] : n \in DOMAIN ranked}

(* The order of the fusion: c before d.                                    *)
Earlier(ranked) == {p \in Found(ranked) \X Found(ranked) : Before(ranked, p[1], p[2])}

(* What was ranked is found first somewhere.                               *)
LEMMA FirstIs ==
    ASSUME NEW D, NEW ranked \in Seq(D \X Nat), NEW c \in Found(ranked)
    PROVE  /\ First(ranked, c) \in 1..Len(ranked) /\ ranked[First(ranked, c)][1] = c
           /\ \A n \in 1..Len(ranked) : ranked[n][1] = c => First(ranked, c) <= n
<1> DEFINE at == {n \in DOMAIN ranked : ranked[n][1] = c}
<1>1. DOMAIN ranked = 1..Len(ranked) /\ Len(ranked) \in Nat
  OBVIOUS
<1>2. at \subseteq Nat /\ at # {}
  BY <1>1 DEF Found
<1>3. First(ranked, c) = Min(at)
  BY DEF First
<1>4. Min(at) \in at /\ \A y \in at : Min(at) <= y
  <2> HIDE DEF at
  <2> QED BY <1>2, MinIs
<1> QED BY <1>1, <1>3, <1>4

(* No more chunks are found than there are positions.                      *)
LEMMA FoundIs ==
    ASSUME NEW D, NEW ranked \in Seq(D \X Nat)
    PROVE  /\ Found(ranked) \subseteq D /\ IsFiniteSet(Found(ranked))
           /\ Cardinality(Found(ranked)) \in Nat
<1> DEFINE f == [n \in 1..Len(ranked) |-> ranked[n][1]]
<1>1. /\ DOMAIN ranked = 1..Len(ranked) /\ Len(ranked) \in Nat
      /\ \A n \in 1..Len(ranked) : ranked[n] \in D \X Nat
  OBVIOUS
<1>2. Found(ranked) \subseteq D
  BY <1>1 DEF Found
<1>3. f \in Surjection(1..Len(ranked), Found(ranked))
  BY <1>1 DEF Surjection, Found
<1>4. IsFiniteSet(1..Len(ranked))
  <2>1. 1 \in Int /\ Len(ranked) \in Int
    BY <1>1
  <2> QED BY <2>1, FS_Interval, Zenon
<1>5. IsFiniteSet(Found(ranked))
  <2> HIDE DEF f
  <2> QED BY <1>3, <1>4, FS_Surjection
<1> QED BY <1>2, <1>5, FS_CardinalityType

(* The order of the fusion in terms of First.                              *)
LEMMA BeforeIs ==
    ASSUME NEW ranked, NEW c, NEW d
    PROVE  Before(ranked, c, d) <=>
             \/ Score(ranked, c) > Score(ranked, d)
             \/ Score(ranked, c) = Score(ranked, d) /\ First(ranked, c) < First(ranked, d)
BY DEF Before, First

(* No two chunks are equal in the order of the fusion.                     *)
LEMMA EarlierOrders ==
    ASSUME NEW D, NEW ranked \in Seq(D \X Nat)
    PROVE  Orders(Earlier(ranked), Found(ranked))
<1> DEFINE S == Found(ranked)
           R == Earlier(ranked)
<1>1. \A c, d \in S : <<c, d>> \in R <=>
             \/ Score(ranked, c) > Score(ranked, d)
             \/ Score(ranked, c) = Score(ranked, d) /\ First(ranked, c) < First(ranked, d)
  BY BeforeIs DEF Earlier
<1>2. \A c \in S : Score(ranked, c) \in Nat
  BY ScoreIs
<1>3. \A c \in S : First(ranked, c) \in Nat /\ ranked[First(ranked, c)][1] = c
  <2> SUFFICES ASSUME NEW c \in S PROVE First(ranked, c) \in Nat /\ ranked[First(ranked, c)][1] = c
    OBVIOUS
  <2>1. Len(ranked) \in Nat
    OBVIOUS
  <2>2. First(ranked, c) \in 1..Len(ranked) /\ ranked[First(ranked, c)][1] = c
    BY FirstIs
  <2> QED BY <2>1, <2>2
<1> HIDE DEF S, R
<1>4. ASSUME NEW a \in S, NEW b \in S, a # b PROVE <<a, b>> \in R \/ <<b, a>> \in R
  <2>1. First(ranked, a) # First(ranked, b)
    BY <1>3, <1>4
  <2> QED BY <1>1, <1>2, <1>3, <2>1
<1>5. \A a \in S : <<a, a>> \notin R
  BY <1>1, <1>2, <1>3
<1>6. \A a, b, c \in S : <<a, b>> \in R /\ <<b, c>> \in R => <<a, c>> \in R
  BY <1>1, <1>2, <1>3
<1>7. Orders(R, S)
  BY <1>4, <1>5, <1>6 DEF Orders
<1> QED BY <1>7 DEF S, R

(* The fusion has each chunk once, none before one that should precede it. *)
LEMMA SortedIs ==
    ASSUME NEW ranked \in Seq(Chunks \X Nat)
    PROVE  /\ Sorted[ranked] \in Seq(Chunks) /\ IsInjective(Sorted[ranked])
           /\ {Sorted[ranked][p] : p \in DOMAIN Sorted[ranked]} = Found(ranked)
           /\ \A p \in DOMAIN Sorted[ranked] : \A o \in 1..(p - 1) :
                 ~Before(ranked, Sorted[ranked][p], Sorted[ranked][o])
           /\ \A p \in DOMAIN Sorted[ranked] :
                 Cardinality({d \in Found(ranked) : Before(ranked, d, Sorted[ranked][p])}) + 1 = p
<1> DEFINE S == Found(ranked)
           R == Earlier(ranked)
           C == Cardinality(S)
           s == Sorted[ranked]
           place == Place(R, S)
<1>1. S \subseteq Chunks /\ IsFiniteSet(S) /\ C \in Nat
  BY FoundIs
<1>2. /\ place \in [S -> 1..C]
      /\ \A a, b \in S : <<a, b>> \in R => place[a] < place[b]
      /\ \A a, b \in S : place[a] = place[b] => a = b
      /\ \A p \in 1..C : \E a \in S : place[a] = p
  <2>1. Orders(R, S)
    BY EarlierOrders
  <2> HIDE DEF S, R
  <2>2. place \in [S -> 1..C]
    BY <1>1, <2>1, Places
  <2>3. \A a, b \in S : <<a, b>> \in R => place[a] < place[b]
    BY <1>1, <2>1, Places
  <2>4. \A a, b \in S : place[a] = place[b] => a = b
    BY <1>1, <2>1, Places
  <2>5. \A p \in 1..C : \E a \in S : place[a] = p
    BY <1>1, <2>1, Places
  <2> QED BY <2>2, <2>3, <2>4, <2>5
<1>3. \A c \in S : place[c] = Cardinality({d \in S : Before(ranked, d, c)}) + 1
  <2> SUFFICES ASSUME NEW c \in S PROVE place[c] = Cardinality({d \in S : Before(ranked, d, c)}) + 1
    OBVIOUS
  <2>1. {d \in S : <<d, c>> \in R} = {d \in S : Before(ranked, d, c)}
    BY DEF Earlier
  <2>2. place[c] = Cardinality({d \in S : <<d, c>> \in R}) + 1
    BY DEF Place
  <2> QED BY <2>1, <2>2
<1>4. s = [p \in 1..C |-> CHOOSE c \in S : Cardinality({d \in S : Before(ranked, d, c)}) + 1 = p]
  BY DEF Sorted, Found
<1> HIDE DEF S, C, s, place
<1>5. ASSUME NEW p \in 1..C PROVE s[p] \in S /\ place[s[p]] = p
  <2> DEFINE Fits(c) == c \in S /\ Cardinality({d \in S : Before(ranked, d, c)}) + 1 = p
  <2>1. \E c : Fits(c)
    BY <1>2, <1>3
  <2>2. s[p] = CHOOSE c : Fits(c)
    BY <1>4
  <2>3. Fits(s[p])
    <3> HIDE DEF Fits
    <3> QED BY <2>1, <2>2
  <2> QED BY <1>3, <2>3
<1>6. s \in Seq(Chunks) /\ Len(s) = C /\ DOMAIN s = 1..C
  <2> DEFINE at(p) == CHOOSE c \in S : Cardinality({d \in S : Before(ranked, d, c)}) + 1 = p
  <2>1. s = [p \in 1..C |-> s[p]]
    <3>1. s = [p \in 1..C |-> at(p)]
      BY <1>4
    <3> HIDE DEF at
    <3> QED BY <3>1
  <2>2. s \in [1..C -> Chunks]
    BY <1>1, <1>5, <2>1
  <2> QED BY <1>1, <2>2
<1>7. IsInjective(s)
  <2> SUFFICES ASSUME NEW a \in 1..C, NEW b \in 1..C, s[a] = s[b] PROVE a = b
    BY <1>6 DEF IsInjective
  <2> QED BY <1>5
<1>8. {s[p] : p \in DOMAIN s} = S
  <2>1. ASSUME NEW c \in S PROVE \E p \in 1..C : s[p] = c
    <3>1. place[c] \in 1..C
      BY <1>2
    <3>2. s[place[c]] \in S /\ place[s[place[c]]] = place[c]
      BY <1>5, <3>1
    <3> QED BY <1>2, <3>1, <3>2
  <2> QED BY <1>5, <1>6, <2>1
<1>9. ASSUME NEW p \in 1..C, NEW o \in 1..(p - 1) PROVE ~Before(ranked, s[p], s[o])
  <2>1. o \in 1..C /\ o < p /\ p \in Nat /\ o \in Nat
    BY <1>1
  <2>2. s[p] \in S /\ s[o] \in S /\ place[s[p]] = p /\ place[s[o]] = o
    BY <1>5, <2>1
  <2>3. ASSUME Before(ranked, s[p], s[o]) PROVE FALSE
    <3>1. <<s[p], s[o]>> \in R
      BY <2>2, <2>3 DEF Earlier, S
    <3>2. place[s[p]] < place[s[o]]
      BY <1>2, <2>2, <3>1
    <3> QED BY <2>1, <2>2, <3>2
  <2> QED BY <2>3
<1>10. \A p \in 1..C : Cardinality({d \in S : Before(ranked, d, s[p])}) + 1 = p
  BY <1>3, <1>5
<1> QED BY <1>6, <1>7, <1>8, <1>9, <1>10 DEF S, s

(* The fusion of lists of chunks holds each of them once.                  *)
LEMMA FusedIs ==
    ASSUME NEW lists \in Seq(Seq(Chunks))
    PROVE  Fused(lists) \in Seq(Chunks) /\ IsInjective(Fused(lists))
<1>1. Ranked(lists) \in Seq(Chunks \X Nat)
  BY RankedIs
<1> QED BY <1>1, SortedIs DEF Fused

-----------------------------------------------------------------------------
(* The least of two.                                                       *)
LEMMA MinOf ==
    ASSUME NEW a \in Nat, NEW b \in Nat
    PROVE  /\ Min({a, b}) \in Nat /\ Min({a, b}) <= a /\ Min({a, b}) <= b
           /\ Min({a, b}) = a \/ Min({a, b}) = b
<1>1. {a, b} \subseteq Nat /\ {a, b} # {}
  OBVIOUS
<1>2. Min({a, b}) \in {a, b} /\ \A y \in {a, b} : Min({a, b}) <= y
  BY <1>1, MinIs
<1>3. a \in {a, b} /\ b \in {a, b}
  OBVIOUS
<1> QED BY <1>2, <1>3

(* Numbers within -10..10 have a greatest.                                 *)
LEMMA MaxIs ==
    ASSUME NEW S, S \subseteq -10..10, S # {}
    PROVE  Max(S) \in -10..10
<1> DEFINE T == {n \in Nat : n <= 20 /\ 10 - n \in S}
<1>1. T \subseteq Nat /\ T # {}
  <2>1. PICK x \in S : TRUE
    OBVIOUS
  <2>2. x \in -10..10
    BY <2>1
  <2>3. 10 - x \in Nat /\ 10 - x <= 20 /\ 10 - (10 - x) = x
    BY <2>2
  <2>4. 10 - x \in T
    BY <2>1, <2>3
  <2> QED BY <2>4
<1>2. PICK n \in T : \A y \in T : n <= y
  <2> HIDE DEF T
  <2> QED BY <1>1, Least
<1>3. n \in Nat /\ n <= 20 /\ 10 - n \in S
  BY <1>2
<1>4. ASSUME NEW y \in S PROVE 10 - n >= y
  <2>1. y \in -10..10
    BY <1>4
  <2>2. 10 - y \in Nat /\ 10 - y <= 20 /\ 10 - (10 - y) = y
    BY <2>1
  <2>3. 10 - y \in T
    BY <1>4, <2>2
  <2>4. n <= 10 - y
    BY <1>2, <2>3
  <2> QED BY <1>3, <2>1, <2>4
<1>5. \E x \in S : \A y \in S : x >= y
  BY <1>3, <1>4
<1>6. Max(S) \in S
  BY <1>5 DEF Max
<1> QED BY <1>6

(* A marginal relevance is a number.                                       *)
LEMMA MarginalIs ==
    ASSUME NEW q \in Queries, NEW c \in Chunks, NEW chosen, chosen \subseteq Chunks
    PROVE  Marginal(q, c, chosen) \in Int
<1>1. /\ Lambda \in 0..10 /\ Rel \in [Queries -> [Chunks -> -10..10]]
      /\ Sim \in [Chunks -> [Chunks -> -10..10]]
  BY RetrievalAssumption
<1>2. Rel[q][c] \in -10..10
  BY <1>1
<1> DEFINE S == {Sim[c][d] : d \in chosen}
           near == IF chosen = {} THEN 0 ELSE Max(S)
<1>3. near \in -10..10
  <2>1. CASE chosen = {}
    BY <2>1
  <2>2. CASE chosen # {}
    <3>1. S \subseteq -10..10 /\ S # {}
      BY <1>1, <2>2
    <3>2. Max(S) \in -10..10
      <4> HIDE DEF S
      <4> QED BY <3>1, MaxIs
    <3> HIDE DEF S
    <3> QED BY <2>2, <3>2
  <2> QED BY <2>1, <2>2
<1>4. Marginal(q, c, chosen) = Lambda * Rel[q][c] - (10 - Lambda) * near
  BY DEF Marginal
<1> HIDE DEF near
<1> DEFINE r == Rel[q][c]
<1>5. r \in Int /\ near \in Int /\ Lambda \in Int
  BY <1>1, <1>2, <1>3
<1> HIDE DEF r
<1>6. Lambda * r \in Int /\ (10 - Lambda) * near \in Int
  BY <1>5
<1>7. Lambda * r - (10 - Lambda) * near \in Int
  BY <1>6
<1> QED BY <1>4, <1>7 DEF r

(* A finite set in a strict order has a first element.                     *)
LEMMA FirstOf ==
    ASSUME NEW S, IsFiniteSet(S), S # {}, NEW R, Orders(R, S)
    PROVE  \E a \in S : \A b \in S : a = b \/ <<a, b>> \in R
<1> DEFINE C == Cardinality(S)
<1>1. C \in Nat /\ C # 0
  BY FS_CardinalityType, FS_EmptySet
<1>2. \A p \in 1..C : \E a \in S : Place(R, S)[a] = p
  BY Places
<1>3. \A a, b \in S : <<a, b>> \in R => Place(R, S)[a] < Place(R, S)[b]
  BY Places
<1>4. Place(R, S) \in [S -> 1..C]
  BY Places
<1>5. PICK a \in S : Place(R, S)[a] = 1
  BY <1>1, <1>2
<1>6. ASSUME NEW b \in S, a # b PROVE <<a, b>> \in R
  <2>1. <<a, b>> \in R \/ <<b, a>> \in R
    BY <1>6 DEF Orders
  <2>2. ASSUME <<b, a>> \in R PROVE FALSE
    <3>1. Place(R, S)[b] < 1
      BY <1>3, <1>5, <2>2
    <3>2. Place(R, S)[b] \in 1..C
      BY <1>4
    <3> QED BY <1>1, <3>1, <3>2
  <2> QED BY <2>1, <2>2
<1> QED BY <1>5, <1>6

(* Some candidate that is left is the best.                                *)
LEMMA BestOf ==
    ASSUME NEW q \in Queries, NEW s \in Seq(Chunks), NEW chosen, chosen \subseteq DOMAIN s,
           DOMAIN s \ chosen # {}
    PROVE  \E i \in DOMAIN s \ chosen : \A j \in DOMAIN s \ chosen : Exceeds(q, s, chosen, i, j)
<1> DEFINE S == DOMAIN s \ chosen
           m == [i \in DOMAIN s |-> Marginal(q, s[i], {s[h] : h \in chosen})]
           R == {p \in S \X S : m[p[1]] > m[p[2]] \/ (m[p[1]] = m[p[2]] /\ p[1] < p[2])}
<1>1. DOMAIN s = 1..Len(s) /\ Len(s) \in Nat /\ \A i \in DOMAIN s : s[i] \in Chunks
  OBVIOUS
<1>2. ASSUME NEW i \in DOMAIN s PROVE m[i] \in Int /\ m[i] = Marginal(q, s[i], {s[h] : h \in chosen})
  <2>1. {s[h] : h \in chosen} \subseteq Chunks
    BY <1>1
  <2>2. s[i] \in Chunks
    BY <1>1
  <2>3. Marginal(q, s[i], {s[h] : h \in chosen}) \in Int
    BY <2>1, <2>2, MarginalIs
  <2> QED BY <2>3
<1>3. IsFiniteSet(S)
  <2>1. 1 \in Int /\ Len(s) \in Int
    BY <1>1
  <2>2. IsFiniteSet(1..Len(s))
    BY <2>1, FS_Interval, Zenon
  <2>3. S \subseteq 1..Len(s)
    BY <1>1
  <2> HIDE DEF S
  <2> QED BY <2>2, <2>3, FS_Subset
<1>4. ASSUME NEW i \in S PROVE i \in Nat /\ m[i] \in Int
  <2>1. i \in DOMAIN s /\ i \in Nat
    BY <1>1
  <2> HIDE DEF m
  <2> QED BY <1>2, <2>1
<1>5. \A i, j \in S : <<i, j>> \in R <=> m[i] > m[j] \/ (m[i] = m[j] /\ i < j)
  <2> HIDE DEF m, S
  <2> QED OBVIOUS
<1>6. PICK a \in S : \A b \in S : a = b \/ <<a, b>> \in R
  <2> HIDE DEF m, R
  <2>1. \A i, j \in S : i # j => <<i, j>> \in R \/ <<j, i>> \in R
    <3> HIDE DEF S
    <3> QED BY <1>4, <1>5
  <2>2. \A i \in S : <<i, i>> \notin R
    <3> HIDE DEF S
    <3> QED BY <1>4, <1>5
  <2>3. \A i, j, k \in S : <<i, j>> \in R /\ <<j, k>> \in R => <<i, k>> \in R
    <3> HIDE DEF S
    <3> QED BY <1>4, <1>5
  <2>4. Orders(R, S)
    <3> HIDE DEF S
    <3> QED BY <2>1, <2>2, <2>3 DEF Orders
  <2>5. S # {}
    OBVIOUS
  <2> HIDE DEF S
  <2> QED BY <1>3, <2>4, <2>5, FirstOf
<1>7. ASSUME NEW b \in S PROVE Exceeds(q, s, chosen, a, b)
  <2>1. m[a] > m[b] \/ (m[a] = m[b] /\ a <= b)
    <3>1. a \in Nat /\ b \in Nat /\ m[a] \in Int /\ m[b] \in Int
      BY <1>4
    <3>2. a = b \/ m[a] > m[b] \/ (m[a] = m[b] /\ a < b)
      <4> HIDE DEF m, R, S
      <4> QED BY <1>5, <1>6
    <3> HIDE DEF m, R, S
    <3> QED BY <3>1, <3>2
  <2>2. /\ m[a] = Marginal(q, s[a], {s[h] : h \in chosen})
        /\ m[b] = Marginal(q, s[b], {s[h] : h \in chosen})
    BY <1>2
  <2> HIDE DEF m
  <2> QED BY <2>1, <2>2 DEF Exceeds
<1> QED BY <1>7

(* An order of MMR exists: whatever is chosen, some candidate is left.     *)
LEMMA GreedyExists ==
    ASSUME NEW q \in Queries, NEW s \in Seq(Chunks), NEW n \in 0..Len(s)
    PROVE  \E o \in [1..n -> DOMAIN s] : Greedy(q, s, o)
<1> DEFINE N == Len(s)
           P(m) == \E o \in [1..m -> DOMAIN s] : Greedy(q, s, o)
           Bad == {m \in 0..N : ~P(m)}
<1>1. N \in Nat /\ DOMAIN s = 1..N
  OBVIOUS
<1>2. P(0)
  <2> DEFINE o == [k \in 1..0 |-> 1]
  <2>1. o \in [1..0 -> DOMAIN s]
    OBVIOUS
  <2>2. Greedy(q, s, o)
    BY DEF Greedy
  <2> HIDE DEF o
  <2> QED BY <2>1, <2>2
<1>3. ASSUME NEW m \in 0..N, m + 1 \in 0..N, P(m) PROVE P(m + 1)
  <2>1. PICK o \in [1..m -> DOMAIN s] : Greedy(q, s, o)
    BY <1>3
  <2> DEFINE chosen == {o[h] : h \in 1..m}
  <2>2. m \in Nat /\ m < N /\ chosen \subseteq DOMAIN s
    BY <1>1, <1>3
  <2>3. ASSUME DOMAIN s \subseteq chosen PROVE FALSE
    <3>1. o \in Surjection(1..m, 1..N)
      BY <1>1, <2>2, <2>3 DEF Surjection
    <3>2. 1 \in Int /\ m \in Int /\ N \in Int
      BY <1>1, <2>2
    <3>3. IsFiniteSet(1..m) /\ Cardinality(1..m) = IF 1 > m THEN 0 ELSE m - 1 + 1
      BY <3>2, FS_Interval, Zenon
    <3>4. Cardinality(1..N) = IF 1 > N THEN 0 ELSE N - 1 + 1
      BY <3>2, FS_Interval, Zenon
    <3>5. Cardinality(1..N) <= Cardinality(1..m)
      BY <3>1, <3>3, FS_Surjection
    <3> HIDE DEF N
    <3> QED BY <1>1, <2>2, <3>3, <3>4, <3>5
  <2>4. PICK i \in DOMAIN s \ chosen : \A j \in DOMAIN s \ chosen : Exceeds(q, s, chosen, i, j)
    <3>1. DOMAIN s \ chosen # {}
      BY <2>3
    <3> HIDE DEF chosen
    <3> QED BY <2>2, <3>1, BestOf
  <2> DEFINE t == [k \in 1..(m + 1) |-> IF k <= m THEN o[k] ELSE i]
  <2>5. t \in [1..(m + 1) -> DOMAIN s] /\ DOMAIN t = 1..(m + 1)
    <3>1. \A k \in 1..(m + 1) : k <= m => k \in 1..m
      BY <2>2
    <3> QED BY <2>4, <3>1
  <2>6. \A k \in 1..m : t[k] = o[k]
    BY <2>2
  <2>7. t[m + 1] = i
    BY <2>2
  <2>8. ASSUME NEW k \in 1..(m + 1)
        PROVE  {t[h] : h \in 1..(k - 1)} = {o[h] : h \in 1..(k - 1)}
    <3>1. \A h \in 1..(k - 1) : h \in 1..m
      BY <2>2
    <3> HIDE DEF t
    <3> QED BY <2>6, <3>1
  <2>9. ASSUME NEW k \in 1..(m + 1)
        PROVE  /\ t[k] \notin {o[h] : h \in 1..(k - 1)}
               /\ \A j \in DOMAIN s \ {o[h] : h \in 1..(k - 1)} :
                     Exceeds(q, s, {o[h] : h \in 1..(k - 1)}, t[k], j)
    <3> HIDE DEF t
    <3>1. CASE k = m + 1
      <4>1. k - 1 = m
        BY <2>2, <3>1
      <4>2. t[k] = i /\ {o[h] : h \in 1..(k - 1)} = chosen
        BY <2>7, <3>1, <4>1
      <4> HIDE DEF chosen
      <4> QED BY <2>4, <4>2
    <3>2. CASE k # m + 1
      <4>1. k \in 1..m /\ k \in DOMAIN o
        BY <2>2, <3>2
      <4>2. t[k] = o[k]
        BY <2>6, <4>1
      <4> QED BY <2>1, <4>1, <4>2 DEF Greedy
    <3> QED BY <3>1, <3>2
  <2>10. Greedy(q, s, t)
    <3> HIDE DEF t, chosen
    <3> QED BY <2>5, <2>8, <2>9 DEF Greedy
  <2> HIDE DEF t
  <2> QED BY <2>5, <2>10
<1>4. ASSUME Bad # {} PROVE FALSE
  <2> HIDE DEF P
  <2>1. PICK m \in Bad : \A y \in Bad : m <= y
    <3>1. Bad \subseteq Nat
      OBVIOUS
    <3> HIDE DEF Bad
    <3> QED BY <1>4, <3>1, Least
  <2>2. m \in 0..N /\ ~P(m) /\ m # 0
    BY <1>2, <2>1
  <2>3. m - 1 \in 0..N /\ (m - 1) + 1 = m /\ ~(m <= m - 1)
    BY <1>1, <2>2
  <2>4. P(m - 1)
    BY <2>1, <2>3
  <2> QED BY <1>3, <2>2, <2>3, <2>4
<1>5. n \in 0..N /\ n \notin Bad
  <2> HIDE DEF Bad
  <2> QED BY <1>4
<1>6. P(n)
  <2> HIDE DEF P
  <2> QED BY <1>5
<1> QED BY <1>6

(* What MMR selects: positions of the list, none twice, as many as it may  *)
(* and the list has.                                                       *)
LEMMA MmrIs ==
    ASSUME NEW q \in Queries, NEW s \in Seq(Chunks), NEW n \in Nat
    PROVE  /\ Mmr(q, s, n) \in Seq(DOMAIN s) /\ Len(Mmr(q, s, n)) = Min({n, Len(s)})
           /\ \A h, k \in DOMAIN Mmr(q, s, n) : Mmr(q, s, n)[h] = Mmr(q, s, n)[k] => h = k
<1> DEFINE N == Min({n, Len(s)})
           o == Mmr(q, s, n)
           Fits(p) == p \in [1..N -> DOMAIN s] /\ Greedy(q, s, p)
<1>1. N \in Nat /\ N \in 0..Len(s)
  <2>1. Len(s) \in Nat
    OBVIOUS
  <2>2. Min({n, Len(s)}) \in Nat /\ Min({n, Len(s)}) <= Len(s)
    BY <2>1, MinOf
  <2> QED BY <2>1, <2>2
<1>2. \E p : Fits(p)
  <2> HIDE DEF N
  <2>1. \E p \in [1..N -> DOMAIN s] : Greedy(q, s, p)
    BY <1>1, GreedyExists
  <2> QED BY <2>1
<1>3. o = CHOOSE p : Fits(p)
  BY DEF Mmr
<1>4. Fits(o)
  <2> HIDE DEF Fits, o
  <2> QED BY <1>2, <1>3
<1> HIDE DEF o, N
<1>5. o \in Seq(DOMAIN s) /\ Len(o) = N /\ DOMAIN o = 1..N
  BY <1>1, <1>4
<1>6. ASSUME NEW h \in 1..N, NEW k \in 1..N, h < k PROVE o[h] # o[k]
  <2>1. h \in 1..(k - 1)
    BY <1>1, <1>6
  <2>2. o[k] \notin {o[j] : j \in 1..(k - 1)}
    BY <1>4, <1>5 DEF Greedy
  <2> QED BY <2>1, <2>2
<1>7. \A h, k \in DOMAIN o : o[h] = o[k] => h = k
  <2> SUFFICES ASSUME NEW h \in 1..N, NEW k \in 1..N, h # k PROVE o[h] # o[k]
    BY <1>5
  <2>1. h < k \/ k < h
    BY <1>1
  <2> QED BY <1>6, <2>1
<1> QED BY <1>5, <1>7 DEF o, N

-----------------------------------------------------------------------------
(* The first n of a sequence.                                              *)
LEMMA UpToIs ==
    ASSUME NEW D, NEW s \in Seq(D), NEW n \in Nat
    PROVE  /\ UpTo(s, n) \in Seq(D) /\ Len(UpTo(s, n)) = Min({n, Len(s)})
           /\ DOMAIN UpTo(s, n) \subseteq DOMAIN s
           /\ \A i \in DOMAIN UpTo(s, n) : UpTo(s, n)[i] = s[i]
<1> DEFINE m == Min({n, Len(s)})
<1>1. m \in Nat /\ m <= Len(s) /\ Len(s) \in Nat /\ DOMAIN s = 1..Len(s)
  <2>1. Len(s) \in Nat
    OBVIOUS
  <2> QED BY <2>1, MinOf
<1>2. UpTo(s, n) = SubSeq(s, 1, m)
  BY DEF UpTo
<1> HIDE DEF m
<1>3. /\ SubSeq(s, 1, m) \in Seq(D) /\ Len(SubSeq(s, 1, m)) = m
      /\ \A i \in 1..m : SubSeq(s, 1, m)[i] = s[i]
  BY <1>1
<1> DEFINE u == SubSeq(s, 1, m)
<1> HIDE DEF u
<1>4. u \in Seq(D) /\ Len(u) = m /\ \A i \in 1..m : u[i] = s[i]
  BY <1>3 DEF u
<1>5. DOMAIN u = 1..m /\ 1..m \subseteq 1..Len(s)
  BY <1>1, <1>4
<1> QED BY <1>1, <1>2, <1>4, <1>5 DEF u, m

(* 1..n has n elements.                                                    *)
LEMMA IntervalIs ==
    ASSUME NEW n \in Nat
    PROVE  IsFiniteSet(1..n) /\ Cardinality(1..n) = n
<1>1. 1 \in Int /\ n \in Int
  OBVIOUS
<1>2. IsFiniteSet(1..n) /\ Cardinality(1..n) = IF 1 > n THEN 0 ELSE n - 1 + 1
  BY <1>1, FS_Interval, Zenon
<1> QED BY <1>2

(* What passes the threshold, or the first, is taken from the order.       *)
LEMMA AboveIs ==
    ASSUME NEW D, D \subseteq Nat, NEW order \in Seq(D), NEW n \in Nat
    PROVE  /\ Above(order, n) \in Seq(D)
           /\ \A i, j \in DOMAIN Above(order, n) :
                 i # j => \E h, k \in DOMAIN order :
                             h # k /\ Above(order, n)[i] = order[h] /\ Above(order, n)[j] = order[k]
           /\ Len(order) > 0 => Len(Above(order, n)) > 0
           /\ (\A k \in DOMAIN order : order[k] <= n) => Len(Above(order, n)) = Len(order)
<1> DEFINE ks == {k \in DOMAIN order : order[k] <= n}
           above == Picked(order, ks)
           one == UpTo(order, 1)
           a == Above(order, n)
<1>1. Len(order) \in Nat /\ DOMAIN order = 1..Len(order)
  OBVIOUS
<1>2. /\ above \in Seq(D) /\ Len(above) = Cardinality(ks)
      /\ \A i, j \in DOMAIN above :
            i # j => \E h, k \in ks : h # k /\ above[i] = order[h] /\ above[j] = order[k]
  <2>1. ks \subseteq DOMAIN order
    OBVIOUS
  <2> HIDE DEF ks
  <2> QED BY <2>1, PickedIs
<1>3. /\ one \in Seq(D) /\ Len(one) = Min({1, Len(order)}) /\ DOMAIN one \subseteq DOMAIN order
      /\ \A i \in DOMAIN one : one[i] = order[i]
  BY UpToIs
<1>4. a = IF above = <<>> THEN one ELSE above
  BY DEF Above
<1>5. ks \subseteq DOMAIN order
  OBVIOUS
<1>6. (\A k \in DOMAIN order : order[k] <= n) => Len(above) = Len(order)
  <2> SUFFICES ASSUME \A k \in DOMAIN order : order[k] <= n PROVE Len(above) = Len(order)
    OBVIOUS
  <2>1. ks = 1..Len(order)
    BY <1>1
  <2> HIDE DEF ks
  <2> QED BY <1>1, <1>2, <2>1, IntervalIs
<1> HIDE DEF above, one, a, ks
<1>7. CASE above = <<>>
  <2>1. a = one /\ Len(above) = 0
    BY <1>4, <1>7
  <2>2. /\ Len(one) = Min({1, Len(order)})
        /\ (Min({1, Len(order)}) = 1 \/ Min({1, Len(order)}) = Len(order))
    BY <1>1, <1>3, MinOf
  <2>3. Len(order) > 0 => Len(one) > 0
    BY <1>1, <2>2
  <2>4. Len(order) = 0 => Len(one) = 0
    <3>1. Min({1, Len(order)}) <= Len(order) /\ Min({1, Len(order)}) \in Nat
      BY <1>1, MinOf
    <3> QED BY <1>1, <2>2, <3>1
  <2>5. (\A k \in DOMAIN order : order[k] <= n) => Len(one) = Len(order)
    BY <1>6, <2>1, <2>4
  <2>6. \A i, j \in DOMAIN one :
            i # j => \E h, k \in DOMAIN order : h # k /\ one[i] = order[h] /\ one[j] = order[k]
    BY <1>3
  <2>7. /\ a \in Seq(D)
        /\ \A i, j \in DOMAIN a :
              i # j => \E h, k \in DOMAIN order : h # k /\ a[i] = order[h] /\ a[j] = order[k]
        /\ Len(order) > 0 => Len(a) > 0
        /\ (\A k \in DOMAIN order : order[k] <= n) => Len(a) = Len(order)
    BY <1>3, <2>1, <2>3, <2>5, <2>6, Zenon
  <2> QED BY <2>7, Zenon DEF a
<1>8. CASE above # <<>>
  <2>1. a = above
    BY <1>4, <1>8
  <2>2. Len(above) > 0
    BY <1>2, <1>8
  <2>3. \A i, j \in DOMAIN above :
            i # j => \E h, k \in DOMAIN order : h # k /\ above[i] = order[h] /\ above[j] = order[k]
    BY <1>2, <1>5
  <2>7. /\ a \in Seq(D)
        /\ \A i, j \in DOMAIN a :
              i # j => \E h, k \in DOMAIN order : h # k /\ a[i] = order[h] /\ a[j] = order[k]
        /\ Len(order) > 0 => Len(a) > 0
        /\ (\A k \in DOMAIN order : order[k] <= n) => Len(a) = Len(order)
    BY <1>2, <1>6, <2>1, <2>2, <2>3
  <2> QED BY <2>7, Zenon DEF a
<1> QED BY <1>7, <1>8

(* The parents of what an order of the pool holds.                         *)
Parents(order) == {Group[pool[order[k]]] : k \in DOMAIN order}

(* Each parent is left once.                                               *)
LEMMA ExpandedIs ==
    ASSUME NEW D, NEW order \in Seq(D)
    PROVE  /\ Expanded(order) \in Seq(D)
           /\ \A i, j \in DOMAIN Expanded(order) :
                 i # j => Group[pool[Expanded(order)[i]]] # Group[pool[Expanded(order)[j]]]
           /\ Len(Expanded(order)) = Cardinality(Parents(order)) /\ IsFiniteSet(Parents(order))
<1> DEFINE g == [k \in DOMAIN order |-> Group[pool[order[k]]]]
           firsts == {k \in DOMAIN order :
                         \A h \in 1..(k - 1) : Group[pool[order[h]]] # Group[pool[order[k]]]}
           e == Expanded(order)
           parents == Parents(order)
           f == [k \in firsts |-> g[k]]
<1>1. Len(order) \in Nat /\ DOMAIN order = 1..Len(order)
  OBVIOUS
<1>2. e = Picked(order, firsts)
  BY DEF Expanded
<1>3. firsts \subseteq DOMAIN order
  OBVIOUS
<1>4. /\ e \in Seq(D) /\ Len(e) = Cardinality(firsts) /\ IsFiniteSet(firsts)
      /\ \A i, j \in DOMAIN e :
            i # j => \E h, k \in firsts : h # k /\ e[i] = order[h] /\ e[j] = order[k]
  <2> HIDE DEF firsts, e
  <2> QED BY <1>2, <1>3, PickedIs
<1>5. \A k \in DOMAIN order : g[k] = Group[pool[order[k]]]
  OBVIOUS
<1>6. ASSUME NEW h \in firsts, NEW k \in firsts, h < k PROVE g[h] # g[k]
  <2>1. h \in DOMAIN order /\ k \in DOMAIN order /\ h \in 1..(k - 1)
    BY <1>1, <1>6
  <2>2. Group[pool[order[h]]] # Group[pool[order[k]]]
    BY <2>1
  <2> HIDE DEF g
  <2> QED BY <1>5, <2>1, <2>2
<1>7. ASSUME NEW h \in firsts, NEW k \in firsts, h # k PROVE g[h] # g[k]
  <2>1. h \in Nat /\ k \in Nat
    BY <1>1
  <2>2. h < k \/ k < h
    BY <1>7, <2>1
  <2> HIDE DEF g, firsts
  <2> QED BY <1>6, <2>2
<1>8. ASSUME NEW k \in DOMAIN order PROVE \E h \in firsts : g[h] = g[k]
  <2> DEFINE same == {h \in DOMAIN order : g[h] = g[k]}
  <2>1. same \subseteq Nat /\ same # {}
    <3> HIDE DEF g
    <3> QED BY <1>1
  <2>2. PICK h \in same : \A y \in same : h <= y
    <3> HIDE DEF same
    <3> QED BY <2>1, Least
  <2>3. h \in DOMAIN order /\ g[h] = g[k]
    BY <2>2
  <2>4. ASSUME NEW j \in 1..(h - 1) PROVE g[j] # g[h]
    <3>1. j \in DOMAIN order /\ ~(h <= j)
      BY <1>1, <2>3
    <3> HIDE DEF g
    <3> QED BY <2>2, <2>3, <3>1
  <2>5. \A j \in 1..(h - 1) : j \in DOMAIN order
    BY <1>1, <2>3
  <2>6. \A j \in 1..(h - 1) : Group[pool[order[j]]] # Group[pool[order[h]]]
    <3> HIDE DEF g
    <3> QED BY <1>5, <2>3, <2>4, <2>5
  <2>7. h \in firsts
    BY <2>3, <2>6
  <2> HIDE DEF g, firsts
  <2> QED BY <2>3, <2>7
<1>9. parents = {g[k] : k \in DOMAIN order}
  BY DEF Parents
<1> HIDE DEF g, firsts, parents, e
<1>10. f \in Surjection(firsts, parents)
  <2>1. \A k \in firsts : f[k] = g[k] /\ g[k] \in parents
    BY <1>3, <1>9
  <2>2. f \in [firsts -> parents]
    BY <2>1
  <2>3. \A t \in parents : \E k \in firsts : f[k] = t
    BY <1>8, <1>9, <2>1
  <2> HIDE DEF f
  <2> QED BY <2>2, <2>3 DEF Surjection
<1>11. f \in Injection(firsts, parents)
  <2>1. f \in [firsts -> parents]
    BY <1>10 DEF Surjection
  <2> QED BY <1>7, <2>1 DEF Injection, IsInjective
<1>12. IsFiniteSet(parents) /\ Cardinality(parents) = Cardinality(firsts)
  <2> HIDE DEF f
  <2> QED BY <1>4, <1>10, <1>11, FS_Surjection
<1>13. \A i, j \in DOMAIN e : i # j => Group[pool[e[i]]] # Group[pool[e[j]]]
  <2> SUFFICES ASSUME NEW i \in DOMAIN e, NEW j \in DOMAIN e, i # j
               PROVE  Group[pool[e[i]]] # Group[pool[e[j]]]
    OBVIOUS
  <2>1. PICK h \in firsts, k \in firsts : h # k /\ e[i] = order[h] /\ e[j] = order[k]
    BY <1>4
  <2> QED BY <1>3, <1>5, <1>7, <2>1
<1>14. /\ e \in Seq(D)
       /\ \A i, j \in DOMAIN e : i # j => Group[pool[e[i]]] # Group[pool[e[j]]]
       /\ Len(e) = Cardinality(parents) /\ IsFiniteSet(parents)
  BY <1>4, <1>12, <1>13
<1> QED BY <1>14 DEF e, parents

-----------------------------------------------------------------------------
(* The limits of the settings are numbers.                                 *)
LEMMA SettingsAre ==
    /\ MmrFast \in Nat /\ MmrTop \in Nat
    /\ FinalTop \in Nat /\ FinalTop # 0 /\ RerankTop \in Nat /\ RerankTop # 0
    /\ MaxSubs \in Nat /\ MaxSubs # 0
<1> DEFINE A == {K, TopK, MaxSubs, RerankTop, MmrTop, MmrFast, FinalTop}
<1>1. A \subseteq Nat \ {0}
  BY RetrievalAssumption
<1>2. MmrFast \in A /\ MmrTop \in A /\ FinalTop \in A /\ RerankTop \in A /\ MaxSubs \in A
  OBVIOUS
<1> HIDE DEF A
<1> QED BY <1>1, <1>2

(* MMR keeps at least what the answer may hold.                            *)
MmrWide == FinalTop <= MmrFast /\ FinalTop <= MmrTop

(* How many MMR selects.                                                   *)
MmrN == IF mode = "fast" THEN MmrFast ELSE MmrTop

(* What the order of MMR holds: each position of the pool at most once,    *)
(* and all of them if they are no more than MMR keeps.                     *)
LEMMA OrderIs ==
    ASSUME query \in Queries, pool \in Seq(Chunks),
           NEW order, order = Mmr(query, pool, MmrN)
    PROVE  /\ order \in Seq(DOMAIN pool)
           /\ \A h, k \in DOMAIN order : order[h] = order[k] => h = k
           /\ Len(order) = Min({MmrN, Len(pool)})
           /\ Len(pool) <= MmrN =>
                 Len(order) = Len(pool) /\ \A i \in DOMAIN pool : \E k \in DOMAIN order : order[k] = i
<1>1. MmrN \in Nat /\ Len(pool) \in Nat /\ DOMAIN pool = 1..Len(pool)
  BY SettingsAre DEF MmrN
<1>2. /\ order \in Seq(DOMAIN pool)
      /\ \A h, k \in DOMAIN order : order[h] = order[k] => h = k
      /\ Len(order) = Min({MmrN, Len(pool)})
  BY <1>1, MmrIs
<1>3. ASSUME Len(pool) <= MmrN
      PROVE  Len(order) = Len(pool) /\ \A i \in DOMAIN pool : \E k \in DOMAIN order : order[k] = i
  <2>1. Len(pool) <= MmrN
    BY <1>3
  <2>2. Len(order) = Len(pool)
    <3>1. \/ Min({MmrN, Len(pool)}) = Len(pool)
          \/ Min({MmrN, Len(pool)}) = MmrN /\ MmrN <= Len(pool)
      BY <1>1, MinOf
    <3> QED BY <1>1, <1>2, <2>1, <3>1
  <2>3. order \in [1..Len(pool) -> 1..Len(pool)] /\ DOMAIN order = 1..Len(pool)
    BY <1>1, <1>2, <2>2
  <2>4. order \in Injection(1..Len(pool), 1..Len(pool))
    BY <1>2, <2>3 DEF Injection, IsInjective
  <2>5. order \in Surjection(1..Len(pool), 1..Len(pool))
    BY <1>1, <2>4, IntervalIs, FS_Injection
  <2>6. \A i \in DOMAIN pool : \E k \in DOMAIN order : order[k] = i
    BY <1>1, <2>3, <2>5 DEF Surjection
  <2> QED BY <2>2, <2>6
<1> QED BY <1>2, <1>3

(* What is given is as long as the pool allows and without repeats.        *)
LEMMA FinalIs ==
    ASSUME MmrWide, query \in Queries, pool \in Seq(Chunks), IsInjective(pool),
           NEW order, order = Mmr(query, pool, MmrN), NEW n \in 0..Len(pool)
    PROVE  /\ IsInjective(Final(order, n))
           /\ pool # <<>> => Final(order, n) # <<>>
           /\ n = Len(pool) /\ (mode = "max" => Len(pool) <= MmrTop) =>
                 Len(Final(order, n)) = Min({FinalTop, Cardinality({Given(i) : i \in DOMAIN pool})})
<1> DEFINE P == Len(pool)
           D == DOMAIN pool
           base == IF mode = "max" THEN Expanded(order) ELSE order
           above == Above(base, n)
           kept == UpTo(above, FinalTop)
           final == Final(order, n)
           handed == {Given(i) : i \in D}
<1>1. P \in Nat /\ D = 1..P /\ D \subseteq Nat /\ n \in Nat
  OBVIOUS
<1>2. /\ order \in Seq(D)
      /\ \A h, k \in DOMAIN order : order[h] = order[k] => h = k
      /\ Len(order) = Min({MmrN, P})
      /\ P <= MmrN => Len(order) = P /\ \A i \in D : \E k \in DOMAIN order : order[k] = i
  BY OrderIs
<1>3. /\ Expanded(order) \in Seq(D)
      /\ \A i, j \in DOMAIN Expanded(order) :
            i # j => Group[pool[Expanded(order)[i]]] # Group[pool[Expanded(order)[j]]]
      /\ Len(Expanded(order)) = Cardinality(Parents(order)) /\ IsFiniteSet(Parents(order))
  <2>1. order \in Seq(D)
    BY <1>2
  <2> HIDE DEF D
  <2> QED BY <2>1, ExpandedIs
<1>4. base \in Seq(D)
  BY <1>2, <1>3
<1>5. ASSUME NEW i \in DOMAIN base, NEW j \in DOMAIN base, i # j PROVE Given(base[i]) # Given(base[j])
  <2>1. CASE mode = "max"
    BY <1>3, <1>5, <2>1 DEF Given
  <2>2. CASE mode # "max"
    <3>1. base = order
      BY <2>2
    <3>2. order[i] # order[j] /\ order[i] \in D /\ order[j] \in D
      <4>1. i \in DOMAIN order /\ j \in DOMAIN order
        BY <3>1
      <4>2. order \in Seq(D)
        BY <1>2
      <4> HIDE DEF base, D
      <4>3. order[i] \in D /\ order[j] \in D
        BY <4>1, <4>2
      <4> QED BY <1>2, <1>5, <4>1, <4>3
    <3>3. pool[order[i]] # pool[order[j]]
      BY <3>2 DEF IsInjective
    <3> QED BY <2>2, <3>1, <3>3 DEF Given
  <2> QED BY <2>1, <2>2
<1>6. /\ above \in Seq(D)
      /\ \A i, j \in DOMAIN above :
            i # j => \E h, k \in DOMAIN base : h # k /\ above[i] = base[h] /\ above[j] = base[k]
      /\ Len(base) > 0 => Len(above) > 0
      /\ (\A k \in DOMAIN base : base[k] <= n) => Len(above) = Len(base)
  <2> HIDE DEF base, D
  <2> QED BY <1>1, <1>4, AboveIs
<1>7. /\ kept \in Seq(D) /\ Len(kept) = Min({FinalTop, Len(above)})
      /\ DOMAIN kept \subseteq DOMAIN above
      /\ \A i \in DOMAIN kept : kept[i] = above[i]
  <2>1. above \in Seq(D) /\ FinalTop \in Nat
    BY <1>6, SettingsAre
  <2> HIDE DEF above, D
  <2> QED BY <2>1, UpToIs
<1>8. final = [k \in DOMAIN kept |-> Given(kept[k])]
  BY DEF Final
<1> HIDE DEF base, above, kept, final, handed, P, D
<1>9. Len(base) \in Nat /\ Len(above) \in Nat /\ Len(kept) \in Nat /\ DOMAIN kept = 1..Len(kept)
  BY <1>4, <1>6, <1>7
<1>10. DOMAIN final = 1..Len(kept) /\ Len(final) = Len(kept)
  BY <1>8, <1>9
<1>11. IsInjective(final)
  <2> SUFFICES ASSUME NEW i \in DOMAIN kept, NEW j \in DOMAIN kept, i # j PROVE final[i] # final[j]
    BY <1>8 DEF IsInjective
  <2>1. i \in DOMAIN above /\ j \in DOMAIN above /\ kept[i] = above[i] /\ kept[j] = above[j]
    BY <1>7
  <2>2. PICK h \in DOMAIN base, k \in DOMAIN base : h # k /\ above[i] = base[h] /\ above[j] = base[k]
    BY <1>6, <2>1
  <2>3. Given(base[h]) # Given(base[k])
    BY <1>5, <2>2
  <2> QED BY <1>8, <2>1, <2>2, <2>3
<1>12. ASSUME pool # <<>> PROVE final # <<>>
  <2>1. P > 0
    BY <1>1, <1>12 DEF P
  <2>2. Len(order) > 0
    <3>1. MmrN \in Nat /\ MmrN > 0
      BY SettingsAre DEF MmrN, MmrWide
    <3>2. Min({MmrN, P}) = MmrN \/ Min({MmrN, P}) = P
      BY <1>1, <3>1, MinOf
    <3> QED BY <1>1, <1>2, <2>1, <3>1, <3>2
  <2>3. Len(base) > 0
    <3>1. CASE mode # "max"
      BY <2>2, <3>1 DEF base
    <3>2. CASE mode = "max"
      <4> DEFINE parents == Parents(order)
      <4>1. 1 \in DOMAIN order
        BY <1>2, <2>2
      <4>2. parents # {}
        BY <4>1 DEF Parents
      <4>3. IsFiniteSet(parents) /\ Len(base) = Cardinality(parents)
        BY <1>3, <3>2 DEF base
      <4> HIDE DEF parents
      <4>4. Cardinality(parents) \in Nat /\ Cardinality(parents) # 0
        BY <4>2, <4>3, FS_CardinalityType, FS_EmptySet
      <4> QED BY <4>3, <4>4
    <3> QED BY <3>1, <3>2
  <2>4. Len(above) > 0
    BY <1>6, <2>3
  <2>5. Min({FinalTop, Len(above)}) = FinalTop \/ Min({FinalTop, Len(above)}) = Len(above)
    BY <1>9, SettingsAre, MinOf
  <2>6. Len(kept) > 0
    BY <1>7, <2>4, <2>5, SettingsAre
  <2> QED BY <1>10, <2>6
<1>13. ASSUME n = P, mode = "max" => P <= MmrTop PROVE Len(final) = Min({FinalTop, Cardinality(handed)})
  <2>1. Len(above) = Len(base)
    <3>1. \A k \in DOMAIN base : base[k] \in D
      BY <1>4
    <3>2. \A k \in DOMAIN base : base[k] <= n
      BY <1>1, <1>13, <3>1
    <3> QED BY <1>6, <3>2
  <2>2. CASE mode = "max"
    <3>1. handed = Parents(order)
      <4>1. handed = {Group[pool[i]] : i \in D}
        BY <2>2 DEF handed, Given
      <4>2. \A i \in D : \E k \in DOMAIN order : order[k] = i
        BY <1>2, <1>13, <2>2 DEF MmrN
      <4>3. \A k \in DOMAIN order : order[k] \in D
        BY <1>2
      <4> QED BY <4>1, <4>2, <4>3 DEF Parents
    <3>2. Len(base) = Cardinality(handed)
      BY <1>3, <2>2, <3>1 DEF base
    <3> QED BY <1>7, <1>10, <2>1, <3>2
  <2>3. CASE mode # "max"
    <3>1. handed = {pool[i] : i \in D}
      BY <2>3 DEF handed, Given
    <3>2. pool \in Surjection(D, handed) /\ pool \in Injection(D, handed)
      <4>1. pool \in [D -> handed]
        BY <3>1 DEF D
      <4> QED BY <3>1, <4>1 DEF Injection, Surjection, IsInjective
    <3>3. Cardinality(handed) = P
      BY <1>1, <3>2, IntervalIs, FS_Surjection
    <3>4. Len(base) = Min({MmrN, P})
      BY <1>2, <2>3 DEF base
    <3>5. MmrN \in Nat /\ FinalTop <= MmrN /\ FinalTop \in Nat
      BY SettingsAre DEF MmrN, MmrWide
    <3> DEFINE b == Min({MmrN, P})
               x == Min({FinalTop, b})
               y == Min({FinalTop, P})
    <3>6. b \in Nat /\ b <= MmrN /\ b <= P /\ (b = MmrN \/ b = P)
      BY <1>1, <3>5, MinOf
    <3> HIDE DEF b
    <3>7. x \in Nat /\ x <= FinalTop /\ x <= b /\ (x = FinalTop \/ x = b)
      BY <3>5, <3>6, MinOf
    <3>8. y \in Nat /\ y <= FinalTop /\ y <= P /\ (y = FinalTop \/ y = P)
      BY <1>1, <3>5, MinOf
    <3>9. Len(final) = x
      BY <1>7, <1>10, <2>1, <3>4 DEF b
    <3> HIDE DEF x, y
    <3>10. x = y
      BY <1>1, <3>5, <3>6, <3>7, <3>8
    <3> QED BY <3>3, <3>9, <3>10 DEF y
  <2> QED BY <2>2, <2>3
<1> QED BY <1>11, <1>12, <1>13 DEF P, D, final, handed

-----------------------------------------------------------------------------
(* One sequence after another.                                             *)
LEMMA ConcatIs ==
    ASSUME NEW S, NEW a \in Seq(S), NEW b \in Seq(S)
    PROVE  /\ a \o b \in Seq(S) /\ Len(a \o b) = Len(a) + Len(b)
           /\ \A n \in 1..Len(a) : (a \o b)[n] = a[n]
           /\ \A n \in 1..Len(b) : (a \o b)[Len(a) + n] = b[n]
<1> DEFINE c == a \o b
<1>1. /\ c \in Seq(S) /\ Len(c) = Len(a) + Len(b)
      /\ \A n \in 1..Len(a) + Len(b) : c[n] = IF n <= Len(a) THEN a[n] ELSE b[n - Len(a)]
  BY ConcatProperties, Zenon
<1>2. Len(a) \in Nat /\ Len(b) \in Nat
  OBVIOUS
<1> HIDE DEF c
<1>3. ASSUME NEW n \in 1..Len(a) PROVE c[n] = a[n]
  <2>1. n \in 1..Len(a) + Len(b) /\ n <= Len(a)
    BY <1>2
  <2> QED BY <1>1, <2>1
<1>4. ASSUME NEW n \in 1..Len(b) PROVE c[Len(a) + n] = b[n]
  <2>1. /\ Len(a) + n \in 1..Len(a) + Len(b) /\ ~(Len(a) + n <= Len(a))
        /\ (Len(a) + n) - Len(a) = n
    BY <1>2
  <2> QED BY <1>1, <2>1
<1> QED BY <1>1, <1>3, <1>4 DEF c

(* Elements of D with their ranks.                                         *)
Rankings(D) == Seq(D \X Nat)

(* The score in lists that are ranked one after the other is the sum.      *)
LEMMA ScoreAdds ==
    ASSUME NEW D, NEW a \in Rankings(D), NEW b \in Rankings(D), NEW c
    PROVE  Score(a \o b, c) = Score(a, c) + Score(b, c)
<1> USE DEF Rankings
<1> DEFINE x == a \o b
           S == D \X Nat
<1>1. /\ x \in Seq(S) /\ Len(x) = Len(a) + Len(b)
      /\ \A n \in 1..Len(a) : x[n] = a[n]
      /\ \A n \in 1..Len(b) : x[Len(a) + n] = b[n]
  <2> HIDE DEF S
  <2>1. a \in Seq(S) /\ b \in Seq(S)
    BY DEF S
  <2> QED BY <2>1, ConcatIs
<1>2. Len(a) \in Nat /\ Len(b) \in Nat
  OBVIOUS
<1> HIDE DEF x
<1>3. PICK f : Sums(f, x, c)
  BY <1>1, ScoreIs
<1>4. PICK g : Sums(g, a, c)
  BY ScoreIs
<1>5. PICK h : Sums(h, b, c)
  BY ScoreIs
<1>6. \A n \in 0..Len(a) : f[n] = g[n]
  <2> DEFINE I == [n \in 0..Len(a) |-> {g[n]}]
  <2>1. f[0] \in I[0]
    BY <1>2, <1>3, <1>4 DEF Sums
  <2>2. ASSUME NEW n \in 1..Len(a), f[n - 1] \in I[n - 1] PROVE f[n] \in I[n]
    <3>1. n - 1 \in 0..Len(a) /\ n \in 0..Len(a) /\ n \in 1..Len(x)
      BY <1>1, <1>2
    <3>2. f[n - 1] = g[n - 1]
      BY <2>2, <3>1
    <3>3. f[n] = f[n - 1] + Earned(x, c, n) /\ g[n] = g[n - 1] + Earned(a, c, n)
      BY <1>3, <1>4, <3>1 DEF Sums
    <3>4. Earned(x, c, n) = Earned(a, c, n)
      BY <1>1 DEF Earned
    <3>5. f[n] = g[n]
      BY <3>2, <3>3, <3>4
    <3> QED BY <3>1, <3>5
  <2>3. \A n \in 0..Len(a) : f[n] \in I[n]
    <3> HIDE DEF I
    <3> QED BY <1>2, <2>1, <2>2, Kept
  <2> QED BY <2>3
<1> DEFINE e == [n \in 0..Len(b) |-> f[Len(a) + n]]
<1>7. \A n \in 0..Len(b) : e[n] = Score(a, c) + h[n]
  <2> DEFINE I == [n \in 0..Len(b) |-> {Score(a, c) + h[n]}]
  <2>1. /\ Score(a, c) = f[Len(a)] /\ Score(a, c) \in Nat /\ h[0] = 0
        /\ \A n \in 0..Len(b) : h[n] \in Nat
    <3>1. Len(a) \in 0..Len(a)
      BY <1>2
    <3>2. Score(a, c) = g[Len(a)] /\ g[Len(a)] = f[Len(a)]
      BY <1>4, <1>6, <3>1 DEF Sums
    <3> QED BY <1>5, <3>2, ScoreIs DEF Sums
  <2>2. e[0] \in I[0]
    <3>1. e[0] = f[Len(a)] /\ I[0] = {Score(a, c) + h[0]}
      BY <1>2
    <3>2. Score(a, c) + h[0] = f[Len(a)]
      BY <2>1
    <3> QED BY <3>1, <3>2
  <2>3. ASSUME NEW n \in 1..Len(b), e[n - 1] \in I[n - 1] PROVE e[n] \in I[n]
    <3>1. /\ n - 1 \in 0..Len(b) /\ n \in 0..Len(b) /\ Len(a) + n \in 1..Len(x)
          /\ (Len(a) + n) - 1 = Len(a) + (n - 1)
      BY <1>1, <1>2
    <3>2. e[n - 1] = Score(a, c) + h[n - 1]
      BY <2>3, <3>1
    <3>3. e[n] = f[Len(a) + n] /\ e[n - 1] = f[(Len(a) + n) - 1]
      BY <3>1
    <3> DEFINE m == Len(a) + n
    <3>4. f[m] = f[m - 1] + Earned(x, c, m) /\ h[n] = h[n - 1] + Earned(b, c, n)
      <4> HIDE DEF e
      <4> QED BY <1>3, <1>5, <3>1 DEF Sums
    <3>5. Earned(x, c, m) = Earned(b, c, n) /\ Earned(b, c, n) \in Nat
      BY <1>1, EarnedIs DEF Earned
    <3>6. h[n - 1] \in Nat
      BY <2>1, <3>1
    <3> HIDE DEF e, m
    <3>7. e[n] = (Score(a, c) + h[n - 1]) + Earned(b, c, n)
      BY <3>2, <3>3, <3>4, <3>5 DEF m
    <3>8. e[n] = Score(a, c) + h[n]
      BY <2>1, <3>4, <3>5, <3>6, <3>7
    <3> QED BY <3>1, <3>8
  <2>4. \A n \in 0..Len(b) : e[n] \in I[n]
    <3> HIDE DEF e, I
    <3> QED BY <1>2, <2>2, <2>3, Kept
  <2> HIDE DEF e
  <2> QED BY <2>4
<1>8. Len(b) \in 0..Len(b) /\ e[Len(b)] = f[Len(a) + Len(b)]
  BY <1>2
<1>9. Score(x, c) = f[Len(x)] /\ Score(b, c) = h[Len(b)]
  BY <1>3, <1>5 DEF Sums
<1> HIDE DEF e
<1> QED BY <1>1, <1>7, <1>8, <1>9 DEF x

(* A chunk earns at least what one appearance gives, at most what its only *)
(* one gives, and nothing where it does not appear.                        *)
LEMMA ScoreAtLeast ==
    ASSUME NEW D, NEW ranked \in Seq(D \X Nat), NEW p \in 1..Len(ranked), NEW c, ranked[p][1] = c
    PROVE  Score(ranked, c) >= Weight(ranked[p][2])
<1> DEFINE N == Len(ranked)
           w == Weight(ranked[p][2])
           I == [n \in 0..N |-> {y \in Nat : n >= p => y >= w}]
<1>1. N \in Nat /\ p \in Nat /\ p >= 1
  OBVIOUS
<1>2. w \in Nat /\ Earned(ranked, c, p) = w
  <2>1. ranked[p] \in D \X Nat
    OBVIOUS
  <2>2. ranked[p][2] \in Nat
    BY <2>1
  <2> QED BY <2>2, WeightIs DEF Earned
<1>3. PICK f : Sums(f, ranked, c)
  BY ScoreIs
<1>4. \A n \in 0..N : f[n] \in Nat
  BY <1>3 DEF Sums
<1> HIDE DEF w
<1>5. f[0] \in I[0]
  <2>1. f[0] = 0 /\ ~(0 >= p)
    BY <1>1, <1>3 DEF Sums
  <2> QED BY <1>1, <2>1
<1>6. ASSUME NEW n \in 1..N, f[n - 1] \in I[n - 1] PROVE f[n] \in I[n]
  <2>1. n - 1 \in 0..N /\ n \in 0..N /\ n \in Nat
    BY <1>1
  <2>2. f[n - 1] \in Nat /\ (n - 1 >= p => f[n - 1] >= w)
    BY <1>6, <2>1
  <2>3. f[n] = f[n - 1] + Earned(ranked, c, n) /\ Earned(ranked, c, n) \in Nat /\ f[n] \in Nat
    BY <1>3, <1>4, <2>1, EarnedIs DEF Sums
  <2>4. n >= p => f[n] >= w
    <3>1. CASE n = p
      BY <1>2, <2>2, <2>3, <3>1
    <3>2. CASE n # p
      BY <1>1, <1>2, <2>1, <2>2, <2>3, <3>2
    <3> QED BY <3>1, <3>2
  <2> HIDE DEF N
  <2> QED BY <2>1, <2>3, <2>4
<1>7. \A n \in 0..N : f[n] \in I[n]
  <2> HIDE DEF N, I
  <2> QED BY <1>1, <1>5, <1>6, Kept
<1>8. N \in 0..N /\ N >= p
  BY <1>1
<1>9. f[N] >= w
  <2> HIDE DEF N
  <2> QED BY <1>7, <1>8
<1> QED BY <1>3, <1>9 DEF Sums, w

(* What is ranked once scores no more than that rank is worth.             *)
LEMMA ScoreAtMost ==
    ASSUME NEW D, NEW ranked \in Seq(D \X Nat), NEW p \in 1..Len(ranked), NEW c,
           \A n \in 1..Len(ranked) : ranked[n][1] = c => n = p
    PROVE  Score(ranked, c) <= Weight(ranked[p][2])
<1> DEFINE N == Len(ranked)
           w == Weight(ranked[p][2])
           I == [n \in 0..N |-> {y \in Nat : IF n >= p THEN y <= w ELSE y = 0}]
<1>1. N \in Nat /\ p \in Nat /\ p >= 1
  OBVIOUS
<1>2. w \in Nat /\ Earned(ranked, c, p) <= w /\ \A n \in 1..N : n # p => Earned(ranked, c, n) = 0
  <2>1. ranked[p] \in D \X Nat
    OBVIOUS
  <2>2. ranked[p][2] \in Nat
    BY <2>1
  <2>3. w \in Nat
    BY <2>2, WeightIs
  <2>4. \A n \in 1..N : n # p => Earned(ranked, c, n) = 0
    BY DEF Earned
  <2>5. Earned(ranked, c, p) \in {0, w}
    BY DEF Earned
  <2> HIDE DEF w
  <2> QED BY <2>3, <2>4, <2>5
<1>3. PICK f : Sums(f, ranked, c)
  BY ScoreIs
<1>4. \A n \in 0..N : f[n] \in Nat
  BY <1>3 DEF Sums
<1> HIDE DEF w
<1>5. f[0] \in I[0]
  <2>1. f[0] = 0 /\ ~(0 >= p)
    BY <1>1, <1>3 DEF Sums
  <2> QED BY <1>1, <2>1
<1>6. ASSUME NEW n \in 1..N, f[n - 1] \in I[n - 1] PROVE f[n] \in I[n]
  <2>1. n - 1 \in 0..N /\ n \in 0..N /\ n \in Nat
    BY <1>1
  <2>2. f[n - 1] \in Nat /\ IF n - 1 >= p THEN f[n - 1] <= w ELSE f[n - 1] = 0
    BY <1>6, <2>1
  <2>3. f[n] = f[n - 1] + Earned(ranked, c, n) /\ Earned(ranked, c, n) \in Nat /\ f[n] \in Nat
    BY <1>3, <1>4, <2>1, EarnedIs DEF Sums
  <2>4. IF n >= p THEN f[n] <= w ELSE f[n] = 0
    <3>1. CASE n = p
      <4>1. f[n - 1] = 0
        BY <1>1, <2>1, <2>2, <3>1
      <4> QED BY <1>1, <1>2, <2>3, <3>1, <4>1
    <3>2. CASE n # p
      <4>1. f[n] = f[n - 1]
        BY <1>2, <2>2, <2>3, <3>2
      <4> QED BY <1>1, <2>1, <2>2, <3>2, <4>1
    <3> QED BY <3>1, <3>2
  <2> HIDE DEF N
  <2> QED BY <2>1, <2>3, <2>4
<1>7. \A n \in 0..N : f[n] \in I[n]
  <2> HIDE DEF N, I
  <2> QED BY <1>1, <1>5, <1>6, Kept
<1>8. N \in 0..N /\ N >= p
  BY <1>1
<1>9. f[N] <= w
  <2> HIDE DEF N
  <2> QED BY <1>7, <1>8
<1> QED BY <1>3, <1>9 DEF Sums, w

(* What is not ranked scores nothing.                                      *)
LEMMA ScoreIsNone ==
    ASSUME NEW D, NEW ranked \in Seq(D \X Nat), NEW c, \A n \in 1..Len(ranked) : ranked[n][1] # c
    PROVE  Score(ranked, c) = 0
<1> DEFINE N == Len(ranked)
           I == [n \in 0..N |-> {0}]
<1>1. N \in Nat
  OBVIOUS
<1>2. PICK f : Sums(f, ranked, c)
  BY ScoreIs
<1>3. f[0] \in I[0]
  BY <1>1, <1>2 DEF Sums
<1>4. ASSUME NEW n \in 1..N, f[n - 1] \in I[n - 1] PROVE f[n] \in I[n]
  <2>1. n - 1 \in 0..N /\ n \in 0..N
    BY <1>1
  <2>2. f[n - 1] = 0
    BY <1>4, <2>1
  <2>3. f[n] = f[n - 1] + Earned(ranked, c, n) /\ Earned(ranked, c, n) = 0
    BY <1>2 DEF Sums, Earned
  <2>4. f[n] = 0
    BY <2>2, <2>3
  <2> HIDE DEF N
  <2> QED BY <2>1, <2>4
<1>5. \A n \in 0..N : f[n] \in I[n]
  <2> HIDE DEF N, I
  <2> QED BY <1>1, <1>3, <1>4, Kept
<1>6. N \in 0..N
  BY <1>1
<1>7. f[N] = 0
  <2> HIDE DEF N
  <2> QED BY <1>5, <1>6
<1> QED BY <1>2, <1>7 DEF Sums

-----------------------------------------------------------------------------
(* The standing of c in a list is where it is first, or after the end.     *)
LEMMA StandingIs ==
    ASSUME NEW D, NEW l \in Seq(D), NEW c
    PROVE  /\ Standing(l, c) \in Nat
           /\ \A r \in 1..Len(l) : l[r] = c => Standing(l, c) <= r
           /\ Standing(l, c) <= Len(l) => Standing(l, c) \in 1..Len(l) /\ l[Standing(l, c)] = c
<1> DEFINE S == {r \in DOMAIN l : l[r] = c} \cup {Len(l) + 1}
<1>1. Len(l) \in Nat /\ DOMAIN l = 1..Len(l)
  OBVIOUS
<1>2. S \subseteq Nat /\ S # {}
  BY <1>1
<1>3. Standing(l, c) = Min(S)
  BY DEF Standing
<1>4. Min(S) \in S /\ \A y \in S : Min(S) <= y
  <2> HIDE DEF S
  <2> QED BY <1>2, MinIs
<1> DEFINE m == Min(S)
<1>5. m \in Nat /\ (m = Len(l) + 1 \/ (m \in 1..Len(l) /\ l[m] = c))
  <2> HIDE DEF m
  <2>1. m \in S
    BY <1>4 DEF m
  <2> QED BY <1>1, <2>1
<1>6. \A r \in 1..Len(l) : l[r] = c => m <= r
  <2> HIDE DEF m
  <2>1. \A y \in S : m <= y
    BY <1>4 DEF m
  <2> QED BY <1>1, <2>1
<1> HIDE DEF m
<1>7. m <= Len(l) => m \in 1..Len(l) /\ l[m] = c
  BY <1>1, <1>5
<1> QED BY <1>3, <1>5, <1>6, <1>7 DEF m

(* Every source ranks c at least as high as d, and names d once at most.   *)
Dominates(lists, c, d) ==
    \A i \in DOMAIN lists :
        /\ Standing(lists[i], c) <= Standing(lists[i], d)
        /\ Cardinality({r \in DOMAIN lists[i] : lists[i][r] = d}) <= 1

(* In what is ranked, d is never without a c before it and scores no more. *)
Ahead(ranked, c, d) ==
    /\ Score(ranked, d) <= Score(ranked, c)
    /\ \A n \in 1..Len(ranked) : ranked[n][1] = d => \E m \in 1..(n - 1) : ranked[m][1] = c

(* It is so in one list,                                                   *)
LEMMA ListAhead ==
    ASSUME NEW D, NEW l \in Seq(D), NEW c, NEW d, c # d,
           Standing(l, c) <= Standing(l, d), Cardinality({r \in DOMAIN l : l[r] = d}) <= 1
    PROVE  Ahead(Ranks(l), c, d)
<1> DEFINE N == Len(l)
           R == Ranks(l)
<1>1. N \in Nat /\ DOMAIN l = 1..N
  OBVIOUS
<1>2. /\ R \in Seq(D \X Nat) /\ Len(R) = N
      /\ \A r \in 1..N : R[r][1] = l[r] /\ R[r][2] = r
  BY RanksIs
<1> HIDE DEF R, N
<1>3. ASSUME NEW p \in 1..N, l[p] = d
      PROVE  \E q \in 1..(p - 1) : q \in 1..N /\ l[q] = c
  <2>1. Standing(l, d) <= p /\ Standing(l, d) \in Nat /\ Standing(l, c) \in Nat
    BY <1>3, StandingIs DEF N
  <2>2. Standing(l, c) <= p /\ Standing(l, c) <= N
    BY <1>1, <2>1
  <2>3. Standing(l, c) \in 1..N /\ l[Standing(l, c)] = c
    BY <2>2, StandingIs DEF N
  <2>4. Standing(l, c) # p
    BY <1>3, <2>3
  <2>5. Standing(l, c) \in 1..(p - 1)
    BY <1>1, <2>2, <2>3, <2>4
  <2> QED BY <2>3, <2>5
<1>4. \A n \in 1..N : R[n][1] = d => \E m \in 1..(n - 1) : R[m][1] = c
  <2> SUFFICES ASSUME NEW n \in 1..N, R[n][1] = d PROVE \E m \in 1..(n - 1) : R[m][1] = c
    OBVIOUS
  <2>1. l[n] = d
    BY <1>2
  <2>2. PICK q \in 1..(n - 1) : q \in 1..N /\ l[q] = c
    BY <1>3, <2>1
  <2>3. R[q][1] = c
    BY <1>2, <2>2
  <2> QED BY <2>2, <2>3
<1>5. Score(R, c) \in Nat /\ Score(R, d) \in Nat
  BY <1>2, ScoreIs
<1>6. CASE \E p \in 1..N : l[p] = d
  <2>1. PICK p \in 1..N : l[p] = d
    BY <1>6
  <2>2. PICK q \in 1..(p - 1) : q \in 1..N /\ l[q] = c
    BY <1>3, <2>1
  <2>3. ASSUME NEW n \in 1..N, l[n] = d PROVE n = p
    <3> DEFINE S == {r \in DOMAIN l : l[r] = d}
    <3>1. S \subseteq 1..N /\ p \in S /\ n \in S
      BY <1>1, <2>1, <2>3
    <3>2. Cardinality(S) <= 1
      OBVIOUS
    <3> HIDE DEF S
    <3>3. IsFiniteSet(S) /\ Cardinality(S) \in Nat /\ Cardinality(S) # 0
      BY <1>1, <3>1, IntervalIs, FS_Subset, FS_CardinalityType, FS_EmptySet
    <3>4. Cardinality(S) = 1
      BY <3>2, <3>3
    <3>5. PICK x : S = {x}
      BY <3>3, <3>4, FS_Singleton
    <3> QED BY <3>1, <3>5
  <2>4. Score(R, d) <= Weight(p)
    <3>1. \A n \in 1..Len(R) : R[n][1] = d => n = p
      BY <1>2, <2>3
    <3>2. p \in 1..Len(R) /\ R[p][2] = p
      BY <1>2
    <3>3. Score(R, d) <= Weight(R[p][2])
      BY <1>2, <3>1, <3>2, ScoreAtMost
    <3> QED BY <3>2, <3>3
  <2>5. Score(R, c) >= Weight(q)
    <3>1. q \in 1..Len(R) /\ R[q][1] = c /\ R[q][2] = q
      BY <1>2, <2>2
    <3>2. Score(R, c) >= Weight(R[q][2])
      BY <1>2, <3>1, ScoreAtLeast
    <3> QED BY <3>1, <3>2
  <2>6. Weight(p) \in Nat /\ Weight(q) \in Nat /\ Weight(p) <= Weight(q)
    <3>1. p \in Nat /\ q \in Nat /\ q <= p
      BY <1>1, <2>2
    <3> QED BY <3>1, WeightIs
  <2>7. Score(R, d) <= Score(R, c)
    BY <1>5, <2>4, <2>5, <2>6
  <2> QED BY <1>2, <1>4, <2>7 DEF Ahead, R
<1>7. CASE ~\E p \in 1..N : l[p] = d
  <2>1. \A n \in 1..Len(R) : R[n][1] # d
    BY <1>2, <1>7
  <2>2. Score(R, d) = 0
    BY <1>2, <2>1, ScoreIsNone
  <2>3. Score(R, d) <= Score(R, c)
    BY <1>5, <2>2
  <2> QED BY <1>2, <1>4, <2>3 DEF Ahead, R
<1> QED BY <1>6, <1>7

(* in two, one after the other,                                            *)
LEMMA ConcatAhead ==
    ASSUME NEW D, NEW a \in Seq(D \X Nat), NEW b \in Seq(D \X Nat), NEW c, NEW d,
           Ahead(a, c, d), Ahead(b, c, d)
    PROVE  Ahead(a \o b, c, d)
<1> DEFINE x == a \o b
           S == D \X Nat
<1>1. /\ x \in Seq(S) /\ Len(x) = Len(a) + Len(b)
      /\ \A n \in 1..Len(a) : x[n] = a[n]
      /\ \A n \in 1..Len(b) : x[Len(a) + n] = b[n]
  <2> HIDE DEF S
  <2>1. a \in Seq(S) /\ b \in Seq(S)
    BY DEF S
  <2> QED BY <2>1, ConcatIs
<1>2. Len(a) \in Nat /\ Len(b) \in Nat
  OBVIOUS
<1>3. Score(x, d) <= Score(x, c)
  <2>1. a \in Rankings(D) /\ b \in Rankings(D)
    BY DEF Rankings
  <2>2. Score(x, d) = Score(a, d) + Score(b, d) /\ Score(x, c) = Score(a, c) + Score(b, c)
    BY <2>1, ScoreAdds
  <2>3. Score(a, c) \in Nat /\ Score(a, d) \in Nat /\ Score(b, c) \in Nat /\ Score(b, d) \in Nat
    BY ScoreIs
  <2>4. Score(a, d) <= Score(a, c) /\ Score(b, d) <= Score(b, c)
    BY DEF Ahead
  <2> HIDE DEF x
  <2> QED BY <2>2, <2>3, <2>4
<1> HIDE DEF x
<1>4. ASSUME NEW n \in 1..Len(x), x[n][1] = d PROVE \E m \in 1..(n - 1) : x[m][1] = c
  <2>1. CASE n <= Len(a)
    <3>1. n \in 1..Len(a) /\ a[n][1] = d
      BY <1>1, <1>2, <1>4, <2>1
    <3>2. PICK m \in 1..(n - 1) : a[m][1] = c
      BY <3>1 DEF Ahead
    <3>3. m \in 1..Len(a)
      BY <1>2, <3>1
    <3>4. x[m][1] = c
      BY <1>1, <3>2, <3>3
    <3> QED BY <3>4
  <2>2. CASE n > Len(a)
    <3> DEFINE k == n - Len(a)
    <3>1. k \in 1..Len(b) /\ n = Len(a) + k /\ n \in Nat
      BY <1>1, <1>2, <2>2
    <3> HIDE DEF k
    <3>2. b[k][1] = d
      BY <1>1, <1>4, <3>1
    <3>3. PICK m \in 1..(k - 1) : b[m][1] = c
      BY <3>1, <3>2 DEF Ahead
    <3>4. m \in 1..Len(b) /\ Len(a) + m \in 1..(n - 1)
      BY <1>2, <3>1
    <3>5. x[Len(a) + m][1] = c
      BY <1>1, <3>3, <3>4
    <3> QED BY <3>4, <3>5
  <2> QED BY <1>1, <1>2, <2>1, <2>2
<1> QED BY <1>3, <1>4 DEF Ahead, x

(* and so in all: a dominated chunk comes later.                           *)
LEMMA DominatesIs ==
    ASSUME NEW D, NEW lists \in Seq(Seq(D)), NEW c, NEW d, c # d, Dominates(lists, c, d),
           c \in Found(Ranked(lists)), d \in Found(Ranked(lists))
    PROVE  Before(Ranked(lists), c, d)
<1> DEFINE N == Len(lists)
           S == Seq(D \X Nat)
           I == [i \in 0..N |-> {x \in S : Ahead(x, c, d)}]
           all1 == Ranked(lists)
<1>1. N \in Nat /\ DOMAIN lists = 1..N
  OBVIOUS
<1>2. PICK f : Grows(f, lists, D)
  BY RankedIs
<1>3. \A i \in 0..N : f[i] \in S
  BY <1>2 DEF Grows
<1> HIDE DEF S
<1>4. Ahead(<<>>, c, d)
  <2>1. <<>> \in Seq(D \X Nat) /\ Len(<<>>) = 0
    OBVIOUS
  <2>2. \A n \in 1..Len(<<>>) : FALSE
    BY <2>1
  <2>3. Score(<<>>, c) = 0 /\ Score(<<>>, d) = 0
    <3>1. \A e : Score(<<>>, e) = 0
      <4> SUFFICES ASSUME NEW e PROVE Score(<<>>, e) = 0
        OBVIOUS
      <4>1. \A n \in 1..Len(<<>>) : <<>>[n][1] # e
        BY <2>2
      <4> QED BY <2>1, <4>1, ScoreIsNone
    <3> QED BY <3>1
  <2>4. Score(<<>>, d) <= Score(<<>>, c)
    BY <2>3
  <2> QED BY <2>2, <2>4 DEF Ahead
<1>5. f[0] \in I[0]
  <2>1. f[0] = <<>> /\ 0 \in 0..N
    BY <1>1, <1>2 DEF Grows
  <2> QED BY <1>3, <1>4, <2>1
<1>6. ASSUME NEW i \in 1..N, f[i - 1] \in I[i - 1] PROVE f[i] \in I[i]
  <2>1. i - 1 \in 0..N /\ i \in 0..N /\ lists[i] \in Seq(D)
    BY <1>1
  <2>2. f[i] = f[i - 1] \o Ranks(lists[i])
    BY <1>2 DEF Grows
  <2>3. f[i - 1] \in Seq(D \X Nat) /\ Ahead(f[i - 1], c, d)
    BY <1>6, <2>1 DEF S
  <2>4. Ranks(lists[i]) \in Seq(D \X Nat)
    BY <2>1, RanksIs
  <2>5. Standing(lists[i], c) <= Standing(lists[i], d)
        /\ Cardinality({r \in DOMAIN lists[i] : lists[i][r] = d}) <= 1
    BY <1>1 DEF Dominates
  <2>6. Ahead(Ranks(lists[i]), c, d)
    BY <2>1, <2>5, ListAhead
  <2>7. Ahead(f[i], c, d)
    BY <2>2, <2>3, <2>4, <2>6, ConcatAhead
  <2> QED BY <1>3, <2>1, <2>7
<1>7. \A i \in 0..N : f[i] \in I[i]
  <2> HIDE DEF N, I
  <2> QED BY <1>1, <1>5, <1>6, Kept
<1>8. all1 \in Seq(D \X Nat) /\ Ahead(all1, c, d)
  <2>1. N \in 0..N /\ f[N] = all1
    BY <1>1, <1>2 DEF Grows
  <2>2. f[N] \in S /\ Ahead(f[N], c, d)
    BY <1>7, <2>1
  <2> QED BY <2>1, <2>2 DEF S
<1>9. c \in Found(all1) /\ d \in Found(all1)
  OBVIOUS
<1> HIDE DEF all1
<1>10. First(all1, c) < First(all1, d)
  <2>1. First(all1, d) \in 1..Len(all1) /\ all1[First(all1, d)][1] = d
    BY <1>8, <1>9, FirstIs
  <2>2. PICK m \in 1..(First(all1, d) - 1) : all1[m][1] = c
    BY <1>8, <2>1 DEF Ahead
  <2>3. Len(all1) \in Nat
    BY <1>8
  <2>4. m \in 1..Len(all1) /\ m < First(all1, d) /\ m \in Nat /\ First(all1, d) \in Nat
    BY <2>1, <2>2, <2>3
  <2>5. First(all1, c) <= m /\ First(all1, c) \in 1..Len(all1)
    BY <1>8, <1>9, <2>2, <2>4, FirstIs
  <2>6. First(all1, c) \in Nat
    BY <2>3, <2>5
  <2> QED BY <2>4, <2>5, <2>6
<1>11. Score(all1, d) <= Score(all1, c) /\ Score(all1, c) \in Nat /\ Score(all1, d) \in Nat
  BY <1>8, ScoreIs DEF Ahead
<1>12. Before(all1, c, d)
  BY <1>10, <1>11, BeforeIs
<1> QED BY <1>12 DEF all1

(* All chunks of the lists are ranked, and no others.                      *)
LEMMA FoundAll ==
    ASSUME NEW D, NEW lists \in Seq(Seq(D))
    PROVE  Found(Ranked(lists)) = UNION {ToSet(lists[i]) : i \in DOMAIN lists}
<1> DEFINE N == Len(lists)
           S == Seq(D \X Nat)
           Upto(i) == UNION {ToSet(lists[j]) : j \in 1..i}
           I == [i \in 0..N |-> {x \in S : Found(x) = Upto(i)}]
<1>1. N \in Nat /\ DOMAIN lists = 1..N /\ \A i \in 1..N : lists[i] \in Seq(D)
  OBVIOUS
<1>2. PICK f : Grows(f, lists, D)
  BY RankedIs
<1>3. \A i \in 0..N : f[i] \in S
  BY <1>2 DEF Grows
<1> HIDE DEF S
<1>4. f[0] \in I[0]
  <2>1. f[0] = <<>> /\ 0 \in 0..N
    BY <1>1, <1>2 DEF Grows
  <2>2. Found(<<>>) = {} /\ Upto(0) = {}
    BY DEF Found
  <2> HIDE DEF Upto
  <2> QED BY <1>3, <2>1, <2>2
<1>5. ASSUME NEW i \in 1..N, f[i - 1] \in I[i - 1] PROVE f[i] \in I[i]
  <2>1. i - 1 \in 0..N /\ i \in 0..N /\ lists[i] \in Seq(D) /\ i \in Nat
    BY <1>1
  <2> DEFINE a == f[i - 1]
             b == Ranks(lists[i])
  <2>2. f[i] = a \o b
    BY <1>2 DEF Grows
  <2>3. a \in S /\ Found(a) = Upto(i - 1)
    <3> HIDE DEF Upto
    <3> QED BY <1>5, <2>1
  <2>4. /\ b \in Seq(D \X Nat) /\ Len(b) = Len(lists[i])
        /\ \A r \in 1..Len(lists[i]) : b[r][1] = lists[i][r]
    BY <2>1, RanksIs
  <2>5. ToSet(lists[i]) = {lists[i][r] : r \in 1..Len(lists[i])}
    BY <2>1 DEF ToSet
  <2> HIDE DEF a, b
  <2>6. a \in Seq(D \X Nat)
    BY <2>3 DEF S
  <2> DEFINE x == a \o b
             T == D \X Nat
  <2>7. /\ x \in Seq(T) /\ Len(x) = Len(a) + Len(b)
        /\ \A n \in 1..Len(a) : x[n] = a[n]
        /\ \A n \in 1..Len(b) : x[Len(a) + n] = b[n]
    <3> HIDE DEF T
    <3>1. a \in Seq(T) /\ b \in Seq(T)
      BY <2>4, <2>6 DEF T
    <3> QED BY <3>1, ConcatIs
  <2>8. Len(a) \in Nat /\ Len(b) \in Nat /\ DOMAIN a = 1..Len(a) /\ DOMAIN x = 1..Len(x)
    <3> HIDE DEF x
    <3> QED BY <2>4, <2>6, <2>7
  <2> HIDE DEF x, T
  <2>9. Found(x) \subseteq Found(a) \cup ToSet(lists[i])
    <3> SUFFICES ASSUME NEW n \in 1..Len(x) PROVE x[n][1] \in Found(a) \cup ToSet(lists[i])
      BY <2>8 DEF Found
    <3>1. CASE n <= Len(a)
      <4>1. n \in 1..Len(a)
        BY <2>7, <2>8, <3>1
      <4>2. x[n][1] = a[n][1]
        BY <2>7, <4>1
      <4> QED BY <2>8, <4>1, <4>2 DEF Found
    <3>2. CASE n > Len(a)
      <4> DEFINE k == n - Len(a)
      <4>1. k \in 1..Len(b) /\ n = Len(a) + k
        BY <2>7, <2>8, <3>2
      <4> HIDE DEF k
      <4>2. x[n][1] = lists[i][k]
        BY <2>4, <2>7, <4>1
      <4> QED BY <2>4, <2>5, <4>1, <4>2
    <3> QED BY <2>7, <2>8, <3>1, <3>2
  <2>10. Found(a) \subseteq Found(x)
    <3> SUFFICES ASSUME NEW n \in 1..Len(a) PROVE a[n][1] \in Found(x)
      BY <2>8 DEF Found
    <3>1. n \in 1..Len(x) /\ x[n][1] = a[n][1]
      BY <2>7, <2>8
    <3> QED BY <2>8, <3>1 DEF Found
  <2>11. ToSet(lists[i]) \subseteq Found(x)
    <3> SUFFICES ASSUME NEW r \in 1..Len(lists[i]) PROVE lists[i][r] \in Found(x)
      BY <2>5
    <3>1. r \in 1..Len(b) /\ Len(a) + r \in 1..Len(x)
      BY <2>4, <2>7, <2>8
    <3>2. x[Len(a) + r][1] = lists[i][r]
      BY <2>4, <2>7, <3>1
    <3> QED BY <2>8, <3>1, <3>2 DEF Found
  <2>12. Upto(i) = Upto(i - 1) \cup ToSet(lists[i])
    <3>1. 1..i = (1..(i - 1)) \cup {i}
      BY <2>1
    <3> QED BY <3>1
  <2>13. Found(f[i]) = Upto(i)
    <3> HIDE DEF Upto
    <3> QED BY <2>2, <2>3, <2>9, <2>10, <2>11, <2>12 DEF x
  <2> HIDE DEF Upto
  <2> QED BY <1>3, <2>1, <2>13
<1>6. \A i \in 0..N : f[i] \in I[i]
  <2> HIDE DEF N, I
  <2> QED BY <1>1, <1>4, <1>5, Kept
<1>7. N \in 0..N /\ f[N] = Ranked(lists)
  BY <1>1, <1>2 DEF Grows
<1>8. Found(Ranked(lists)) = Upto(N)
  <2> HIDE DEF Upto
  <2> QED BY <1>6, <1>7
<1> QED BY <1>1, <1>8

(* Fusing loses and repeats no chunk, and one that some source ranks       *)
(* higher than another and no source ranks lower comes first: for any      *)
(* lists.                                                                  *)
LEMMA FusionIs ==
    ASSUME NEW lists \in Seq(Seq(Chunks))
    PROVE  /\ IsInjective(Fused(lists))
           /\ ToSet(Fused(lists)) = UNION {ToSet(lists[i]) : i \in DOMAIN lists}
           /\ \A p \in DOMAIN Fused(lists) : \A o \in 1..(p - 1) :
                 ~Dominates(lists, Fused(lists)[p], Fused(lists)[o])
<1> DEFINE r == Ranked(lists)
           s == Fused(lists)
<1>1. r \in Seq(Chunks \X Nat)
  BY RankedIs
<1>2. s = Sorted[r]
  BY DEF Fused
<1>3. /\ s \in Seq(Chunks) /\ IsInjective(s)
      /\ {s[p] : p \in DOMAIN s} = Found(r)
      /\ \A p \in DOMAIN s : \A o \in 1..(p - 1) : ~Before(r, s[p], s[o])
  <2> HIDE DEF r, s
  <2> QED BY <1>1, <1>2, SortedIs
<1>4. ToSet(s) = Found(r)
  BY <1>3 DEF ToSet
<1>5. Found(r) = UNION {ToSet(lists[i]) : i \in DOMAIN lists}
  BY FoundAll
<1> HIDE DEF s
<1>6. ASSUME NEW p \in DOMAIN s, NEW o \in 1..(p - 1), Dominates(lists, s[p], s[o]) PROVE FALSE
  <2>1. Len(s) \in Nat /\ DOMAIN s = 1..Len(s)
    BY <1>3
  <2>2. o \in DOMAIN s /\ o # p
    BY <2>1
  <2>3. s[p] # s[o] /\ s[p] \in Found(r) /\ s[o] \in Found(r)
    BY <1>3, <2>2 DEF IsInjective
  <2>4. Before(r, s[p], s[o])
    BY <1>6, <2>3, DominatesIs
  <2> QED BY <1>3, <2>4
<1> QED BY <1>3, <1>4, <1>5, <1>6 DEF s

-----------------------------------------------------------------------------
(* What a search returns is a list of chunks.                              *)
LEMMA ListsAre == ASSUME NEW l \in Lists PROVE l \in Seq(Chunks)
<1>1. TopK \in Nat
  <2>1. TopK \in {K, TopK, MaxSubs, RerankTop, MmrTop, MmrFast, FinalTop}
    OBVIOUS
  <2> QED BY <2>1, RetrievalAssumption
<1>2. PICK n \in 0..TopK : l \in [1..n -> Chunks]
  BY DEF Lists
<1> QED BY <1>1, <1>2

(* What the entities add is a list of chunks.                              *)
LEMMA BoostIs == ASSUME NEW es, NEW fs PROVE Boost(es, fs) \in Seq(Chunks)
<1>1. ASSUME NEW S PROVE Selected(S) \in Seq(Chunks)
  <2> DEFINE ks == {i \in DOMAIN Rows : Rows[i] \in S}
  <2>1. Rows \in Seq(Chunks) /\ ks \subseteq DOMAIN Rows
    BY RetrievalAssumption
  <2>2. Selected(S) = Picked(Rows, ks)
    BY DEF Selected
  <2> HIDE DEF ks
  <2> QED BY <2>1, <2>2, PickedIs
<1>2. LowLevel(es) \in Seq(Chunks) /\ HighLevel(fs) \in Seq(Chunks)
  BY <1>1 DEF LowLevel, HighLevel
<1> DEFINE a == LowLevel(es)
           b == HighLevel(fs)
<1> HIDE DEF a, b
<1>3. a \in Seq(Chunks) /\ b \in Seq(Chunks)
  BY <1>2 DEF a, b
<1>4. a \o b \in Seq(Chunks) /\ <<>> \in Seq(Chunks)
  BY <1>3
<1>5. Boost(es, fs) = IF a = <<>> THEN <<>> ELSE a \o b
  BY DEF Boost, a, b
<1> QED BY <1>4, <1>5

(* A search begins within the invariant.                                   *)
LEMMA InitIInv == Init => IInv
<1> SUFFICES ASSUME Init PROVE IInv
  OBVIOUS
<1>1. MaxSubs \in Nat /\ MaxSubs # 0 /\ Asked \in Queries
  BY SettingsAre, RetrievalAssumption
<1>2. SearchInv
  <2>1. ~retry /\ retry \in BOOLEAN /\ pc = "start" /\ subs = 1 /\ mode \in Modes /\ query = Asked
    BY DEF Init
  <2>2. subs \in 1..MaxSubs
    BY <1>1, <2>1
  <2> QED BY <1>1, <2>1, <2>2 DEF SearchInv
<1>3. ListsInv
  BY DEF Init, ListsInv
<1>4. PoolInv
  BY DEF Init, PoolInv
<1> QED BY <1>2, <1>3, <1>4 DEF IInv

(* Starting finds at least one sub-query to search.                        *)
LEMMA StartIInv == IInv /\ Start => IInv'
<1> SUFFICES ASSUME IInv, Start PROVE IInv'
  OBVIOUS
<1>1. MaxSubs \in Nat /\ MaxSubs # 0
  BY SettingsAre
<1>2. subs' \in 1..MaxSubs
  BY <1>1 DEF Start, SubQueries
<1>3. SearchInv'
  BY <1>2 DEF IInv, SearchInv, Start
<1>4. ListsInv'
  BY <1>1, <1>2 DEF IInv, ListsInv, Start
<1>5. PoolInv'
  BY DEF IInv, PoolInv, Start
<1> QED BY <1>3, <1>4, <1>5 DEF IInv

(* The vector search, or two of them fused, gives a list of chunks.        *)
LEMMA SearchVectorsIInv == IInv /\ SearchVectors => IInv'
<1> SUFFICES ASSUME IInv, SearchVectors PROVE IInv'
  OBVIOUS
<1>1. vec' \in Seq(Chunks)
  <2>1. PICK one \in Lists : vec' = one \/ \E two \in Lists : vec' = Fused(<<one, two>>)
    <3>1. Nearest(query) \subseteq Lists
      BY DEF Nearest
    <3> QED BY <3>1 DEF SearchVectors
  <2>2. CASE vec' = one
    BY <2>1, <2>2, ListsAre
  <2>3. CASE \E two \in Lists : vec' = Fused(<<one, two>>)
    <3>1. PICK two \in Lists : vec' = Fused(<<one, two>>)
      BY <2>3
    <3>2. one \in Seq(Chunks) /\ two \in Seq(Chunks)
      BY <2>1, <3>1, ListsAre
    <3>3. <<one, two>> \in Seq(Seq(Chunks))
      BY <3>2
    <3> QED BY <3>1, <3>3, FusedIs
  <2> QED BY <2>1, <2>2, <2>3
<1>2. SearchInv'
  BY DEF IInv, SearchInv, SearchVectors
<1>3. ListsInv'
  BY <1>1 DEF IInv, ListsInv, SearchVectors
<1>4. PoolInv'
  BY DEF IInv, PoolInv, SearchVectors
<1> QED BY <1>2, <1>3, <1>4 DEF IInv

(* The sources of a sub-query are lists of chunks.                         *)
LEMMA GatherIInv == IInv /\ Gather => IInv'
<1> SUFFICES ASSUME IInv, Gather PROVE IInv'
  OBVIOUS
<1>1. sources' \in Seq(Seq(Chunks))
  <2>1. PICK fts \in Lists, matched \in SUBSET Entities :
            \E named \in SUBSET matched : sources' = <<vec, fts, Boost(matched, named)>>
    BY DEF Gather
  <2>2. PICK named \in SUBSET matched : sources' = <<vec, fts, Boost(matched, named)>>
    BY <2>1
  <2>3. fts \in Seq(Chunks) /\ Boost(matched, named) \in Seq(Chunks) /\ vec \in Seq(Chunks)
    BY <2>1, ListsAre, BoostIs DEF IInv, ListsInv
  <2> DEFINE b == Boost(matched, named)
  <2> HIDE DEF b
  <2>4. <<vec, fts, b>> \in Seq(Seq(Chunks))
    BY <2>3 DEF b
  <2> QED BY <2>2, <2>4 DEF b
<1>2. SearchInv'
  BY DEF IInv, SearchInv, Gather
<1>3. ListsInv'
  <2>1. vec' \in Seq(Chunks)
    BY DEF Gather
  <2> QED BY <1>1, <2>1 DEF IInv, ListsInv, Gather
<1>4. PoolInv'
  BY DEF IInv, PoolInv, Gather
<1> QED BY <1>2, <1>3, <1>4 DEF IInv

(* The fusion of a single sub-query repeats no chunk.                      *)
LEMMA FuseSourcesIInv == IInv /\ FuseSources => IInv'
<1> SUFFICES ASSUME IInv, FuseSources PROVE IInv'
  OBVIOUS
<1>1. /\ pc = "fuse" /\ all \in Seq(Chunks) /\ left \in 1..subs /\ (left = subs => all = <<>>)
      /\ subs \in 1..MaxSubs /\ MaxSubs \in Nat
  BY SettingsAre DEF IInv, ListsInv, SearchInv, FuseSources
<1> DEFINE f == Fused(sources)
<1>2. f \in Seq(Chunks) /\ IsInjective(f)
  BY FusedIs DEF IInv, ListsInv
<1>3. all' = all \o f /\ left' = left - 1 /\ pc' = IF left = 1 THEN "merge" ELSE "vectors"
  BY DEF FuseSources
<1> HIDE DEF f
<1>4. all' \in Seq(Chunks)
  BY <1>1, <1>2, <1>3
<1>5. pc' = "merge" /\ subs' = 1 => IsInjective(all')
  <2> SUFFICES ASSUME pc' = "merge", subs' = 1 PROVE IsInjective(all')
    OBVIOUS
  <2>1. subs = 1 /\ left = 1
    BY <1>1 DEF FuseSources
  <2>2. all' = f
    BY <1>1, <1>2, <1>3, <2>1
  <2> QED BY <1>2, <2>2
<1>6. pc' \in {"vectors", "gather", "fuse"} => left' \in 1..subs' /\ left' # subs'
  <2>1. subs' = subs
    BY DEF FuseSources
  <2> QED BY <1>1, <1>3, <2>1
<1>7. SearchInv'
  BY DEF IInv, SearchInv, FuseSources
<1>8. ListsInv'
  <2>1. vec' \in Seq(Chunks) /\ sources' \in Seq(Seq(Chunks))
    BY DEF IInv, ListsInv, FuseSources
  <2> QED BY <1>4, <1>5, <1>6, <2>1 DEF ListsInv
<1>9. PoolInv'
  BY DEF IInv, PoolInv, FuseSources
<1> QED BY <1>7, <1>8, <1>9 DEF IInv

(* Merging repeats no chunk: several sub-queries are fused again.          *)
LEMMA MergeIInv == IInv /\ Merge => IInv'
<1> SUFFICES ASSUME IInv, Merge PROVE IInv'
  OBVIOUS
<1>1. /\ pc = "merge" /\ all \in Seq(Chunks) /\ (subs = 1 => IsInjective(all))
      /\ subs \in Nat /\ subs >= 1
  <2>1. subs \in 1..MaxSubs /\ MaxSubs \in Nat
    BY SettingsAre DEF IInv, SearchInv
  <2> QED BY <2>1 DEF IInv, ListsInv, Merge
<1>2. pool' \in Seq(Chunks) /\ IsInjective(pool')
  <2>1. CASE subs > 1
    <3> DEFINE one == [i \in DOMAIN all |-> <<all[i]>>]
    <3>1. one \in Seq(Seq(Chunks))
      <4>1. DOMAIN all = 1..Len(all) /\ Len(all) \in Nat /\ \A i \in DOMAIN all : all[i] \in Chunks
        BY <1>1
      <4>2. \A i \in DOMAIN all : <<all[i]>> \in Seq(Chunks)
        BY <4>1
      <4>3. one \in [1..Len(all) -> Seq(Chunks)]
        BY <4>1, <4>2
      <4> HIDE DEF one
      <4> QED BY <4>1, <4>3
    <3>2. pool' = Fused(one)
      BY <2>1 DEF Merge
    <3> HIDE DEF one
    <3> QED BY <3>1, <3>2, FusedIs
  <2>2. CASE ~(subs > 1)
    <3>1. subs = 1 /\ pool' = all
      BY <1>1, <2>2 DEF Merge
    <3> QED BY <1>1, <3>1
  <2> QED BY <2>1, <2>2
<1>3. SearchInv'
  BY DEF IInv, SearchInv, Merge
<1>4. ListsInv'
  BY DEF IInv, ListsInv, Merge
<1>5. PoolInv'
  <2>1. pc' \in {"answer", "rerank"} /\ (pc' = "answer" => mode' = "fast")
    BY DEF Merge
  <2> QED BY <1>2, <2>1 DEF IInv, PoolInv, Merge
<1> QED BY <1>3, <1>4, <1>5 DEF IInv

(* The cross-encoder, if there is one, permutes and cuts the pool.         *)
LEMMA RerankIInv == IInv /\ Rerank => IInv'
<1> SUFFICES ASSUME IInv, Rerank PROVE IInv'
  OBVIOUS
<1>1. pc = "rerank" /\ pool \in Seq(Chunks) /\ IsInjective(pool) /\ RerankTop \in Nat
  BY SettingsAre DEF IInv, PoolInv, Rerank
<1>2. ASSUME NEW order \in SetToSeqs(DOMAIN pool),
             pool' = UpTo([i \in DOMAIN pool |-> pool[order[i]]], RerankTop)
      PROVE  pool' \in Seq(Chunks) /\ IsInjective(pool')
  <2> DEFINE s == [i \in DOMAIN pool |-> pool[order[i]]]
  <2>3. DOMAIN pool = 1..Len(pool) /\ Len(pool) \in Nat
    BY <1>1
  <2>4. /\ order \in [1..Len(pool) -> DOMAIN pool]
        /\ \A i, j \in 1..Len(pool) : order[i] = order[j] => i = j
    <3>1. Cardinality(DOMAIN pool) = Len(pool)
      BY <2>3, IntervalIs
    <3> QED BY <3>1 DEF SetToSeqs, IsInjective
  <2>5. \A i \in 1..Len(pool) : s[i] = pool[order[i]] /\ order[i] \in DOMAIN pool /\ s[i] \in Chunks
    BY <1>1, <2>3, <2>4
  <2>6. s \in Seq(Chunks) /\ DOMAIN s = 1..Len(pool) /\ IsInjective(s)
    <3>1. s \in [1..Len(pool) -> Chunks]
      BY <2>3, <2>5
    <3>2. s \in Seq(Chunks) /\ DOMAIN s = 1..Len(pool)
      BY <2>3, <3>1
    <3> HIDE DEF s
    <3>3. ASSUME NEW i \in 1..Len(pool), NEW j \in 1..Len(pool), s[i] = s[j] PROVE i = j
      <4>1. order[i] = order[j]
        BY <1>1, <2>5, <3>3 DEF IsInjective
      <4> QED BY <2>4, <4>1
    <3> QED BY <3>2, <3>3 DEF IsInjective
  <2> HIDE DEF s
  <2>7. /\ pool' \in Seq(Chunks) /\ Len(pool') = Min({RerankTop, Len(s)})
        /\ DOMAIN pool' \subseteq DOMAIN s /\ \A i \in DOMAIN pool' : pool'[i] = s[i]
    <3>1. pool' = UpTo(s, RerankTop)
      BY <1>2 DEF s
    <3> QED BY <1>1, <2>6, <3>1, UpToIs
  <2>8. IsInjective(pool')
    BY <2>6, <2>7 DEF IsInjective
  <2> QED BY <2>7, <2>8
<1>3. pool' \in Seq(Chunks) /\ IsInjective(pool')
  BY <1>1, <1>2 DEF Rerank, Reordered
<1>4. SearchInv'
  BY DEF IInv, SearchInv, Rerank
<1>5. ListsInv'
  BY DEF IInv, ListsInv, Rerank
<1>6. PoolInv'
  <2>1. pc' \in {"answer", "grade"}
    BY DEF Rerank
  <2> QED BY <1>3, <2>1 DEF IInv, PoolInv, Rerank
<1> QED BY <1>4, <1>5, <1>6 DEF IInv

(* What a retry may give way to is the pool that was graded.               *)
LEMMA GradeIInv == IInv /\ Grade => IInv'
<1> SUFFICES ASSUME IInv, Grade PROVE IInv'
  OBVIOUS
<1>1. /\ pc = "grade" /\ pool \in Seq(Chunks) /\ IsInjective(pool)
      /\ mode # "fast" /\ query \in Queries /\ ~retry
  BY DEF IInv, SearchInv, PoolInv, Grade
<1>2. \/ query' \in Queries /\ retry' = TRUE /\ held' = {pool} /\ pc' = "start"
      \/ pc' = "answer" /\ UNCHANGED <<query, retry, held>>
  BY <1>1 DEF Grade, Retried
<1>3. UNCHANGED <<mode, subs, left, vec, sources, all, pool, high, answer>>
  BY DEF Grade
<1>4. SearchInv'
  <2>1. mode \in Modes /\ subs \in 1..MaxSubs
    BY DEF IInv, SearchInv
  <2>2. CASE query' \in Queries /\ retry' = TRUE /\ held' = {pool} /\ pc' = "start"
    <3>1. held' # {} /\ retry' \in BOOLEAN /\ mode' # "fast" /\ pc' # "failed" /\ pc' # "grade"
      BY <1>1, <1>3, <2>2
    <3> QED BY <1>3, <2>1, <2>2, <3>1 DEF SearchInv
  <2>3. CASE pc' = "answer" /\ UNCHANGED <<query, retry, held>>
    BY <1>1, <1>3, <2>3 DEF IInv, SearchInv
  <2> QED BY <1>2, <2>2, <2>3
<1>5. ListsInv'
  BY <1>1, <1>2, <1>3 DEF IInv, ListsInv
<1>6. PoolInv'
  BY <1>1, <1>2, <1>3 DEF IInv, PoolInv
<1> QED BY <1>4, <1>5, <1>6 DEF IInv

(* Answering leaves the pool alone.                                        *)
LEMMA AnswerIInv == IInv /\ Answer => IInv'
<1> SUFFICES ASSUME IInv, Answer PROVE IInv'
  OBVIOUS
<1>1. pc = "answer" /\ pc' = "done" /\ high' \in 0..Len(pool) /\ pool \in Seq(Chunks)
      /\ UNCHANGED <<mode, query, retry, subs, left, vec, sources, all, pool, held>>
  BY DEF IInv, PoolInv, Answer
<1>2. SearchInv'
  BY <1>1 DEF IInv, SearchInv
<1>3. ListsInv'
  BY <1>1 DEF IInv, ListsInv
<1>4. PoolInv'
  <2>1. high' \in Nat /\ high' <= Len(pool)
    BY <1>1
  <2> QED BY <1>1, <2>1 DEF IInv, PoolInv
<1> QED BY <1>2, <1>3, <1>4 DEF IInv

(* After a failure the pool is that of the search that awaited the retry.  *)
LEMMA FailIInv == IInv /\ Fail => IInv'
<1> SUFFICES ASSUME IInv, Fail PROVE IInv'
  OBVIOUS
<1>1. /\ vec' = <<>> /\ sources' = <<>> /\ all' = <<>> /\ left' = 0
      /\ UNCHANGED <<mode, subs, high, held, answer>>
  BY DEF Fail
<1>2. CASE retry
  <2>1. pc' = "answer" /\ query' = Asked /\ retry' = FALSE /\ pool' \in held
    BY <1>2 DEF Fail, FallBack
  <2>2. Asked \in Queries
    BY RetrievalAssumption
  <2>3. SearchInv'
    BY <1>1, <2>1, <2>2 DEF IInv, SearchInv
  <2>4. ListsInv'
    BY <1>1, <2>1 DEF IInv, ListsInv
  <2>5. PoolInv'
    BY <1>1, <2>1 DEF IInv, PoolInv
  <2> QED BY <2>3, <2>4, <2>5 DEF IInv
<1>3. CASE ~retry
  <2>1. pc' = "failed" /\ UNCHANGED <<query, retry, pool>>
    BY <1>3 DEF Fail
  <2>3. SearchInv'
    BY <1>1, <1>3, <2>1 DEF IInv, SearchInv
  <2>4. ListsInv'
    BY <1>1, <2>1 DEF IInv, ListsInv
  <2>5. PoolInv'
    BY <1>1, <2>1 DEF IInv, PoolInv
  <2> QED BY <2>3, <2>4, <2>5 DEF IInv
<1> QED BY <1>2, <1>3

(* Every step of the search preserves the invariant.                       *)
LEMMA NextIInv == IInv /\ [Next]_vars => IInv'
<1> SUFFICES ASSUME IInv, [Next]_vars PROVE IInv'
  OBVIOUS
<1>1. CASE UNCHANGED vars
  BY <1>1 DEF vars, IInv, SearchInv, ListsInv, PoolInv
<1> QED BY <1>1, StartIInv, SearchVectorsIInv, GatherIInv, FuseSourcesIInv, MergeIInv,
           RerankIInv, GradeIInv, AnswerIInv, FailIInv DEF Next, Progress

(* What a search has found, merged and kept is well-formed all along: no   *)
(* chunk is twice in a pool that is ranked, also that of the search a      *)
(* retry may give way to.                                                  *)
THEOREM SearchInvariant == Spec => []IInv
<1>1. Init => IInv
  BY InitIInv
<1>2. IInv /\ [Next]_vars => IInv'
  BY NextIInv
<1> QED BY <1>1, <1>2, PTL DEF Spec

(* The answer is without repeats, as long as the pool allows, and not      *)
(* emptied by a threshold, where MMR keeps what an answer may hold.        *)
THEOREM SearchFullAnswer ==
    ASSUME MmrWide
    PROVE  Spec => []FullAnswer
<1>1. Init => FullAnswer
  BY DEF Init, FullAnswer
<1>2. IInv /\ FullAnswer /\ [Next]_vars => FullAnswer'
  <2> SUFFICES ASSUME IInv, FullAnswer, [Next]_vars PROVE FullAnswer'
    OBVIOUS
  <2>1. CASE Answer
    <3>1. /\ pc = "answer" /\ query \in Queries /\ pool \in Seq(Chunks) /\ IsInjective(pool)
      BY <2>1 DEF IInv, SearchInv, PoolInv, Answer
    <3>2. PICK n \in 0..Len(pool) : high' = n
      BY <2>1 DEF Answer
    <3>3. PICK order : order = Mmr(query, pool, MmrN)
      OBVIOUS
    <3>4. answer' = Final(order, n)
      BY <2>1, <3>2, <3>3 DEF Answer, MmrN
    <3>5. /\ IsInjective(Final(order, n))
          /\ pool # <<>> => Final(order, n) # <<>>
          /\ n = Len(pool) /\ (mode = "max" => Len(pool) <= MmrTop) =>
                Len(Final(order, n)) = Min({FinalTop, Cardinality({Given(i) : i \in DOMAIN pool})})
      BY <3>1, <3>3, FinalIs
    <3>6. pool' = pool /\ mode' = mode
      BY <2>1 DEF Answer
    <3>7. {Given(i) : i \in DOMAIN pool}' = {Given(i) : i \in DOMAIN pool}
      BY <3>6 DEF Given
    <3> QED BY <3>2, <3>4, <3>5, <3>6, <3>7 DEF FullAnswer
  <2>2. CASE UNCHANGED vars
    BY <2>2 DEF vars, FullAnswer, Given
  <2>3. CASE (Start \/ SearchVectors \/ Gather \/ FuseSources \/ Merge \/ Rerank \/ Grade) \/ Fail
    <3>1. pc' # "done"
      BY <2>3 DEF Start, SearchVectors, Gather, FuseSources, Merge, Rerank, Grade, Retried, Fail,
         FallBack
    <3> QED BY <3>1 DEF FullAnswer
  <2> QED BY <2>1, <2>2, <2>3 DEF Next, Progress
<1>3. Spec => []IInv
  BY SearchInvariant
<1> QED BY <1>1, <1>2, <1>3, PTL DEF Spec

(* Fusing loses and repeats no chunk, and a dominated one comes later.     *)
THEOREM SearchDominantComesFirst == Spec => []DominantComesFirst
<1>1. IInv => DominantComesFirst
  <2> SUFFICES ASSUME IInv PROVE DominantComesFirst
    OBVIOUS
  <2>1. sources \in Seq(Seq(Chunks))
    BY DEF IInv, ListsInv
  <2>2. /\ IsInjective(Fused(sources))
        /\ ToSet(Fused(sources)) = UNION {ToSet(sources[i]) : i \in DOMAIN sources}
        /\ \A p \in DOMAIN Fused(sources) : \A o \in 1..(p - 1) :
              ~Dominates(sources, Fused(sources)[p], Fused(sources)[o])
    BY <2>1, FusionIs
  <2> QED BY <2>2 DEF DominantComesFirst, Dominates
<1>2. Spec => []IInv
  BY SearchInvariant
<1> QED BY <1>1, <1>2, PTL

-----------------------------------------------------------------------------
(* What is picked starts with the first, if that is to be kept.            *)
LEMMA PickedFirst ==
    ASSUME NEW D, NEW s \in Seq(D), NEW ks, ks \subseteq DOMAIN s, 1 \in ks
    PROVE  /\ 1 \in DOMAIN Picked(s, ks)
           /\ Picked(s, ks)[1] = s[1]
<1> DEFINE C == Cardinality(ks)
           a == Ascending(ks)
<1>1. Len(s) \in Nat /\ DOMAIN s = 1..Len(s)
  OBVIOUS
<1>2. /\ C \in Nat /\ a \in [1..C -> ks]
      /\ \A m, n \in 1..C : m < n => a[m] < a[n]
      /\ \A k \in ks : \E n \in 1..C : a[n] = k
  BY <1>1, AscendingIs
<1> HIDE DEF a, C
<1>3. PICK n \in 1..C : a[n] = 1
  BY <1>2
<1>4. 1 \in 1..C
  BY <1>2, <1>3
<1>5. n = 1
  <2>1. a[1] \in 1..Len(s)
    BY <1>1, <1>2, <1>4
  <2>2. 1 < n => a[1] < 1
    BY <1>2, <1>3, <1>4
  <2> QED BY <1>1, <1>2, <2>1, <2>2
<1>6. Picked(s, ks) = [m \in 1..C |-> s[a[m]]]
  BY DEF Picked, C, a
<1> QED BY <1>3, <1>4, <1>5, <1>6

(* MMR selects first what is most relevant to the query, where relevance   *)
(* counts at all.                                                          *)
LEMMA MmrFirst ==
    ASSUME Lambda # 0, NEW q \in Queries, NEW s \in Seq(Chunks), s # <<>>, NEW n \in Nat, n # 0
    PROVE  /\ 1 \in DOMAIN Mmr(q, s, n) /\ Mmr(q, s, n)[1] \in DOMAIN s
           /\ \A j \in DOMAIN s : Rel[q][s[Mmr(q, s, n)[1]]] >= Rel[q][s[j]]
<1> DEFINE o == Mmr(q, s, n)
<1>1. Len(s) \in Nat /\ Len(s) > 0 /\ DOMAIN s = 1..Len(s)
  OBVIOUS
<1>2. o \in Seq(DOMAIN s) /\ Len(o) = Min({n, Len(s)}) /\ Greedy(q, s, o)
  <2>1. PICK p \in [1..Min({n, Len(s)}) -> DOMAIN s] : Greedy(q, s, p)
    <3>1. Min({n, Len(s)}) \in 0..Len(s)
      BY <1>1, MinOf
    <3> QED BY <3>1, GreedyExists
  <2>2. Greedy(q, s, o)
    BY <2>1 DEF Mmr
  <2> QED BY <2>2, MmrIs
<1> HIDE DEF o
<1>3. 1 \in DOMAIN o
  <2>1. Min({n, Len(s)}) = n \/ Min({n, Len(s)}) = Len(s)
    BY <1>1, MinOf
  <2> QED BY <1>1, <1>2, <2>1
<1>4. \A j \in DOMAIN s : Exceeds(q, s, {}, o[1], j)
  <2>1. {o[h] : h \in 1..(1 - 1)} = {}
    OBVIOUS
  <2> QED BY <1>2, <1>3, <2>1 DEF Greedy
<1>5. o[1] \in DOMAIN s
  BY <1>2, <1>3
<1>6. ASSUME NEW j \in DOMAIN s PROVE Rel[q][s[o[1]]] >= Rel[q][s[j]]
  <2> DEFINE x == Rel[q][s[o[1]]]
             y == Rel[q][s[j]]
  <2>1. x \in -10..10 /\ y \in -10..10 /\ Lambda \in 1..10
    <3>1. s[o[1]] \in Chunks /\ s[j] \in Chunks
      BY <1>1, <1>5
    <3>2. Rel \in [Queries -> [Chunks -> -10..10]] /\ Lambda \in 0..10
      BY RetrievalAssumption
    <3> QED BY <3>1, <3>2
  <2>2. Lambda * x - (10 - Lambda) * 0 >= Lambda * y - (10 - Lambda) * 0
    <3>1. /\ Marginal(q, s[o[1]], {}) = Lambda * x - (10 - Lambda) * 0
          /\ Marginal(q, s[j], {}) = Lambda * y - (10 - Lambda) * 0
      BY DEF Marginal
    <3>2. {s[h] : h \in {}} = {}
      OBVIOUS
    <3>3. \/ Marginal(q, s[o[1]], {}) > Marginal(q, s[j], {})
          \/ Marginal(q, s[o[1]], {}) = Marginal(q, s[j], {})
      BY <1>4, <3>2 DEF Exceeds
    <3>4. Marginal(q, s[o[1]], {}) \in Int /\ Marginal(q, s[j], {}) \in Int
      <4>1. s[o[1]] \in Chunks /\ s[j] \in Chunks
        BY <1>1, <1>5
      <4> QED BY <4>1, MarginalIs
    <3> HIDE DEF x, y
    <3> QED BY <3>1, <3>3, <3>4
  <2> HIDE DEF x, y
  <2>3. Lambda * x >= Lambda * y
    BY <2>1, <2>2
  <2>4. x >= y
    BY <2>1, <2>3
  <2> QED BY <2>4 DEF x, y
<1> QED BY <1>3, <1>5, <1>6 DEF o

(* Neither the parents nor the cut take away what MMR selected first.      *)
LEMMA FinalFirst ==
    ASSUME NEW D, NEW order \in Seq(D), order # <<>>, NEW n \in Nat, D \subseteq 1..n
    PROVE  1 \in DOMAIN Final(order, n) /\ Final(order, n)[1] = Given(order[1])
<1> DEFINE base == IF mode = "max" THEN Expanded(order) ELSE order
           above == Above(base, n)
           kept == UpTo(above, FinalTop)
<1>1. Len(order) \in Nat /\ Len(order) > 0 /\ DOMAIN order = 1..Len(order) /\ 1 \in DOMAIN order
  OBVIOUS
<1>2. base \in Seq(D) /\ 1 \in DOMAIN base /\ base[1] = order[1]
  <2>1. CASE mode = "max"
    <3> DEFINE firsts == {k \in DOMAIN order :
                             \A h \in 1..(k - 1) : Group[pool[order[h]]] # Group[pool[order[k]]]}
    <3>1. firsts \subseteq DOMAIN order /\ 1 \in firsts
      BY <1>1
    <3>2. base = Picked(order, firsts)
      BY <2>1 DEF Expanded
    <3> HIDE DEF firsts, base
    <3> QED BY <3>1, <3>2, PickedIs, PickedFirst
  <2>2. CASE mode # "max"
    BY <1>1, <2>2
  <2> QED BY <2>1, <2>2
<1> HIDE DEF base
<1>3. above \in Seq(D) /\ 1 \in DOMAIN above /\ above[1] = base[1]
  <2> DEFINE ks == {k \in DOMAIN base : base[k] <= n}
  <2>1. ks \subseteq DOMAIN base /\ 1 \in ks
    <3>1. \A k \in DOMAIN base : base[k] \in D
      BY <1>2
    <3>2. \A x \in D : x <= n
      OBVIOUS
    <3>3. base[1] \in D
      BY <1>2, <3>1
    <3> QED BY <1>2, <3>2, <3>3
  <2>2. above = IF Picked(base, ks) = <<>> THEN UpTo(base, 1) ELSE Picked(base, ks)
    BY DEF Above
  <2> HIDE DEF ks, above
  <2>3. Picked(base, ks) \in Seq(D) /\ 1 \in DOMAIN Picked(base, ks) /\ Picked(base, ks)[1] = base[1]
    BY <1>2, <2>1, PickedIs, PickedFirst
  <2>4. Picked(base, ks) # <<>>
    BY <2>3
  <2> QED BY <2>2, <2>3, <2>4
<1> HIDE DEF above
<1>4. 1 \in DOMAIN kept /\ kept[1] = above[1]
  <2>1. /\ kept \in Seq(D) /\ Len(kept) = Min({FinalTop, Len(above)})
        /\ \A i \in DOMAIN kept : kept[i] = above[i]
    BY <1>3, SettingsAre, UpToIs
  <2>2. Len(above) \in Nat /\ Len(above) > 0
    BY <1>3
  <2>3. Min({FinalTop, Len(above)}) = FinalTop \/ Min({FinalTop, Len(above)}) = Len(above)
    BY <2>2, SettingsAre, MinOf
  <2> HIDE DEF kept
  <2>4. 1 \in DOMAIN kept
    BY <2>1, <2>2, <2>3, SettingsAre
  <2> QED BY <2>1, <2>4
<1>5. Final(order, n) = [k \in DOMAIN kept |-> Given(kept[k])]
  BY DEF Final, kept, above, base
<1> HIDE DEF kept
<1> QED BY <1>2, <1>3, <1>4, <1>5

(* A search that does not retry is the one that was asked, also after a    *)
(* retry that failed.                                                      *)
AsksWhatItRuns == ~retry => query = Asked

(* Where relevance counts, and without a threshold, the answer starts with *)
(* the best of the pool or its parent: neither diversity nor parents nor   *)
(* the cut cost the best result its place.                                 *)
THEOREM SearchBestFirst ==
    ASSUME Lambda # 0
    PROVE  Spec => []BestFirst
<1>1. Init => BestFirst /\ AsksWhatItRuns
  BY DEF Init, BestFirst, AsksWhatItRuns
<1>2. IInv /\ BestFirst /\ AsksWhatItRuns /\ [Next]_vars => (BestFirst /\ AsksWhatItRuns)'
  <2> SUFFICES ASSUME IInv, BestFirst, AsksWhatItRuns, [Next]_vars
               PROVE  (BestFirst /\ AsksWhatItRuns)'
    OBVIOUS
  <2>1. CASE Answer
    <3>1. /\ pc = "answer" /\ query \in Queries /\ pool \in Seq(Chunks)
          /\ UNCHANGED <<mode, query, retry, pool>>
      BY <2>1 DEF IInv, SearchInv, PoolInv, Answer
    <3>2. AsksWhatItRuns' /\ Running' = query
      BY <3>1 DEF AsksWhatItRuns, Running
    <3>3. ASSUME high' = Len(pool), pool # <<>>
          PROVE  \E i \in DOMAIN pool :
                    /\ \A j \in DOMAIN pool : Rel[query][pool[i]] >= Rel[query][pool[j]]
                    /\ answer' # <<>> /\ answer'[1] = Given(i)
      <4>1. PICK order : order = Mmr(query, pool, MmrN)
        OBVIOUS
      <4>2. answer' = Final(order, Len(pool))
        BY <2>1, <3>3, <4>1 DEF Answer, MmrN
      <4>3. MmrN \in Nat /\ MmrN # 0
        <5>1. MmrFast # 0 /\ MmrTop # 0
          <6>1. MmrFast \in {K, TopK, MaxSubs, RerankTop, MmrTop, MmrFast, FinalTop}
            OBVIOUS
          <6>2. MmrTop \in {K, TopK, MaxSubs, RerankTop, MmrTop, MmrFast, FinalTop}
            OBVIOUS
          <6> QED BY <6>1, <6>2, RetrievalAssumption
        <5> QED BY <5>1, SettingsAre DEF MmrN
      <4>4. /\ 1 \in DOMAIN order /\ order[1] \in DOMAIN pool
            /\ \A j \in DOMAIN pool : Rel[query][pool[order[1]]] >= Rel[query][pool[j]]
        BY <3>1, <3>3, <4>1, <4>3, MmrFirst
      <4>5. order \in Seq(DOMAIN pool)
        BY <3>1, <4>1, <4>3, MmrIs
      <4>6. Len(pool) \in Nat /\ DOMAIN pool \subseteq 1..Len(pool) /\ order # <<>>
        BY <3>1, <4>4
      <4>7. 1 \in DOMAIN answer' /\ answer'[1] = Given(order[1])
        BY <4>2, <4>5, <4>6, FinalFirst
      <4>8. answer' # <<>>
        BY <4>7
      <4> QED BY <4>4, <4>7, <4>8
    <3>4. \A i \in DOMAIN pool : Given(i)' = Given(i)
      BY <3>1 DEF Given
    <3>5. BestFirst'
      BY <3>1, <3>2, <3>3, <3>4 DEF BestFirst
    <3> QED BY <3>2, <3>5
  <2>2. CASE UNCHANGED vars
    BY <2>2 DEF vars, BestFirst, AsksWhatItRuns, Given, Running
  <2>3. CASE (Start \/ SearchVectors \/ Gather \/ FuseSources \/ Merge \/ Rerank \/ Grade) \/ Fail
    <3>1. pc' # "done"
      BY <2>3 DEF Start, SearchVectors, Gather, FuseSources, Merge, Rerank, Grade, Retried, Fail, FallBack
    <3>2. AsksWhatItRuns'
      BY <2>3 DEF AsksWhatItRuns, Start, SearchVectors, Gather, FuseSources, Merge, Rerank, Grade,
                  Retried, Fail, FallBack
    <3> QED BY <3>1, <3>2 DEF BestFirst
  <2> QED BY <2>1, <2>2, <2>3 DEF Next, Progress
<1>3. Spec => []IInv
  BY SearchInvariant
<1> QED BY <1>1, <1>2, <1>3, PTL DEF Spec

-----------------------------------------------------------------------------
(* From the ranking x to the ranking y chunk c gains and no other does: in *)
(* score, and in where it is found first.                                  *)
Raised(x, y, c, D) ==
    /\ Len(x) = Len(y)
    /\ Score(x, c) <= Score(y, c)
    /\ \A e \in D : e # c => Score(y, e) <= Score(x, e)
    /\ \A n \in 1..Len(x) : x[n][1] = c => \E m \in 1..n : y[m][1] = c
    /\ \A n \in 1..Len(x) : y[n][1] # c => \E m \in 1..n : x[m][1] = y[n][1]

(* Nobody gains where nothing changes.                                     *)
LEMMA RaisedSame ==
    ASSUME NEW D, NEW x \in Seq(D \X Nat), NEW c
    PROVE  Raised(x, x, c, D)
<1>1. Score(x, c) \in Nat /\ \A e \in D : Score(x, e) \in Nat
  BY ScoreIs
<1>2. \A n \in 1..Len(x) : n \in 1..n
  OBVIOUS
<1> QED BY <1>1, <1>2 DEF Raised

(* One after the other, rankings in which c gains let it gain.             *)
LEMMA RaisedConcat ==
    ASSUME NEW D, NEW a \in Rankings(D), NEW b \in Rankings(D), NEW s \in Rankings(D),
           NEW t \in Rankings(D), NEW c \in D, Raised(a, s, c, D), Raised(b, t, c, D)
    PROVE  Raised(a \o b, s \o t, c, D)
<1> DEFINE x == a \o b
           y == s \o t
           S == D \X Nat
<1>0. a \in Seq(S) /\ b \in Seq(S) /\ s \in Seq(S) /\ t \in Seq(S)
  BY DEF Rankings
<1>1. /\ x \in Seq(S) /\ Len(x) = Len(a) + Len(b)
      /\ \A n \in 1..Len(a) : x[n] = a[n]
      /\ \A n \in 1..Len(b) : x[Len(a) + n] = b[n]
  <2> HIDE DEF S
  <2> QED BY <1>0, ConcatIs
<1>2. /\ y \in Seq(S) /\ Len(y) = Len(s) + Len(t)
      /\ \A n \in 1..Len(s) : y[n] = s[n]
      /\ \A n \in 1..Len(t) : y[Len(s) + n] = t[n]
  <2> HIDE DEF S
  <2> QED BY <1>0, ConcatIs
<1> DEFINE A == Len(a)
           B == Len(b)
<1>3. A \in Nat /\ B \in Nat /\ Len(s) = A /\ Len(t) = B
  BY <1>0 DEF Raised
<1>4. ASSUME NEW e \in D
      PROVE  /\ Score(x, e) = Score(a, e) + Score(b, e) /\ Score(y, e) = Score(s, e) + Score(t, e)
             /\ Score(a, e) \in Nat /\ Score(b, e) \in Nat
             /\ Score(s, e) \in Nat /\ Score(t, e) \in Nat
  BY <1>0, ScoreAdds, ScoreIs
<1> HIDE DEF x, y, S
<1>5. Score(x, c) <= Score(y, c)
  <2>1. Score(a, c) <= Score(s, c) /\ Score(b, c) <= Score(t, c)
    BY DEF Raised
  <2> QED BY <1>4, <2>1
<1>6. ASSUME NEW e \in D, e # c PROVE Score(y, e) <= Score(x, e)
  <2>1. Score(s, e) <= Score(a, e) /\ Score(t, e) <= Score(b, e)
    BY <1>6 DEF Raised
  <2> QED BY <1>4, <2>1
<1>7. /\ Len(x) = A + B /\ Len(y) = A + B
      /\ \A n \in 1..A : x[n] = a[n] /\ y[n] = s[n]
      /\ \A n \in 1..B : x[A + n] = b[n] /\ y[A + n] = t[n]
  BY <1>1, <1>2, <1>3
<1>8. /\ \A n \in 1..A : a[n][1] = c => \E m \in 1..n : s[m][1] = c
      /\ \A n \in 1..A : s[n][1] # c => \E m \in 1..n : a[m][1] = s[n][1]
  BY DEF Raised
<1>9. /\ \A n \in 1..B : b[n][1] = c => \E m \in 1..n : t[m][1] = c
      /\ \A n \in 1..B : t[n][1] # c => \E m \in 1..n : b[m][1] = t[n][1]
  BY DEF Raised
<1> HIDE DEF A, B
<1>10. ASSUME NEW n \in 1..(A + B)
       PROVE  /\ x[n][1] = c => \E m \in 1..n : y[m][1] = c
              /\ y[n][1] # c => \E m \in 1..n : x[m][1] = y[n][1]
  <2>1. CASE n <= A
    <3>1. n \in 1..A /\ \A m \in 1..n : m \in 1..A
      BY <1>3, <2>1
    <3>2. x[n] = a[n] /\ y[n] = s[n] /\ \A m \in 1..n : x[m] = a[m] /\ y[m] = s[m]
      BY <1>7, <3>1
    <3> QED BY <1>8, <3>1, <3>2
  <2>2. CASE ~(n <= A)
    <3> DEFINE k == n - A
    <3>1. k \in 1..B /\ n = A + k /\ \A m \in 1..k : m \in 1..B /\ A + m \in 1..n
      BY <1>3, <2>2
    <3> HIDE DEF k
    <3>2. x[n] = b[k] /\ y[n] = t[k]
      BY <1>7, <3>1
    <3>3. \A m \in 1..k : x[A + m] = b[m] /\ y[A + m] = t[m]
      BY <1>7, <3>1
    <3>4. ASSUME b[k][1] = c PROVE \E m \in 1..n : y[m][1] = c
      <4>1. PICK m \in 1..k : t[m][1] = c
        BY <1>9, <3>1, <3>4
      <4> QED BY <3>1, <3>3, <4>1
    <3>5. ASSUME t[k][1] # c PROVE \E m \in 1..n : x[m][1] = t[k][1]
      <4>1. PICK m \in 1..k : b[m][1] = t[k][1]
        BY <1>9, <3>1, <3>5
      <4> QED BY <3>1, <3>3, <4>1
    <3> QED BY <3>2, <3>4, <3>5
  <2> QED BY <2>1, <2>2
<1>11. Raised(x, y, c, D)
  BY <1>5, <1>6, <1>7, <1>10 DEF Raised
<1> QED BY <1>11 DEF x, y

(* The score of what is ranked twice only.                                 *)
LEMMA PairScore ==
    ASSUME NEW D, NEW c \in D, NEW d \in D, c # d, NEW k \in Nat, NEW h \in Nat
    PROVE  /\ <<<<c, k>>, <<d, h>>>> \in Rankings(D)
           /\ Score(<<<<c, k>>, <<d, h>>>>, c) = Weight(k)
           /\ Score(<<<<c, k>>, <<d, h>>>>, d) = Weight(h)
           /\ \A e \in D : e # c /\ e # d => Score(<<<<c, k>>, <<d, h>>>>, e) = 0
<1> DEFINE x == <<<<c, k>>, <<d, h>>>>
<1>1. x \in Seq(D \X Nat) /\ Len(x) = 2
  <2>1. <<c, k>> \in D \X Nat /\ <<d, h>> \in D \X Nat
    OBVIOUS
  <2> QED BY <2>1
<1>2. /\ x[1][1] = c /\ x[1][2] = k /\ x[2][1] = d /\ x[2][2] = h
  OBVIOUS
<1> HIDE DEF x
<1>3. \A n \in 1..Len(x) : n = 1 \/ n = 2
  BY <1>1
<1>4. 1 \in 1..Len(x) /\ 2 \in 1..Len(x)
  BY <1>1
<1>5. Weight(k) \in Nat /\ Weight(h) \in Nat /\ Score(x, c) \in Nat /\ Score(x, d) \in Nat
  BY <1>1, WeightIs, ScoreIs
<1>6. Score(x, c) >= Weight(k) /\ Score(x, c) <= Weight(k)
  <2>1. \A n \in 1..Len(x) : x[n][1] = c => n = 1
    BY <1>2, <1>3
  <2>2. Score(x, c) >= Weight(x[1][2])
    BY <1>1, <1>2, <1>4, ScoreAtLeast
  <2>3. Score(x, c) <= Weight(x[1][2])
    BY <1>1, <1>4, <2>1, ScoreAtMost
  <2> QED BY <1>2, <2>2, <2>3
<1>7. Score(x, d) >= Weight(h) /\ Score(x, d) <= Weight(h)
  <2>1. \A n \in 1..Len(x) : x[n][1] = d => n = 2
    BY <1>2, <1>3
  <2>2. Score(x, d) >= Weight(x[2][2])
    BY <1>1, <1>2, <1>4, ScoreAtLeast
  <2>3. Score(x, d) <= Weight(x[2][2])
    BY <1>1, <1>4, <2>1, ScoreAtMost
  <2> QED BY <1>2, <2>2, <2>3
<1>8. ASSUME NEW e \in D, e # c, e # d PROVE Score(x, e) = 0
  <2>1. \A n \in 1..Len(x) : x[n][1] # e
    BY <1>2, <1>3, <1>8
  <2> QED BY <1>1, <2>1, ScoreIsNone
<1>9. Score(x, c) = Weight(k) /\ Score(x, d) = Weight(h)
  BY <1>5, <1>6, <1>7
<1> QED BY <1>1, <1>8, <1>9 DEF x, Rankings

(* Of two neighbours that change places the later one gains.               *)
LEMMA RaisedPair ==
    ASSUME NEW D, NEW c \in D, NEW d \in D, c # d, NEW k \in Nat
    PROVE  Raised(<<<<d, k>>, <<c, k + 1>>>>, <<<<c, k>>, <<d, k + 1>>>>, c, D)
<1> DEFINE x == <<<<d, k>>, <<c, k + 1>>>>
           y == <<<<c, k>>, <<d, k + 1>>>>
<1>1. /\ Score(x, d) = Weight(k) /\ Score(x, c) = Weight(k + 1)
      /\ \A e \in D : e # c /\ e # d => Score(x, e) = 0
  BY PairScore
<1>2. /\ Score(y, c) = Weight(k) /\ Score(y, d) = Weight(k + 1)
      /\ \A e \in D : e # c /\ e # d => Score(y, e) = 0
  BY PairScore
<1>3. /\ Len(x) = 2 /\ Len(y) = 2
      /\ x[1][1] = d /\ x[2][1] = c /\ y[1][1] = c /\ y[2][1] = d
  OBVIOUS
<1> HIDE DEF x, y
<1>4. Weight(k) \in Nat /\ Weight(k + 1) \in Nat /\ Weight(k + 1) <= Weight(k)
  BY WeightIs
<1>5. \A n \in 1..Len(x) : 1 \in 1..n /\ (n = 1 \/ n = 2)
  BY <1>3
<1>6. \A e \in D : e # c => Score(y, e) <= Score(x, e)
  BY <1>1, <1>2, <1>4
<1>7. /\ \A n \in 1..Len(x) : x[n][1] = c => \E m \in 1..n : y[m][1] = c
      /\ \A n \in 1..Len(x) : y[n][1] # c => \E m \in 1..n : x[m][1] = y[n][1]
  BY <1>3, <1>5
<1>8. Raised(x, y, c, D)
  BY <1>1, <1>2, <1>3, <1>4, <1>6, <1>7 DEF Raised
<1> QED BY <1>8 DEF x, y

(* What a part of a sequence is.                                           *)
LEMMA PartIs ==
    ASSUME NEW S, NEW s \in Seq(S), NEW m \in 1..Len(s) + 1, NEW n \in (m - 1)..Len(s)
    PROVE  /\ SubSeq(s, m, n) \in Seq(S) /\ Len(SubSeq(s, m, n)) = n - m + 1
           /\ \A i \in 1..n - m + 1 : SubSeq(s, m, n)[i] = s[m + i - 1]
<1> DEFINE u == SubSeq(s, m, n)
           L == n - m + 1
<1>1. m \in Int /\ n \in Int /\ \A i \in m..n : s[i] \in S
  <2>1. Len(s) \in Nat
    OBVIOUS
  <2> QED BY <2>1
<1>2. /\ u \in Seq(S) /\ Len(u) = (IF m <= n THEN L ELSE 0)
      /\ \A i \in 1..L : u[i] = s[m + i - 1]
  <2>1. u \in Seq(S)
    BY <1>1, SubSeqProperties
  <2>2. Len(u) = IF m <= n THEN L ELSE 0
    BY <1>1, SubSeqProperties
  <2>3. \A i \in 1..L : u[i] = s[m + i - 1]
    BY <1>1, SubSeqProperties
  <2> QED BY <2>1, <2>2, <2>3
<1>3. ~(m <= n) => L = 0
  <2>1. Len(s) \in Nat
    OBVIOUS
  <2> QED BY <2>1
<1> HIDE DEF u
<1> QED BY <1>2, <1>3 DEF u

(* A sequence falls into what is before two neighbours, these and the rest.*)
LEMMA SplitIs ==
    ASSUME NEW S, NEW x \in Seq(S), NEW k \in 2..Len(x)
    PROVE  /\ SubSeq(x, 1, k - 2) \in Seq(S) /\ SubSeq(x, k + 1, Len(x)) \in Seq(S)
           /\ <<x[k - 1], x[k]>> \in Seq(S)
           /\ x = (SubSeq(x, 1, k - 2) \o <<x[k - 1], x[k]>>) \o SubSeq(x, k + 1, Len(x))
<1> DEFINE N == Len(x)
           a == SubSeq(x, 1, k - 2)
           m == <<x[k - 1], x[k]>>
           b == SubSeq(x, k + 1, N)
           am == a \o m
           z == am \o b
<1>1. N \in Nat /\ k \in 2..N /\ DOMAIN x = 1..N /\ \A n \in 1..N : x[n] \in S
  OBVIOUS
<1>2. /\ a \in Seq(S) /\ Len(a) = k - 2
      /\ \A n \in 1..(k - 2) : a[n] = x[n]
  <2>1. 1 \in 1..Len(x) + 1 /\ k - 2 \in (1 - 1)..Len(x) /\ (k - 2) - 1 + 1 = k - 2
    BY <1>1
  <2>2. /\ a \in Seq(S) /\ Len(a) = (k - 2) - 1 + 1
        /\ \A n \in 1..(k - 2) - 1 + 1 : a[n] = x[1 + n - 1]
    BY <2>1, PartIs
  <2> HIDE DEF a
  <2>3. ASSUME NEW n \in 1..(k - 2) PROVE a[n] = x[n]
    <3>1. n \in 1..(k - 2) - 1 + 1 /\ 1 + n - 1 = n
      BY <2>1
    <3>2. a[n] = x[1 + n - 1]
      BY <2>2, <3>1, Zenon
    <3> QED BY <3>1, <3>2
  <2> QED BY <2>1, <2>2, <2>3
<1>3. /\ b \in Seq(S) /\ Len(b) = N - k
      /\ \A n \in 1..(N - k) : b[n] = x[k + n]
  <2>1. k + 1 \in 1..Len(x) + 1 /\ N \in ((k + 1) - 1)..Len(x) /\ N - (k + 1) + 1 = N - k
    BY <1>1
  <2>2. /\ b \in Seq(S) /\ Len(b) = N - (k + 1) + 1
        /\ \A n \in 1..N - (k + 1) + 1 : b[n] = x[(k + 1) + n - 1]
    BY <2>1, PartIs
  <2> HIDE DEF b, N
  <2>3. ASSUME NEW n \in 1..(N - k) PROVE b[n] = x[k + n]
    <3>1. n \in 1..N - (k + 1) + 1 /\ (k + 1) + n - 1 = k + n
      BY <1>1, <2>1
    <3>2. b[n] = x[(k + 1) + n - 1]
      BY <2>2, <3>1, Zenon
    <3> QED BY <3>1, <3>2
  <2> QED BY <2>1, <2>2, <2>3
<1>4. /\ m \in Seq(S) /\ Len(m) = 2 /\ m[1] = x[k - 1] /\ m[2] = x[k]
  <2>1. x[k - 1] \in S /\ x[k] \in S
    BY <1>1
  <2> QED BY <2>1
<1> HIDE DEF a, b, m, N
<1>5. /\ am \in Seq(S) /\ Len(am) = Len(a) + Len(m)
      /\ \A n \in 1..Len(a) : am[n] = a[n]
      /\ \A n \in 1..Len(m) : am[Len(a) + n] = m[n]
  <2>1. a \in Seq(S) /\ m \in Seq(S)
    BY <1>2, <1>4
  <2> QED BY <2>1, ConcatIs
<1> HIDE DEF am
<1>6. /\ z \in Seq(S) /\ Len(z) = Len(am) + Len(b)
      /\ \A n \in 1..Len(am) : z[n] = am[n]
      /\ \A n \in 1..Len(b) : z[Len(am) + n] = b[n]
  <2>1. am \in Seq(S) /\ b \in Seq(S)
    BY <1>3, <1>5
  <2> QED BY <2>1, ConcatIs
<1> HIDE DEF z
<1>7. Len(am) = k /\ Len(z) = N /\ k - 2 \in Nat /\ N - k \in Nat
  BY <1>1, <1>2, <1>3, <1>4, <1>5, <1>6
<1>8. ASSUME NEW n \in 1..N PROVE z[n] = x[n]
  <2>1. CASE n <= k - 2
    <3>1. n \in 1..(k - 2) /\ n \in 1..Len(a) /\ n \in 1..Len(am)
      BY <1>1, <1>2, <1>7, <2>1
    <3> QED BY <1>2, <1>5, <1>6, <3>1
  <2>2. CASE n = k - 1
    <3>1. n = Len(a) + 1 /\ 1 \in 1..Len(m) /\ n \in 1..Len(am)
      BY <1>1, <1>2, <1>4, <1>7, <2>2
    <3> QED BY <1>4, <1>5, <1>6, <2>2, <3>1
  <2>3. CASE n = k
    <3>1. n = Len(a) + 2 /\ 2 \in 1..Len(m) /\ n \in 1..Len(am)
      BY <1>1, <1>2, <1>4, <1>7, <2>3
    <3> QED BY <1>4, <1>5, <1>6, <2>3, <3>1
  <2>4. CASE n > k
    <3> DEFINE h == n - k
    <3>1. h \in 1..(N - k) /\ h \in 1..Len(b) /\ n = k + h
      BY <1>1, <1>3, <1>7, <2>4
    <3> HIDE DEF h
    <3>2. z[n] = b[h] /\ b[h] = x[k + h]
      BY <1>3, <1>6, <1>7, <3>1
    <3> QED BY <3>1, <3>2
  <2> QED BY <1>1, <2>1, <2>2, <2>3, <2>4
<1>9. z = x
  <2>1. DOMAIN z = 1..N
    BY <1>6, <1>7
  <2> QED BY <1>1, <1>6, <1>8, <2>1
<1> QED BY <1>2, <1>3, <1>4, <1>9 DEF z, am, a, b, m, N

(* In a list two neighbours change places, and the later one gains.        *)
LEMMA RaisedWithin ==
    ASSUME NEW D, NEW x \in Rankings(D), NEW y \in Rankings(D), NEW c \in D, NEW d \in D, c # d,
           NEW k \in 2..Len(x), Len(y) = Len(x),
           x[k - 1] = <<d, k - 1>>, x[k] = <<c, k>>,
           y[k - 1] = <<c, k - 1>>, y[k] = <<d, k>>,
           \A n \in 1..Len(x) : n # k - 1 /\ n # k => x[n] = y[n]
    PROVE  Raised(x, y, c, D)
<1> DEFINE N == Len(x)
           S == D \X Nat
           a == SubSeq(x, 1, k - 2)
           b == SubSeq(x, k + 1, N)
           p == <<<<d, k - 1>>, <<c, k>>>>
           q == <<<<c, k - 1>>, <<d, k>>>>
<1>1. x \in Seq(S) /\ y \in Seq(S) /\ N \in Nat
  BY DEF Rankings
<1>2. a \in Seq(S) /\ b \in Seq(S) /\ p \in Seq(S) /\ x = (a \o p) \o b
  <2> HIDE DEF S
  <2> QED BY <1>1, SplitIs
<1>3. SubSeq(y, 1, k - 2) = a
  <2>1. /\ 1 \in 1..Len(x) + 1 /\ k - 2 \in (1 - 1)..Len(x)
        /\ 1 \in 1..Len(y) + 1 /\ k - 2 \in (1 - 1)..Len(y)
    BY <1>1
  <2> HIDE DEF S
  <2>2. /\ a \in Seq(S) /\ Len(a) = (k - 2) - 1 + 1
        /\ \A n \in 1..(k - 2) - 1 + 1 : a[n] = x[1 + n - 1]
    BY <1>1, <2>1, PartIs
  <2> DEFINE u == SubSeq(y, 1, k - 2)
  <2>3. /\ u \in Seq(S) /\ Len(u) = (k - 2) - 1 + 1
        /\ \A n \in 1..(k - 2) - 1 + 1 : u[n] = y[1 + n - 1]
    BY <1>1, <2>1, PartIs
  <2> HIDE DEF u, a
  <2>4. ASSUME NEW n \in 1..(k - 2) - 1 + 1 PROVE u[n] = a[n]
    <3>1. 1 + n - 1 \in 1..N /\ 1 + n - 1 # k - 1 /\ 1 + n - 1 # k
      BY <1>1, <2>1
    <3> QED BY <2>2, <2>3, <3>1
  <2> QED BY <2>2, <2>3, <2>4 DEF u
<1>4. SubSeq(y, k + 1, N) = b
  <2>1. /\ k + 1 \in 1..Len(x) + 1 /\ N \in ((k + 1) - 1)..Len(x)
        /\ k + 1 \in 1..Len(y) + 1 /\ N \in ((k + 1) - 1)..Len(y)
    BY <1>1
  <2> HIDE DEF S
  <2>2. /\ b \in Seq(S) /\ Len(b) = N - (k + 1) + 1
        /\ \A n \in 1..N - (k + 1) + 1 : b[n] = x[(k + 1) + n - 1]
    BY <1>1, <2>1, PartIs
  <2> DEFINE u == SubSeq(y, k + 1, N)
  <2>3. /\ u \in Seq(S) /\ Len(u) = N - (k + 1) + 1
        /\ \A n \in 1..N - (k + 1) + 1 : u[n] = y[(k + 1) + n - 1]
    BY <1>1, <2>1, PartIs
  <2> HIDE DEF u, b
  <2>4. ASSUME NEW n \in 1..N - (k + 1) + 1 PROVE u[n] = b[n]
    <3> DEFINE h == (k + 1) + n - 1
    <3>1. h \in 1..N /\ h # k - 1 /\ h # k
      BY <1>1, <2>1
    <3> HIDE DEF h
    <3>2. y[h] = x[h]
      BY <3>1
    <3>3. u[n] = y[h] /\ b[n] = x[h]
      BY <2>2, <2>3 DEF h
    <3> QED BY <3>2, <3>3
  <2> QED BY <2>2, <2>3, <2>4 DEF u
<1>5. q \in Seq(S) /\ y = (a \o q) \o b
  <2>1. k \in 2..Len(y) /\ Len(y) = N
    OBVIOUS
  <2>2. q = <<y[k - 1], y[k]>>
    OBVIOUS
  <2> HIDE DEF S, a, b, N
  <2>3. /\ <<y[k - 1], y[k]>> \in Seq(S)
        /\ y = (SubSeq(y, 1, k - 2) \o <<y[k - 1], y[k]>>) \o SubSeq(y, k + 1, Len(y))
    BY <1>1, <2>1, SplitIs
  <2> HIDE DEF q
  <2> QED BY <1>3, <1>4, <2>1, <2>2, <2>3
<1>6. Raised(p, q, c, D)
  <2> DEFINE h == k - 1
  <2>1. h \in Nat /\ k = h + 1
    BY <1>1
  <2> HIDE DEF h
  <2>2. Raised(<<<<d, h>>, <<c, h + 1>>>>, <<<<c, h>>, <<d, h + 1>>>>, c, D)
    BY <2>1, RaisedPair
  <2>3. p = <<<<d, h>>, <<c, h + 1>>>> /\ q = <<<<c, h>>, <<d, h + 1>>>>
    BY <2>1 DEF h
  <2> HIDE DEF p, q
  <2> QED BY <2>2, <2>3
<1>7. Raised(a, a, c, D) /\ Raised(b, b, c, D)
  <2> HIDE DEF a, b
  <2> QED BY <1>2, RaisedSame DEF S
<1> HIDE DEF a, b, p, q
<1>8. a \in Rankings(D) /\ b \in Rankings(D) /\ p \in Rankings(D) /\ q \in Rankings(D)
  BY <1>2, <1>5 DEF Rankings, S
<1>9. a \o p \in Rankings(D) /\ a \o q \in Rankings(D)
  <2> HIDE DEF S
  <2>1. a \o p \in Seq(S) /\ a \o q \in Seq(S)
    BY <1>2, <1>5, ConcatIs
  <2> QED BY <2>1 DEF Rankings, S
<1>10. Raised(a \o p, a \o q, c, D)
  BY <1>6, <1>7, <1>8, RaisedConcat
<1>11. Raised((a \o p) \o b, (a \o q) \o b, c, D)
  BY <1>7, <1>8, <1>9, <1>10, RaisedConcat
<1> QED BY <1>2, <1>5, <1>11

(* The list l with the chunk at place k one place higher.                  *)
Lifted(l, k) == [l EXCEPT ![k - 1] = l[k], ![k] = l[k - 1]]

(* A list that ranks c one place higher lets it gain.                      *)
LEMMA RaisedList ==
    ASSUME NEW D, NEW l \in Seq(D), NEW k \in 2..Len(l)
    PROVE  /\ Lifted(l, k) \in Seq(D) /\ ToSet(Lifted(l, k)) = ToSet(l)
           /\ Raised(Ranks(l), Ranks(Lifted(l, k)), l[k], D)
<1> DEFINE N == Len(l)
           g == Lifted(l, k)
           c == l[k]
           d == l[k - 1]
<1>1. N \in Nat /\ k \in 2..N /\ DOMAIN l = 1..N /\ c \in D /\ d \in D
  OBVIOUS
<1>2. /\ g \in Seq(D) /\ Len(g) = N /\ DOMAIN g = 1..N
      /\ g[k - 1] = c /\ g[k] = d /\ \A n \in 1..N : n # k - 1 /\ n # k => g[n] = l[n]
  <2>1. k - 1 \in 1..N /\ k \in 1..N /\ k - 1 # k
    BY <1>1
  <2> HIDE DEF N
  <2>2. /\ DOMAIN g = 1..N /\ g[k - 1] = c /\ g[k] = d
        /\ \A n \in 1..N : n # k - 1 /\ n # k => g[n] = l[n]
    BY <1>1, <2>1 DEF Lifted
  <2>3. \A n \in 1..N : g[n] \in D
    BY <1>1, <2>2
  <2>4. g = [n \in 1..N |-> g[n]]
    BY <1>1 DEF Lifted
  <2> HIDE DEF g, c, d
  <2>5. g \in [1..N -> D]
    BY <2>3, <2>4
  <2>6. g \in Seq(D) /\ Len(g) = N
    BY <1>1, <2>5
  <2> QED BY <2>2, <2>6
<1>3. ToSet(g) = ToSet(l)
  <2>0. k - 1 \in 1..N /\ k \in 1..N
    BY <1>1
  <2> HIDE DEF g
  <2>1. ASSUME NEW n \in 1..N PROVE g[n] \in {l[m] : m \in 1..N} /\ l[n] \in {g[m] : m \in 1..N}
    <3>1. CASE n = k - 1
      BY <1>2, <2>0, <3>1
    <3>2. CASE n = k
      BY <1>2, <2>0, <3>2
    <3>3. CASE n # k - 1 /\ n # k
      BY <1>2, <3>3
    <3> QED BY <3>1, <3>2, <3>3
  <2>2. ToSet(g) = {g[m] : m \in 1..N} /\ ToSet(l) = {l[m] : m \in 1..N}
    BY <1>1, <1>2 DEF ToSet
  <2> HIDE DEF N
  <2>3. {g[m] : m \in 1..N} \subseteq {l[m] : m \in 1..N}
    BY <2>1
  <2>4. {l[m] : m \in 1..N} \subseteq {g[m] : m \in 1..N}
    BY <2>1
  <2> QED BY <2>2, <2>3, <2>4
<1> DEFINE x == Ranks(l)
           y == Ranks(g)
<1>4. x \in Seq(D \X Nat) /\ Len(x) = N /\ \A r \in 1..N : x[r] = <<l[r], r>>
  BY RanksIs
<1>5. y \in Seq(D \X Nat) /\ Len(y) = N /\ \A r \in 1..N : y[r] = <<g[r], r>>
  <2> HIDE DEF g
  <2> QED BY <1>2, RanksIs
<1>6. CASE d = c
  <2>1. \A n \in 1..N : g[n] = l[n]
    <3> HIDE DEF g
    <3> QED BY <1>2, <1>6
  <2>2. g = l
    <3> HIDE DEF g
    <3> QED BY <1>1, <1>2, <2>1
  <2>3. Raised(x, x, c, D)
    <3> HIDE DEF x, c
    <3> QED BY <1>4, RaisedSame
  <2>4. Raised(x, y, c, D)
    <3> HIDE DEF g, c
    <3> QED BY <2>2, <2>3
  <2> HIDE DEF g, x, y, c
  <2>5. g \in Seq(D) /\ ToSet(g) = ToSet(l) /\ Raised(x, y, c, D)
    BY <1>2, <1>3, <2>4
  <2> QED BY <2>5 DEF g, x, y, c
<1>7. CASE d # c
  <2>0. k - 1 \in 1..N /\ k \in 1..N
    BY <1>1
  <2> HIDE DEF g, x, y, c, d, N
  <2>1. /\ x[k - 1] = <<d, k - 1>> /\ x[k] = <<c, k>>
        /\ y[k - 1] = <<c, k - 1>> /\ y[k] = <<d, k>>
    BY <1>2, <1>4, <1>5, <2>0 DEF c, d
  <2>2. \A n \in 1..N : n # k - 1 /\ n # k => x[n] = y[n]
    BY <1>2, <1>4, <1>5
  <2>3. x \in Rankings(D) /\ y \in Rankings(D)
    BY <1>4, <1>5 DEF Rankings
  <2>4. k \in 2..Len(x) /\ Len(y) = Len(x)
    BY <1>1, <1>4, <1>5
  <2>5. \A n \in 1..Len(x) : n # k - 1 /\ n # k => x[n] = y[n]
    BY <1>4, <2>2
  <2>6. Raised(x, y, c, D)
    BY <1>1, <1>7, <2>1, <2>3, <2>4, <2>5, RaisedWithin
  <2> QED BY <1>2, <1>3, <2>6 DEF x, y, c, g
<1> QED BY <1>6, <1>7

(* The lists with a chunk of one of them one place higher.                 *)
LEMMA RaisedRanked ==
    ASSUME NEW D, NEW lists \in Seq(Seq(D)), NEW i \in DOMAIN lists, NEW k \in 2..Len(lists[i])
    PROVE  /\ Promoted(lists, <<i, k>>) \in Seq(Seq(D))
           /\ Found(Ranked(Promoted(lists, <<i, k>>))) = Found(Ranked(lists))
           /\ Raised(Ranked(lists), Ranked(Promoted(lists, <<i, k>>)), lists[i][k], D)
<1> DEFINE N == Len(lists)
           S == Seq(D)
           l == lists[i]
           g == Lifted(l, k)
           c == lists[i][k]
           new == Promoted(lists, <<i, k>>)
<1>1. N \in Nat /\ DOMAIN lists = 1..N /\ i \in 1..N /\ l \in Seq(D) /\ \A j \in 1..N : lists[j] \in S
  OBVIOUS
<1>2. g \in Seq(D) /\ ToSet(g) = ToSet(l) /\ Raised(Ranks(l), Ranks(g), c, D)
  <2>1. k \in 2..Len(l) /\ c = l[k]
    OBVIOUS
  <2> HIDE DEF l, c
  <2> QED BY <1>1, <2>1, RaisedList
<1>3. c \in D
  <2>1. k \in 1..Len(l) /\ c = l[k]
    OBVIOUS
  <2> HIDE DEF l, c
  <2> QED BY <1>1, <2>1
<1>4. new = [lists EXCEPT ![i] = g]
  BY DEF Promoted, Lifted
<1> HIDE DEF g, l, c, S
<1>5. /\ new \in Seq(S) /\ Len(new) = N /\ DOMAIN new = 1..N /\ new[i] = g
      /\ \A j \in 1..N : j # i => new[j] = lists[j]
  <2>1. g \in S
    BY <1>2 DEF S
  <2>2. /\ DOMAIN new = 1..N /\ new[i] = g /\ \A j \in 1..N : j # i => new[j] = lists[j]
    <3> HIDE DEF N, new
    <3> QED BY <1>1, <1>4
  <2>3. new = [j \in 1..N |-> new[j]]
    <3> HIDE DEF N
    <3> QED BY <1>1, <1>4
  <2> HIDE DEF new, N
  <2>4. \A j \in 1..N : new[j] \in S
    BY <1>1, <2>1, <2>2
  <2>5. new \in [1..N -> S]
    BY <2>3, <2>4
  <2>6. new \in Seq(S) /\ Len(new) = N
    BY <1>1, <2>5
  <2> QED BY <2>2, <2>6
<1> HIDE DEF new
<1>6. lists \in Seq(Seq(D)) /\ new \in Seq(Seq(D))
  BY <1>5 DEF S
<1>7. Found(Ranked(new)) = Found(Ranked(lists))
  <2>1. \A j \in 1..N : ToSet(new[j]) = ToSet(lists[j])
    BY <1>2, <1>5 DEF l
  <2>2. /\ Found(Ranked(lists)) = UNION {ToSet(lists[j]) : j \in 1..N}
        /\ Found(Ranked(new)) = UNION {ToSet(new[j]) : j \in 1..N}
    BY <1>1, <1>5, <1>6, FoundAll
  <2> HIDE DEF N
  <2>3. {ToSet(new[j]) : j \in 1..N} = {ToSet(lists[j]) : j \in 1..N}
    BY <2>1
  <2> QED BY <2>2, <2>3
<1>8. PICK f : Grows(f, lists, D)
  BY <1>6, RankedIs
<1>9. PICK h : Grows(h, new, D)
  BY <1>6, RankedIs
<1>10. /\ f[0] = <<>> /\ h[0] = <<>>
       /\ \A j \in 1..N : f[j] = f[j - 1] \o Ranks(lists[j]) /\ h[j] = h[j - 1] \o Ranks(new[j])
       /\ \A j \in 0..N : f[j] \in Rankings(D) /\ h[j] \in Rankings(D)
       /\ Ranked(lists) = f[N] /\ Ranked(new) = h[N]
  BY <1>5, <1>8, <1>9 DEF Grows, Rankings
<1> DEFINE I == [j \in 0..N |-> {y \in Rankings(D) : Raised(f[j], y, c, D)}]
<1> HIDE DEF N
<1>11. h[0] \in I[0]
  <2>1. 0 \in 0..N
    BY <1>1
  <2>2. f[0] \in Seq(D \X Nat)
    BY <1>10, <2>1 DEF Rankings
  <2>3. Raised(f[0], h[0], c, D)
    BY <1>10, <2>2, RaisedSame
  <2> QED BY <1>10, <2>1, <2>3
<1>12. ASSUME NEW j \in 1..N, h[j - 1] \in I[j - 1] PROVE h[j] \in I[j]
  <2>1. j - 1 \in 0..N /\ j \in 0..N
    BY <1>1
  <2>2. Raised(f[j - 1], h[j - 1], c, D)
    BY <1>12, <2>1
  <2>3. f[j - 1] \in Rankings(D) /\ h[j - 1] \in Rankings(D) /\ h[j] \in Rankings(D)
    BY <1>10, <2>1
  <2>4. lists[j] \in Seq(D) /\ new[j] \in Seq(D)
    BY <1>1, <1>5 DEF S
  <2>5. Ranks(lists[j]) \in Seq(D \X Nat) /\ Ranks(new[j]) \in Seq(D \X Nat)
    BY <2>4, RanksIs
  <2>6. Raised(Ranks(lists[j]), Ranks(new[j]), c, D)
    <3>1. CASE j = i
      BY <1>2, <1>5, <3>1 DEF l
    <3>2. CASE j # i
      <4>1. new[j] = lists[j]
        BY <1>5, <3>2
      <4>2. Raised(Ranks(lists[j]), Ranks(lists[j]), c, D)
        BY <2>5, RaisedSame
      <4> QED BY <4>1, <4>2
    <3> QED BY <3>1, <3>2
  <2>7. Ranks(lists[j]) \in Rankings(D) /\ Ranks(new[j]) \in Rankings(D)
    BY <2>5 DEF Rankings
  <2>8. Raised(f[j - 1] \o Ranks(lists[j]), h[j - 1] \o Ranks(new[j]), c, D)
    BY <1>3, <2>2, <2>3, <2>6, <2>7, RaisedConcat
  <2>9. Raised(f[j], h[j], c, D)
    BY <1>10, <2>8
  <2> QED BY <2>1, <2>3, <2>9
<1>13. \A j \in 0..N : h[j] \in I[j]
  <2> HIDE DEF I
  <2> QED BY <1>1, <1>11, <1>12, Kept
<1>14. Raised(f[N], h[N], c, D)
  <2>1. N \in 0..N
    BY <1>1
  <2> QED BY <1>13, <2>1
<1> QED BY <1>6, <1>7, <1>10, <1>14 DEF new, c

(* What comes before c in the fusion still does when c gains, or less.     *)
LEMMA RaisedBefore ==
    ASSUME NEW D, NEW x \in Seq(D \X Nat), NEW y \in Seq(D \X Nat), NEW c \in D,
           Raised(x, y, c, D), Found(x) = Found(y), c \in Found(x),
           NEW e \in Found(x), Before(y, e, c)
    PROVE  Before(x, e, c)
<1>1. e \in D
  BY FoundIs
<1>2. /\ Score(x, c) \in Nat /\ Score(y, c) \in Nat /\ Score(x, e) \in Nat /\ Score(y, e) \in Nat
  BY ScoreIs
<1>3. /\ First(x, c) \in 1..Len(x) /\ x[First(x, c)][1] = c
      /\ First(x, e) \in 1..Len(x)
      /\ \A n \in 1..Len(x) : x[n][1] = e => First(x, e) <= n
  BY FirstIs
<1>4. /\ First(y, e) \in 1..Len(y) /\ y[First(y, e)][1] = e
      /\ First(y, c) \in 1..Len(y)
      /\ \A n \in 1..Len(y) : y[n][1] = c => First(y, c) <= n
  BY FirstIs
<1>5. Len(x) = Len(y) /\ Len(x) \in Nat
  BY DEF Raised
<1>6. \/ Score(y, e) > Score(y, c)
      \/ Score(y, e) = Score(y, c) /\ First(y, e) < First(y, c)
  BY BeforeIs
<1>7. e # c
  BY <1>2, <1>4, <1>6
<1>8. Score(x, c) <= Score(y, c) /\ Score(y, e) <= Score(x, e)
  BY <1>1, <1>7 DEF Raised
<1>9. First(y, c) <= First(x, c)
  <2>1. PICK m \in 1..First(x, c) : y[m][1] = c
    BY <1>3 DEF Raised
  <2>2. m \in 1..Len(y)
    BY <1>3, <1>5
  <2>3. First(y, c) <= m
    BY <1>4, <2>1, <2>2
  <2> QED BY <1>3, <1>4, <2>2, <2>3
<1>10. First(x, e) <= First(y, e)
  <2>1. PICK m \in 1..First(y, e) : x[m][1] = e
    BY <1>4, <1>5, <1>7 DEF Raised
  <2>2. m \in 1..Len(x)
    BY <1>4, <1>5
  <2>3. First(x, e) <= m
    BY <1>3, <2>1, <2>2
  <2> QED BY <1>3, <1>4, <2>2, <2>3
<1>11. \/ Score(x, e) > Score(x, c)
       \/ Score(x, e) = Score(x, c) /\ First(x, e) < First(x, c)
  <2>1. First(x, c) \in Nat /\ First(y, c) \in Nat /\ First(x, e) \in Nat /\ First(y, e) \in Nat
    BY <1>3, <1>4, <1>5
  <2> QED BY <1>2, <1>6, <1>8, <1>9, <1>10, <2>1
<1> QED BY <1>11, BeforeIs

(* Where a chunk stands in the fused list: after those before it.          *)
LEMMA FusedPlace ==
    ASSUME NEW lists \in Seq(Seq(Chunks)), NEW c \in Found(Ranked(lists))
    PROVE  Standing(Fused(lists), c) =
             Cardinality({e \in Found(Ranked(lists)) : Before(Ranked(lists), e, c)}) + 1
<1> DEFINE r == Ranked(lists)
           s == Fused(lists)
<1>1. r \in Seq(Chunks \X Nat)
  BY RankedIs
<1>2. s = Sorted[r]
  BY DEF Fused
<1> DEFINE Ahd(d) == {e \in Found(r) : Before(r, e, d)}
<1>3. /\ s \in Seq(Chunks)
      /\ {s[p] : p \in DOMAIN s} = Found(r)
      /\ \A p \in DOMAIN s : Cardinality(Ahd(s[p])) + 1 = p
  <2> HIDE DEF r, s
  <2>1. Sorted[r] \in Seq(Chunks) /\ {Sorted[r][p] : p \in DOMAIN Sorted[r]} = Found(r)
    BY <1>1, SortedIs
  <2>2. \A p \in DOMAIN Sorted[r] : Cardinality(Ahd(Sorted[r][p])) + 1 = p
    BY <1>1, SortedIs
  <2> HIDE DEF Ahd
  <2> QED BY <1>2, <2>1, <2>2
<1> HIDE DEF s, Ahd
<1>4. PICK p \in DOMAIN s : s[p] = c
  BY <1>3
<1>5. DOMAIN s = 1..Len(s) /\ Len(s) \in Nat
  BY <1>3
<1>6. /\ Standing(s, c) \in Nat /\ Standing(s, c) <= p
      /\ (Standing(s, c) <= Len(s) => Standing(s, c) \in 1..Len(s) /\ s[Standing(s, c)] = c)
  BY <1>3, <1>4, <1>5, StandingIs
<1>7. Standing(s, c) \in 1..Len(s) /\ s[Standing(s, c)] = c
  BY <1>4, <1>5, <1>6
<1>8. Cardinality(Ahd(c)) + 1 = Standing(s, c)
  BY <1>3, <1>5, <1>7
<1> QED BY <1>8 DEF s, Ahd

(* A source that ranks a chunk one place higher never moves it down in the *)
(* fused list, for any lists.                                              *)
LEMMA PromotionIs ==
    ASSUME NEW lists \in Seq(Seq(Chunks)), NEW i \in DOMAIN lists, NEW k \in 2..Len(lists[i])
    PROVE  Standing(Fused(Promoted(lists, <<i, k>>)), lists[i][k]) <= Standing(Fused(lists), lists[i][k])
<1> DEFINE c == lists[i][k]
           new == Promoted(lists, <<i, k>>)
           x == Ranked(lists)
           y == Ranked(new)
<1>1. new \in Seq(Seq(Chunks)) /\ Found(y) = Found(x) /\ Raised(x, y, c, Chunks)
  BY RaisedRanked
<1>2. c \in ToSet(lists[i]) /\ c \in Chunks
  <2>1. lists[i] \in Seq(Chunks) /\ k \in 1..Len(lists[i])
    OBVIOUS
  <2> QED BY <2>1 DEF ToSet
<1>3. c \in Found(x)
  <2>1. Found(x) = UNION {ToSet(lists[j]) : j \in DOMAIN lists}
    BY FoundAll
  <2> HIDE DEF c, x
  <2> QED BY <1>2, <2>1
<1> HIDE DEF c, new
<1>4. x \in Seq(Chunks \X Nat) /\ y \in Seq(Chunks \X Nat)
  BY <1>1, RankedIs
<1> DEFINE A == {e \in Found(x) : Before(x, e, c)}
           B == {e \in Found(y) : Before(y, e, c)}
<1>5. Standing(Fused(lists), c) = Cardinality(A) + 1
  BY <1>3, FusedPlace
<1>6. Standing(Fused(new), c) = Cardinality(B) + 1
  <2>1. c \in Found(Ranked(new))
    BY <1>1, <1>3
  <2> QED BY <1>1, <2>1, FusedPlace
<1> HIDE DEF x, y
<1>7. B \subseteq A
  BY <1>1, <1>2, <1>3, <1>4, RaisedBefore
<1>8. IsFiniteSet(A)
  <2>1. IsFiniteSet(Found(x))
    BY <1>4, FoundIs
  <2>2. A \subseteq Found(x)
    OBVIOUS
  <2> HIDE DEF A
  <2> QED BY <2>1, <2>2, FS_Subset
<1> HIDE DEF A, B
<1>9. Cardinality(B) <= Cardinality(A) /\ Cardinality(A) \in Nat /\ Cardinality(B) \in Nat
  BY <1>7, <1>8, FS_Subset, FS_CardinalityType
<1>10. Standing(Fused(new), c) <= Standing(Fused(lists), c)
  BY <1>5, <1>6, <1>9
<1> QED BY <1>10 DEF new, c

(* A source that ranks a chunk one place higher never moves it down in the *)
(* fused list, whatever the other sources say and however ties fall        *)
(* (reciprocal_rank_fusion): for any chunks, sources and ranks.            *)
THEOREM SearchPromotionNeverHurts == Spec => []PromotionNeverHurts
<1>1. IInv => PromotionNeverHurts
  <2> SUFFICES ASSUME IInv, NEW c \in Chunks, NEW p \in Appearances(sources, c), p[2] > 1
               PROVE  Standing(Fused(Promoted(sources, p)), c) <= Standing(Fused(sources), c)
    BY DEF PromotionNeverHurts
  <2>1. sources \in Seq(Seq(Chunks))
    BY DEF IInv, ListsInv
  <2> DEFINE i == p[1]
             k == p[2]
  <2>2. p = <<i, k>> /\ i \in DOMAIN sources /\ k \in DOMAIN sources[i] /\ sources[i][k] = c
    BY DEF Appearances
  <2> HIDE DEF i, k
  <2>3. k > 1
    BY DEF k
  <2>4. k \in 2..Len(sources[i])
    <3>1. sources[i] \in Seq(Chunks)
      BY <2>1, <2>2
    <3>2. k \in 1..Len(sources[i]) /\ Len(sources[i]) \in Nat
      BY <2>2, <3>1
    <3> QED BY <2>3, <3>2
  <2> QED BY <2>1, <2>2, <2>4, PromotionIs
<1> QED BY <1>1, SearchInvariant, PTL

-----------------------------------------------------------------------------
(* The cache of answers (SearchCache).                                     *)

(* What the invariant says of the sequence _cache.                         *)
Sound(s) ==
    /\ s \in Seq(Entry)
    /\ \A i, j \in DOMAIN s : s[i].query = s[j].query => i = j
    /\ \A i \in DOMAIN s : \A d \in s[i].result : Deleted(d) => (s[i].stale \/ d \in met)

(* Removing an entry keeps the others, in order.                           *)
LEMMA RemoveAtEntries ==
    ASSUME NEW S, NEW s \in Seq(S), NEW i \in DOMAIN s
    PROVE  /\ RemoveAt(s, i) \in Seq(S)
           /\ Len(RemoveAt(s, i)) = Len(s) - 1
           /\ \A j \in 1..(Len(s) - 1) :
                 RemoveAt(s, i)[j] = IF j < i THEN s[j] ELSE s[j + 1]
<1>1. i \in 1..Len(s) /\ Len(s) \in Nat
  OBVIOUS
<1>2. /\ SubSeq(s, 1, i - 1) \in Seq(S)
      /\ Len(SubSeq(s, 1, i - 1)) = i - 1
      /\ \A j \in 1..(i - 1) : SubSeq(s, 1, i - 1)[j] = s[j]
  BY <1>1
<1>3. /\ SubSeq(s, i + 1, Len(s)) \in Seq(S)
      /\ Len(SubSeq(s, i + 1, Len(s))) = Len(s) - i
      /\ \A j \in 1..(Len(s) - i) : SubSeq(s, i + 1, Len(s))[j] = s[i + j]
  BY <1>1
<1> DEFINE a == SubSeq(s, 1, i - 1)
           b == SubSeq(s, i + 1, Len(s))
<1>4. a \in Seq(S) /\ b \in Seq(S) /\ Len(a) = i - 1 /\ Len(b) = Len(s) - i
  BY <1>2, <1>3
<1>5. /\ a \o b \in Seq(S)
      /\ Len(a \o b) = Len(s) - 1
      /\ \A j \in 1..Len(a \o b) : (a \o b)[j] = IF j <= Len(a) THEN a[j] ELSE b[j - Len(a)]
  <2> HIDE DEF a, b
  <2>1. /\ a \o b \in Seq(S)
        /\ Len(a \o b) = Len(a) + Len(b)
        /\ \A j \in 1..Len(a) + Len(b) : (a \o b)[j] = IF j <= Len(a) THEN a[j] ELSE b[j - Len(a)]
    BY <1>4, ConcatProperties, Zenon
  <2>2. Len(a) + Len(b) = Len(s) - 1
    BY <1>1, <1>4
  <2> DEFINE c == a \o b
             n == Len(a) + Len(b)
  <2>3. c \in Seq(S) /\ Len(c) = n /\ \A j \in 1..n : c[j] = IF j <= Len(a) THEN a[j] ELSE b[j - Len(a)]
    BY <2>1, Zenon
  <2>4. n = Len(s) - 1
    BY <2>2
  <2> HIDE DEF c, n
  <2>5. /\ c \in Seq(S)
        /\ Len(c) = Len(s) - 1
        /\ \A j \in 1..Len(c) : c[j] = IF j <= Len(a) THEN a[j] ELSE b[j - Len(a)]
    BY <2>3, <2>4, Zenon
  <2> QED BY <2>5, Zenon DEF c
<1>6. ASSUME NEW j \in 1..(Len(s) - 1) PROVE (a \o b)[j] = IF j < i THEN s[j] ELSE s[j + 1]
  <2>1. CASE j < i
    BY <1>1, <1>2, <1>4, <1>5, <2>1
  <2>2. CASE ~(j < i)
    <3>1. j - (i - 1) \in 1..(Len(s) - i) /\ i + (j - (i - 1)) = j + 1
      BY <1>1, <2>2
    <3>2. b[j - (i - 1)] = s[j + 1]
      BY <1>3, <3>1
    <3> HIDE DEF a, b
    <3> QED BY <1>1, <1>4, <1>5, <2>2, <3>2
  <2> QED BY <2>1, <2>2
<1>7. RemoveAt(s, i) = a \o b
  BY DEF RemoveAt
<1> HIDE DEF a, b
<1> QED BY <1>5, <1>6, <1>7

(* Making room for the key of an entry: at most one entry goes, and no     *)
(* other has that key.                                                     *)
LEMMA WithoutSound ==
    ASSUME NEW s, Sound(s), NEW q
    PROVE  /\ Sound(Without(s, q))
           /\ \A i \in DOMAIN Without(s, q) : Without(s, q)[i].query # q
           /\ Len(Without(s, q)) = IF q \in Keys(s) THEN Len(s) - 1 ELSE Len(s)
<1>1. CASE q \notin Keys(s)
  BY <1>1 DEF Without, Keys
<1>2. CASE q \in Keys(s)
  <2> DEFINE k == CHOOSE i \in DOMAIN s : s[i].query = q
             r == RemoveAt(s, k)
  <2>1. k \in DOMAIN s /\ s[k].query = q
    BY <1>2 DEF Keys
  <2>2. s \in Seq(Entry)
    BY DEF Sound
  <2> HIDE DEF k
  <2>3. /\ r \in Seq(Entry)
        /\ Len(r) = Len(s) - 1
        /\ \A j \in 1..(Len(s) - 1) : r[j] = IF j < k THEN s[j] ELSE s[j + 1]
    BY <2>1, <2>2, RemoveAtEntries
  <2> HIDE DEF r
  <2>4. k \in 1..Len(s) /\ Len(s) \in Nat /\ DOMAIN s = 1..Len(s) /\ DOMAIN r = 1..(Len(s) - 1)
    BY <2>1, <2>2, <2>3
  <2>5. \A j \in DOMAIN r :
           \E i \in DOMAIN s : i # k /\ r[j] = s[i] /\ i = (IF j < k THEN j ELSE j + 1)
    BY <2>3, <2>4
  <2>6. \A i, j \in DOMAIN r : r[i].query = r[j].query => i = j
    BY <2>4, <2>5 DEF Sound
  <2>7. \A i \in DOMAIN r : \A d \in r[i].result : Deleted(d) => (r[i].stale \/ d \in met)
    BY <2>5 DEF Sound
  <2>8. \A i \in DOMAIN r : r[i].query # q
    BY <2>1, <2>5 DEF Sound
  <2>9. Without(s, q) = r
    BY <1>2 DEF Without, k, r
  <2> QED BY <1>2, <2>3, <2>6, <2>7, <2>8, <2>9 DEF Sound
<1> QED BY <1>1, <1>2

(* move_to_end, and set before the eviction.                               *)
LEMMA TouchSound ==
    ASSUME NEW s, Sound(s), NEW e \in Entry,
           \A d \in e.result : Deleted(d) => (e.stale \/ d \in met)
    PROVE  /\ Sound(Touch(s, e))
           /\ Len(Touch(s, e)) = IF e.query \in Keys(s) THEN Len(s) ELSE Len(s) + 1
<1> DEFINE w == Without(s, e.query)
<1>1. /\ Sound(w)
      /\ \A i \in DOMAIN w : w[i].query # e.query
      /\ Len(w) = IF e.query \in Keys(s) THEN Len(s) - 1 ELSE Len(s)
  BY WithoutSound
<1> HIDE DEF w
<1>2. /\ w \in Seq(Entry)
      /\ Len(w) \in Nat
      /\ Len(s) \in Nat
  BY <1>1 DEF Sound
<1>3. /\ Append(w, e) \in Seq(Entry)
      /\ Len(Append(w, e)) = Len(w) + 1
      /\ DOMAIN Append(w, e) = 1..(Len(w) + 1)
      /\ DOMAIN w = 1..Len(w)
      /\ \A i \in 1..Len(w) : Append(w, e)[i] = w[i]
      /\ Append(w, e)[Len(w) + 1] = e
  BY <1>2
<1>4. Sound(Append(w, e))
  <2>1. \A i, j \in 1..(Len(w) + 1) : Append(w, e)[i].query = Append(w, e)[j].query => i = j
    <3> SUFFICES ASSUME NEW i \in 1..(Len(w) + 1), NEW j \in 1..(Len(w) + 1),
                        Append(w, e)[i].query = Append(w, e)[j].query
                 PROVE  i = j
      OBVIOUS
    <3>1. CASE i \in 1..Len(w) /\ j \in 1..Len(w)
      BY <1>1, <1>3, <3>1 DEF Sound
    <3>2. CASE i = Len(w) + 1 /\ j # Len(w) + 1
      <4>1. j \in 1..Len(w)
        BY <1>2, <3>2
      <4> QED BY <1>1, <1>3, <3>2, <4>1
    <3>3. CASE i # Len(w) + 1 /\ j = Len(w) + 1
      <4>1. i \in 1..Len(w)
        BY <1>2, <3>3
      <4> QED BY <1>1, <1>3, <3>3, <4>1
    <3> QED BY <1>2, <3>1, <3>2, <3>3
  <2>2. \A i \in 1..(Len(w) + 1) : \A d \in Append(w, e)[i].result :
           Deleted(d) => (Append(w, e)[i].stale \/ d \in met)
    <3> SUFFICES ASSUME NEW i \in 1..(Len(w) + 1)
                 PROVE  \A d \in Append(w, e)[i].result :
                           Deleted(d) => (Append(w, e)[i].stale \/ d \in met)
      OBVIOUS
    <3>1. CASE i \in 1..Len(w)
      <4>1. Append(w, e)[i] = w[i] /\ i \in DOMAIN w
        BY <1>3, <3>1
      <4> QED BY <1>1, <4>1 DEF Sound
    <3>2. CASE i = Len(w) + 1
      BY <1>3, <3>2
    <3> QED BY <1>2, <3>1, <3>2
  <2> QED BY <1>3, <2>1, <2>2 DEF Sound
<1>5. Touch(s, e) = Append(w, e)
  BY DEF Touch, w
<1> QED BY <1>1, <1>2, <1>3, <1>4, <1>5

(* set: the oldest entry goes when the cache is full.                      *)
LEMMA PutSound ==
    ASSUME NEW s, Sound(s), Len(s) <= MaxSize, NEW e \in Entry,
           \A d \in e.result : Deleted(d) => (e.stale \/ d \in met)
    PROVE  Sound(Put(s, e)) /\ Len(Put(s, e)) <= MaxSize
<1> DEFINE full == Touch(s, e)
<1>1. /\ Sound(full)
      /\ Len(full) = IF e.query \in Keys(s) THEN Len(s) ELSE Len(s) + 1
  BY TouchSound
<1> HIDE DEF full
<1>2. full \in Seq(Entry) /\ Len(full) \in Nat /\ s \in Seq(Entry) /\ Len(s) \in Nat
  BY <1>1 DEF Sound
<1>3. CASE Len(full) > MaxSize
  <2>1. full # <<>>
    BY <1>2, <1>3, CacheAssumption
  <2>2. /\ Tail(full) \in Seq(Entry)
        /\ Len(Tail(full)) = Len(full) - 1
        /\ DOMAIN Tail(full) = 1..(Len(full) - 1)
        /\ DOMAIN full = 1..Len(full)
        /\ \A i \in 1..(Len(full) - 1) : Tail(full)[i] = full[i + 1]
    BY <1>2, <2>1
  <2>3. Sound(Tail(full))
    <3>1. \A i, j \in 1..(Len(full) - 1) : Tail(full)[i].query = Tail(full)[j].query => i = j
      <4> SUFFICES ASSUME NEW i \in 1..(Len(full) - 1), NEW j \in 1..(Len(full) - 1),
                          full[i + 1].query = full[j + 1].query
                   PROVE  i = j
        BY <2>2
      <4>1. i + 1 \in DOMAIN full /\ j + 1 \in DOMAIN full
        BY <1>2, <2>2
      <4> QED BY <1>1, <4>1 DEF Sound
    <3>2. \A i \in 1..(Len(full) - 1) : \A d \in Tail(full)[i].result :
             Deleted(d) => (Tail(full)[i].stale \/ d \in met)
      <4> SUFFICES ASSUME NEW i \in 1..(Len(full) - 1)
                   PROVE  \A d \in full[i + 1].result : Deleted(d) => (full[i + 1].stale \/ d \in met)
        BY <2>2
      <4>1. i + 1 \in DOMAIN full
        BY <1>2, <2>2
      <4> QED BY <1>1, <4>1 DEF Sound
    <3> QED BY <2>2, <3>1, <3>2 DEF Sound
  <2> QED BY <1>1, <1>2, <1>3, <2>2, <2>3, CacheAssumption DEF Put, full
<1>4. CASE ~(Len(full) > MaxSize)
  BY <1>1, <1>2, <1>4, CacheAssumption DEF Put, full
<1> QED BY <1>3, <1>4
------------------------------------------------------------------------------
(* The invariant in terms of Sound.                                        *)
LEMMA SoundCache ==
    CacheTypeOK => (CacheBounded /\ StaleOnlyByOverlap
                        <=> Sound(cache) /\ Len(cache) <= MaxSize)
<1> SUFFICES ASSUME CacheTypeOK
             PROVE  CacheBounded /\ StaleOnlyByOverlap
                        <=> Sound(cache) /\ Len(cache) <= MaxSize
  OBVIOUS
<1>1. ASSUME StaleOnlyByOverlap, NEW i \in DOMAIN cache, NEW d \in cache[i].result,
             Deleted(d)
      PROVE  cache[i].stale \/ d \in met
  <2>1. cache[i] \in Entry
    BY DEF CacheTypeOK
  <2>2. d \in Docs
    BY <2>1 DEF Entry
  <2> QED BY <1>1, <2>2 DEF StaleOnlyByOverlap, ToSet
<1> QED BY <1>1 DEF CacheTypeOK, CacheBounded, StaleOnlyByOverlap, Sound, ToSet

(* The initial states satisfy the invariant.                               *)
LEMMA CacheInitIInv ==
    CacheInit => CacheIInv
<1> SUFFICES ASSUME CacheInit PROVE CacheIInv
  OBVIOUS
<1>1. CacheTypeOK
  BY DEF CacheInit, CacheTypeOK
<1>2. CacheBounded /\ StaleOnlyByOverlap
  BY CacheAssumption DEF CacheInit, CacheBounded, StaleOnlyByOverlap, ToSet
<1>3. GoneFromStores
  BY DEF CacheInit, GoneFromStores, Deleted
<1>4. HeldByOverlap
  BY DEF CacheInit, HeldByOverlap, Busy
<1> QED BY <1>1, <1>2, <1>3, <1>4 DEF CacheIInv

(* What a search holds of a deleted document is known to be stale: a step  *)
(* of one search has to show it of that search only.                       *)
LEMMA HeldOfOne ==
    ASSUME HeldByOverlap, NEW t \in Tasks, UNCHANGED docVars,
           \A u \in Tasks \ {t} : /\ phase'[u] = phase[u] /\ found'[u] = found[u]
                                  /\ first'[u] = first[u] /\ overlapped'[u] = overlapped[u],
           phase'[t] = "idle" => found'[t] = {},
           phase'[t] \in Busy =>
               \A d \in (found'[t] \cup first'[t].found) \ met : Deleted(d) => overlapped'[t]
    PROVE  HeldByOverlap'
<1>1. UNCHANGED <<job, rows, met>>
  BY DEF docVars
<1>2. ASSUME NEW u \in Tasks, phase'[u] \in Busy,
             NEW d \in (found'[u] \cup first'[u].found) \ met', Deleted(d)'
      PROVE  overlapped'[u]
  <2>1. Deleted(d) /\ d \notin met
    BY <1>1, <1>2 DEF Deleted
  <2>2. CASE u = t
    BY <1>2, <2>1, <2>2
  <2>3. CASE u # t
    BY <1>2, <2>1, <2>3 DEF HeldByOverlap
  <2> QED BY <2>2, <2>3
<1>3. \A u \in Tasks : phase'[u] = "idle" => found'[u] = {}
  BY DEF HeldByOverlap
<1> QED BY <1>2, <1>3 DEF HeldByOverlap, Busy

(* A search that fails or falls back keeps the types.                      *)
LEMMA CacheRaisesType ==
    ASSUME CacheTypeOK, NEW t \in Tasks, Raises(t)
    PROVE  CacheTypeOK'
<1> DEFINE Firsts == [clean : CleanQueries, found : SUBSET Docs]
<1>1. \A q \in CleanQueries : Nothing(q) \in Firsts
  BY DEF Nothing
<1>2. clean[t] \in CleanQueries /\ first[t] \in Firsts /\ first \in [Tasks -> Firsts]
  BY DEF CacheTypeOK
<1>3. first[t].clean \in CleanQueries /\ first[t].found \in SUBSET Docs
  BY <1>2
<1>4. first' \in [Tasks -> Firsts]
  <2>1. \E q \in CleanQueries : first' = [first EXCEPT ![t] = Nothing(q)]
    BY <1>2, <1>3 DEF Raises, Give
  <2> HIDE DEF Firsts
  <2> QED BY <1>1, <1>2, <2>1
<1>5. /\ UNCHANGED <<cache, scope, docVars>>
      /\ pending' = [pending EXCEPT ![t] = {}]
      /\ \E p \in {"idle", "ranking"} : phase' = [phase EXCEPT ![t] = p]
      /\ \E a \in {"first", "fallback"} : attempt' = [attempt EXCEPT ![t] = a]
  BY DEF Raises, Give
<1>6. /\ \E q \in CleanQueries : clean' = [clean EXCEPT ![t] = q]
      /\ \E f \in SUBSET Docs : found' = [found EXCEPT ![t] = f]
      /\ \E f \in SUBSET Docs : given' = [given EXCEPT ![t] = f]
      /\ \E o \in BOOLEAN : overlapped' = [overlapped EXCEPT ![t] = o]
  <2>1. CASE attempt[t] = "retry"
    <3>1. /\ clean' = [clean EXCEPT ![t] = first[t].clean]
          /\ found' = [found EXCEPT ![t] = first[t].found]
          /\ given' = given /\ overlapped' = overlapped
      BY <2>1 DEF Raises
    <3>2. /\ given[t] \in SUBSET Docs /\ given = [given EXCEPT ![t] = given[t]]
          /\ overlapped[t] \in BOOLEAN /\ overlapped = [overlapped EXCEPT ![t] = overlapped[t]]
      BY DEF CacheTypeOK
    <3> QED BY <1>3, <3>1, <3>2
  <2>2. CASE attempt[t] # "retry"
    <3>1. clean[t] \in CleanQueries /\ clean = [clean EXCEPT ![t] = clean[t]]
      BY DEF CacheTypeOK
    <3>2. /\ clean' = clean
          /\ found' = [found EXCEPT ![t] = {}]
          /\ given' = [given EXCEPT ![t] = {}]
          /\ overlapped' = [overlapped EXCEPT ![t] = FALSE]
      BY <2>2 DEF Raises, Give
    <3> QED BY <3>1, <3>2
  <2> QED BY <2>1, <2>2
<1> QED BY <1>4, <1>5, <1>6 DEF CacheTypeOK, docVars, Busy

(* A search that does not touch the cache preserves the invariant.         *)
LEMMA CacheSearch ==
    ASSUME CacheIInv, NEW t \in Tasks,
           Ask(t) \/ LookupMiss(t) \/ Raises(t) \/ Retry(t)
    PROVE  CacheIInv'
<1> USE DEF CacheIInv
<1>1. CacheTypeOK'
  <2>1. CASE Ask(t)
    BY <2>1 DEF CacheTypeOK, Ask, Nothing, docVars, Busy
  <2>2. CASE LookupMiss(t)
    BY <2>2 DEF CacheTypeOK, LookupMiss, Retrieve, docVars, Busy
  <2>4. CASE Retry(t)
    BY <2>4 DEF CacheTypeOK, Retry, RetryWith, docVars, Busy
  <2> QED BY <2>1, <2>2, <2>4, CacheRaisesType
<1>2. cache' = cache /\ UNCHANGED docVars
  BY DEF Ask, LookupMiss, Raises, Retry, RetryWith
<1>3. CacheBounded' /\ StaleOnlyByOverlap' /\ GoneFromStores'
  BY <1>2 DEF CacheBounded, StaleOnlyByOverlap, GoneFromStores, Deleted, docVars
<1>4. HeldByOverlap'
  <2>1. CASE Ask(t)
    <3>1. found'[t] = {} /\ first'[t].found = {}
      BY <2>1 DEF CacheTypeOK, HeldByOverlap, Ask, Nothing
    <3>2. phase'[t] = "embedding"
      BY <2>1 DEF CacheTypeOK, Ask
    <3>3. \A u \in Tasks \ {t} : /\ phase'[u] = phase[u] /\ found'[u] = found[u]
                                /\ first'[u] = first[u] /\ overlapped'[u] = overlapped[u]
      BY <2>1 DEF CacheTypeOK, Ask
    <3> QED BY <1>2, <3>1, <3>2, <3>3, HeldOfOne
  <2>2. CASE LookupMiss(t)
    BY <1>2, <2>2, HeldOfOne DEF CacheTypeOK, HeldByOverlap, LookupMiss, Retrieve, Busy
  <2>3. CASE Raises(t) /\ attempt[t] = "retry"
    <3>1. /\ found'[t] = first[t].found /\ first'[t].found = {}
          /\ phase'[t] = "ranking" /\ overlapped' = overlapped /\ phase[t] \in Busy
      BY <2>3 DEF CacheTypeOK, Raises, Nothing
    <3>2. \A u \in Tasks \ {t} : /\ phase'[u] = phase[u] /\ found'[u] = found[u]
                                /\ first'[u] = first[u]
      BY <2>3 DEF CacheTypeOK, Raises
    <3>3. \A d \in first[t].found \ met : Deleted(d) => overlapped[t]
      BY <3>1 DEF HeldByOverlap
    <3> QED BY <1>2, <3>1, <3>2, <3>3, HeldOfOne
  <2>4. CASE Raises(t) /\ attempt[t] # "retry"
    BY <1>2, <2>4, HeldOfOne DEF CacheTypeOK, Raises, Give, Busy
  <2>5. CASE Retry(t)
    <3>1. /\ found'[t] = {} /\ first'[t].found = found[t] /\ phase'[t] = "embedding"
          /\ overlapped' = overlapped /\ phase[t] \in Busy
      BY <2>5 DEF CacheTypeOK, Retry, RetryWith, Busy
    <3>2. \A u \in Tasks \ {t} : /\ phase'[u] = phase[u] /\ found'[u] = found[u]
                                /\ first'[u] = first[u]
      BY <2>5 DEF CacheTypeOK, Retry, RetryWith
    <3>3. \A d \in found[t] \ met : Deleted(d) => overlapped[t]
      BY <3>1 DEF HeldByOverlap
    <3> QED BY <1>2, <3>1, <3>2, <3>3, HeldOfOne
  <2> QED BY <2>1, <2>2, <2>3, <2>4, <2>5
<1> QED BY <1>1, <1>3, <1>4

(* What a search retrieves was in a store: it is not deleted.              *)
LEMMA CacheSearched ==
    ASSUME CacheIInv, NEW t \in Tasks, NEW source \in {"vector", "fts"}, Searched(t, source)
    PROVE  CacheIInv'
<1> USE DEF CacheIInv
<1>1. CacheTypeOK'
  BY DEF CacheTypeOK, Searched, docVars, Busy
<1>2. CacheBounded' /\ StaleOnlyByOverlap' /\ GoneFromStores'
  BY DEF CacheBounded, StaleOnlyByOverlap, GoneFromStores, Searched, Deleted, docVars
<1>3. \A d \in (vectors \cup rows) \ met : d \in Docs /\ ~Deleted(d)
  BY DEF CacheTypeOK, GoneFromStores, Deleted
<1>4. HeldByOverlap'
  <2>1. /\ found'[t] \subseteq found[t] \cup vectors \cup rows
        /\ UNCHANGED <<first, overlapped>> /\ phase[t] \in Busy /\ phase'[t] # "idle"
    BY DEF CacheTypeOK, Searched, Busy
  <2>2. \A u \in Tasks \ {t} : phase'[u] = phase[u] /\ found'[u] = found[u]
    BY DEF CacheTypeOK, Searched
  <2>3. \A d \in (found'[t] \cup first'[t].found) \ met : Deleted(d) => overlapped'[t]
    BY <1>3, <2>1 DEF HeldByOverlap
  <2> QED BY <2>1, <2>2, <2>3, HeldOfOne DEF Searched
<1> QED BY <1>1, <1>2, <1>4

(* A hit moves an entry the cache holds to its recent end.                 *)
LEMMA CacheLookupHit ==
    ASSUME CacheIInv, NEW t \in Tasks, LookupHit(t)
    PROVE  CacheIInv'
<1>1. PICK e \in Hits(clean[t], Dim(scope[t])) : cache' = Touch(cache, e)
  BY DEF LookupHit
<1>2. PICK k \in DOMAIN cache : e = cache[k]
  BY <1>1 DEF Hits, ToSet
<1>3. Sound(cache) /\ Len(cache) <= MaxSize
  BY SoundCache DEF CacheIInv
<1>4. /\ e \in Entry /\ e.query \in Keys(cache)
      /\ \A d \in e.result : Deleted(d) => (e.stale \/ d \in met)
  BY <1>2, <1>3 DEF Sound, Keys
<1>5. Sound(cache') /\ Len(cache') <= MaxSize
  BY <1>1, <1>3, <1>4, TouchSound
<1>6. CacheTypeOK'
  <2>1. cache' \in Seq(Entry)
    BY <1>5 DEF Sound
  <2>2. PICK f \in Hits(clean[t], Dim(scope[t])) :
          IF f.result # {}
          THEN Give(t, f.result)
          ELSE Retrieve(t) /\ UNCHANGED <<clean, attempt, first, given, overlapped>>
    BY DEF LookupHit
  <2>3. f.result \in SUBSET Docs
    <3>1. f \in Entry
      BY <1>3, <2>2 DEF Hits, ToSet, Sound
    <3> QED BY <3>1 DEF Entry
  <2> DEFINE res == f.result
  <2>4. CASE f.result # {}
    <3>1. res \in SUBSET Docs /\ Give(t, res)
      BY <2>2, <2>3, <2>4
    <3> HIDE DEF res
    <3> QED BY <2>1, <3>1 DEF CacheIInv, CacheTypeOK, LookupHit, Give, Nothing, docVars, Busy
  <2>5. CASE f.result = {}
    <3>1. Retrieve(t) /\ UNCHANGED <<clean, attempt, first, given, overlapped>>
      BY <2>2, <2>5
    <3> QED BY <2>1, <3>1 DEF CacheIInv, CacheTypeOK, LookupHit, Retrieve, docVars, Busy
  <2> QED BY <2>4, <2>5
<1>7. CacheBounded' /\ StaleOnlyByOverlap'
  <2>1. Sound(cache)'
    BY <1>5 DEF Sound, LookupHit, Deleted, docVars
  <2>2. (CacheTypeOK => (CacheBounded /\ StaleOnlyByOverlap
                             <=> Sound(cache) /\ Len(cache) <= MaxSize))'
    BY SoundCache, PTL
  <2> QED BY <1>5, <1>6, <2>1, <2>2
<1>8. GoneFromStores' /\ HeldByOverlap'
  <2>1. GoneFromStores'
    BY DEF CacheIInv, GoneFromStores, LookupHit, Deleted, docVars
  <2>2. HeldByOverlap /\ UNCHANGED docVars /\ phase[t] \in Busy
    BY DEF CacheIInv, LookupHit, Busy
  <2>3. /\ \A u \in Tasks \ {t} : /\ phase'[u] = phase[u] /\ found'[u] = found[u]
                                 /\ first'[u] = first[u] /\ overlapped'[u] = overlapped[u]
        /\ found'[t] = {}
        /\ phase'[t] = "idle" \/ UNCHANGED <<first, overlapped>>
    BY DEF CacheIInv, CacheTypeOK, LookupHit, Give, Nothing, Retrieve
  <2>4. phase'[t] \in Busy =>
            \A d \in (found'[t] \cup first'[t].found) \ met : Deleted(d) => overlapped'[t]
    BY <2>2, <2>3 DEF HeldByOverlap, Busy
  <2>5. HeldByOverlap'
    BY <2>2, <2>3, <2>4, HeldOfOne
  <2> QED BY <2>1, <2>5
<1> QED BY <1>6, <1>7, <1>8 DEF CacheIInv

(* A ranked search stores its result, stale if it overlapped a delete.     *)
LEMMA CacheRanked ==
    ASSUME CacheIInv, NEW t \in Tasks, RankResults(t)
    PROVE  CacheIInv'
<1>1. PICK result \in SUBSET found[t] :
        /\ Give(t, result)
        /\ cache' = IF attempt[t] = "retry" THEN cache
                    ELSE Put(cache, [query |-> clean[t], dim |-> Dim(scope[t]),
                                     result |-> result, stale |-> overlapped[t]])
  BY DEF RankResults
<1> DEFINE e == [query |-> clean[t], dim |-> Dim(scope[t]), result |-> result,
                 stale |-> overlapped[t]]
<1>2. Sound(cache) /\ Len(cache) <= MaxSize
  BY SoundCache DEF CacheIInv
<1>3. e \in Entry /\ result \in SUBSET Docs
  BY DEF CacheIInv, CacheTypeOK, Entry
<1>4. \A d \in e.result : Deleted(d) => (e.stale \/ d \in met)
  BY <1>3 DEF CacheIInv, HeldByOverlap, RankResults, Busy
<1> HIDE DEF e
<1>5. Sound(cache') /\ Len(cache') <= MaxSize
  <2>1. CASE attempt[t] = "retry"
    BY <1>1, <1>2, <2>1
  <2>2. CASE attempt[t] # "retry"
    <3>1. cache' = Put(cache, e)
      BY <1>1, <2>2 DEF e
    <3> QED BY <1>2, <1>3, <1>4, <3>1, PutSound
  <2> QED BY <2>1, <2>2
<1>6. CacheTypeOK'
  BY <1>1, <1>3, <1>5 DEF CacheIInv, CacheTypeOK, RankResults, Give, Nothing, docVars,
     Busy, Sound
<1>7. CacheBounded' /\ StaleOnlyByOverlap'
  <2>1. Sound(cache)'
    BY <1>5 DEF Sound, RankResults, Deleted, docVars
  <2>2. (CacheTypeOK => (CacheBounded /\ StaleOnlyByOverlap
                             <=> Sound(cache) /\ Len(cache) <= MaxSize))'
    BY SoundCache, PTL
  <2> QED BY <1>5, <1>6, <2>1, <2>2
<1>8. GoneFromStores' /\ HeldByOverlap'
  BY <1>1 DEF CacheIInv, CacheTypeOK, GoneFromStores, HeldByOverlap, RankResults,
     Give, Nothing, Deleted, docVars, Busy
<1> QED BY <1>6, <1>7, <1>8 DEF CacheIInv

(* Indexing, a failing delete and the first half of one leave no document  *)
(* deleted; a delete that begins while its document is being ingested has  *)
(* met the ingestion.                                                      *)
LEMMA CacheStore ==
    ASSUME CacheIInv, NEW d \in Docs,
           \/ IndexRows(d) \/ IndexVectors(d) \/ IndexFails(d)
           \/ DeleteStart(d) \/ DeleteVectors(d) \/ DeleteFails(d)
    PROVE  CacheIInv'
<1> USE DEF IndexRows, IndexVectors, IndexFails, DeleteStart, DeleteVectors, DeleteFails
<1>1. CacheTypeOK'
  BY DEF CacheIInv, CacheTypeOK, taskVars
<1>2. /\ \A f \in Docs : Deleted(f)' => Deleted(f)
      /\ met \subseteq met'
      /\ cache' = cache /\ UNCHANGED taskVars
  BY DEF CacheIInv, CacheTypeOK, GoneFromStores, Deleted
<1>3. CacheBounded' /\ StaleOnlyByOverlap'
  BY <1>2 DEF CacheIInv, CacheBounded, StaleOnlyByOverlap
<1>4. GoneFromStores'
  <2>1. CASE IndexRows(d) \/ IndexVectors(d) \/ IndexFails(d)
    BY <2>1 DEF CacheIInv, CacheTypeOK, GoneFromStores, Deleted
  <2>2. CASE DeleteStart(d)
    BY <2>2 DEF CacheIInv, CacheTypeOK, GoneFromStores, Deleted
  <2>3. CASE DeleteVectors(d)
    BY <2>3 DEF CacheIInv, CacheTypeOK, GoneFromStores, Deleted
  <2>4. CASE DeleteFails(d)
    BY <2>4 DEF CacheIInv, CacheTypeOK, GoneFromStores, Deleted
  <2> QED BY <2>1, <2>2, <2>3, <2>4
<1>5. HeldByOverlap'
  BY <1>2 DEF CacheIInv, CacheTypeOK, HeldByOverlap, taskVars
<1> QED BY <1>1, <1>3, <1>4, <1>5 DEF CacheIInv

(* The second half empties the cache and marks the searches under way.     *)
LEMMA CacheDeleteRows ==
    ASSUME CacheIInv, NEW d \in Docs, DeleteRows(d)
    PROVE  CacheIInv'
<1>1. CacheTypeOK'
  BY DEF CacheIInv, CacheTypeOK, DeleteRows, RowsGone
<1>2. CacheBounded' /\ StaleOnlyByOverlap'
  BY CacheAssumption DEF CacheBounded, StaleOnlyByOverlap, DeleteRows,
     ToSet
<1>3. GoneFromStores'
  BY DEF CacheIInv, CacheTypeOK, GoneFromStores, DeleteRows, RowsGone, Deleted
<1>4. HeldByOverlap'
  BY DEF CacheIInv, CacheTypeOK, HeldByOverlap, DeleteRows, RowsGone
<1> QED BY <1>1, <1>2, <1>3, <1>4 DEF CacheIInv

(* Invalidating, and stuttering, preserve the invariant.                   *)
LEMMA CacheInvalidate ==
    ASSUME CacheIInv, Invalidate \/ UNCHANGED cacheVars
    PROVE  CacheIInv'
<1>1. CacheTypeOK'
  <2>1. CASE Invalidate
    BY <2>1 DEF CacheIInv, CacheTypeOK, Invalidate, taskVars, docVars
  <2>2. CASE UNCHANGED cacheVars
    BY <2>2 DEF CacheIInv, CacheTypeOK, cacheVars, taskVars, docVars
  <2> QED BY <2>1, <2>2
<1>2. CacheBounded' /\ StaleOnlyByOverlap'
  <2>1. CASE Invalidate
    BY <2>1, CacheAssumption DEF CacheBounded, StaleOnlyByOverlap, Invalidate,
       ToSet
  <2>2. CASE UNCHANGED cacheVars
    <3>1. cache' = cache /\ UNCHANGED <<job, rows, met>>
      BY <2>2 DEF cacheVars, docVars
    <3> QED BY <3>1 DEF CacheIInv, CacheBounded, StaleOnlyByOverlap, Deleted
  <2> QED BY <2>1, <2>2
<1>3. GoneFromStores' /\ HeldByOverlap'
  BY DEF CacheIInv, GoneFromStores, HeldByOverlap, Invalidate, Deleted,
     cacheVars, taskVars, docVars
<1> QED BY <1>1, <1>2, <1>3 DEF CacheIInv

(* IInv is an invariant of the cache under concurrent searches and deletes.*)
THEOREM CacheInvariant == CacheSpec => []CacheIInv
<1>1. CacheIInv /\ [CacheNext]_cacheVars => CacheIInv'
  <2> SUFFICES ASSUME CacheIInv, [CacheNext]_cacheVars PROVE CacheIInv'
    OBVIOUS
  <2>1. ASSUME NEW t \in Tasks, Ask(t) \/ SearchStep(t) PROVE CacheIInv'
    BY <2>1, CacheSearch, CacheSearched, CacheLookupHit,
       CacheRanked DEF SearchStep
  <2>2. ASSUME NEW d \in Docs,
               \/ IndexRows(d) \/ IndexVectors(d) \/ IndexFails(d)
               \/ DeleteStart(d) \/ DeleteVectors(d) \/ DeleteRows(d) \/ DeleteFails(d)
        PROVE  CacheIInv'
    BY <2>2, CacheStore, CacheDeleteRows
  <2>3. CASE Invalidate \/ UNCHANGED cacheVars
    BY <2>3, CacheInvalidate
  <2> QED BY <2>1, <2>2, <2>3 DEF CacheNext
<1> QED BY <1>1, CacheInitIInv, PTL DEF CacheSpec

(* The cache never exceeds max_size nor holds two results for a query.     *)
THEOREM CacheStaysBounded == CacheSpec => []CacheBounded
<1>1. CacheIInv => CacheBounded
  BY DEF CacheIInv
<1> QED BY <1>1, CacheInvariant, PTL

(* A cached result names a deleted document only if its search overlapped  *)
(* the end of the delete or the delete met the ingestion: without either,  *)
(* the route's order of invalidation is right.                             *)
THEOREM CacheStaleOnlyByOverlap == CacheSpec => []StaleOnlyByOverlap
<1>1. CacheIInv => StaleOnlyByOverlap
  BY DEF CacheIInv
<1> QED BY <1>1, CacheInvariant, PTL
=============================================================================
