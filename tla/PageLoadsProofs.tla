-------------------------- MODULE PageLoadsProofs --------------------------
(***************************************************************************)
(* Theorems about the manager's reading pages: what they show was so at a  *)
(* moment since they were opened, or since what the indexer and the cache  *)
(* had then, for every history, lag, page size, number of feed pages and   *)
(* every way their loads overlap and fail.                                 *)
(***************************************************************************)
EXTENDS PageLoads, FiniteSetTheorems, TLAPS

-----------------------------------------------------------------------------
(* Least elements, induction and recursion.  The library's theorems take   *)
(* predicates; these take sets.                                            *)

\* A family of subsets of a finite set has a smallest member.
LEMMA SmallestSet ==
    ASSUME NEW S, IsFiniteSet(S), NEW F, F \subseteq SUBSET S, F # {}
    PROVE  \E X \in F : \A Y \in F : Y \subseteq X => Y = X
  <1>1. F \subseteq FiniteSubsetsOf(S)
    BY FS_FiniteSubsetsOfFinite
  <1>2. PICK X \in F : \A Y \in F : <<Y, X>> \notin StrictSubsetOrdering(S)
    BY <1>1, FS_StrictSubsetOrderingWellFounded, WFMin
  <1>3. ASSUME NEW Y \in F, Y \subseteq X, Y # X PROVE FALSE
    <2>1. <<Y, X>> \in (SUBSET S) \X (SUBSET S)
      OBVIOUS
    <2>2. <<Y, X>> \in StrictSubsetOrdering(S)
      BY <2>1, <1>3 DEF StrictSubsetOrdering
    <2> QED BY <1>2, <2>2
  <1> QED BY <1>3

\* A set of naturals has a least element.
LEMMA LeastNatural ==
    ASSUME NEW T, T \subseteq Nat, T # {}
    PROVE  \E x \in T : \A y \in T : x <= y
  <1>1. PICK n \in T : TRUE
    OBVIOUS
  <1> DEFINE F == {0 .. x : x \in {z \in T : z <= n}}
  <1>2. IsFiniteSet(0 .. n)
    BY FS_Interval
  <1>3. F \subseteq SUBSET (0 .. n) /\ F # {}
    OBVIOUS
  <1>4. PICK X \in F : \A Y \in F : Y \subseteq X => Y = X
    <2> DEFINE S == 0 .. n
    <2>1. IsFiniteSet(S) /\ F \subseteq SUBSET S /\ F # {}
      BY <1>2, <1>3
    <2> HIDE DEF F, S
    <2> QED BY <2>1, SmallestSet
  <1>5. PICK x \in T : x <= n /\ X = 0 .. x
    BY <1>4
  <1>6. ASSUME NEW y \in T, y < x PROVE FALSE
    <2>1. 0 .. y \in F /\ 0 .. y \subseteq X /\ x \in X /\ x \notin 0 .. y
      BY <1>6, <1>5
    <2> QED BY <2>1, <1>4
  <1> QED BY <1>6

\* A set of naturals up to n has a greatest element.
LEMMA GreatestNatural ==
    ASSUME NEW n \in Nat, NEW T, T \subseteq 0 .. n, T # {}
    PROVE  \E x \in T : \A y \in T : y <= x
  <1> DEFINE U == {n - x : x \in T}
  <1>0. \A x \in T : x \in Nat /\ x <= n /\ n - x \in Nat
    OBVIOUS
  <1>1. U \subseteq Nat /\ U # {}
    BY <1>0
  <1>2. PICK u \in U : \A v \in U : u <= v
    <2> HIDE DEF U
    <2> QED BY <1>1, LeastNatural
  <1>3. PICK x \in T : u = n - x
    BY <1>2
  <1>4. ASSUME NEW y \in T PROVE y <= x
    <2>1. n - y \in U /\ x \in Nat /\ y \in Nat
      BY <1>0
    <2>2. n - x <= n - y
      BY <2>1, <1>2, <1>3
    <2> QED BY <2>1, <2>2
  <1> QED BY <1>4

LEMMA Induction ==
    ASSUME NEW T, 0 \in T, \A n \in Nat : n \in T => n + 1 \in T
    PROVE  \A n \in Nat : n \in T
  <1> DEFINE U == {n \in Nat : n \notin T}
  <1>1. ASSUME U # {} PROVE FALSE
    <2>1. U \subseteq Nat
      OBVIOUS
    <2>2. PICK u \in U : \A v \in U : u <= v
      <3> HIDE DEF U
      <3> QED BY <1>1, <2>1, LeastNatural
    <2>3. u # 0 /\ u - 1 \in Nat /\ u - 1 \in T
      BY <2>2
    <2> QED BY <2>2, <2>3
  <1> QED BY <1>1

\* A function can be defined from its value at 0 and a step.
Recurs(f, base, step) == f[0] = base /\ \A n \in Nat : f[n + 1] = step[<<n, f[n]>>]

LEMMA Recursion ==
    ASSUME NEW V, NEW base \in V, NEW step \in [Nat \X V -> V]
    PROVE  \E f \in [Nat -> V] : Recurs(f, base, step)
  <1> DEFINE part(n, g) ==
        /\ g \in [0 .. n -> V] /\ g[0] = base
        /\ \A i \in 0 .. n - 1 : g[i + 1] = step[<<i, g[i]>>]
      T == {n \in Nat : \E g : part(n, g)}
  <1>1. 0 \in T
    <2>1. part(0, [i \in 0 .. 0 |-> base])
      OBVIOUS
    <2> QED BY <2>1
  <1>2. ASSUME NEW n \in Nat, n \in T PROVE n + 1 \in T
    <2>1. PICK g : part(n, g)
      BY <1>2
    <2> DEFINE h == [i \in 0 .. n + 1 |-> IF i = n + 1 THEN step[<<n, g[n]>>] ELSE g[i]]
    <2>0. g[n] \in V /\ step[<<n, g[n]>>] \in V /\ \A i \in 0 .. n : g[i] \in V
      BY <2>1
    <2>1a. \A i \in 0 .. n + 1 : i = n + 1 \/ i \in 0 .. n
      OBVIOUS
    <2>2. h \in [0 .. n + 1 -> V] /\ h[0] = base
      BY <2>0, <2>1, <2>1a
    <2>3. ASSUME NEW i \in 0 .. n PROVE h[i + 1] = step[<<i, h[i]>>]
      <3>1. i \in 0 .. n + 1 /\ i + 1 \in 0 .. n + 1 /\ h[i] = g[i]
        OBVIOUS
      <3>2. CASE i = n
        BY <3>1, <3>2
      <3>3. CASE i # n
        <4>1. i \in 0 .. n - 1 /\ i + 1 # n + 1
          BY <3>3
        <4>2. g[i + 1] = step[<<i, g[i]>>]
          BY <4>1, <2>1
        <4> QED BY <3>1, <4>1, <4>2
      <3> QED BY <3>2, <3>3
    <2>4. (n + 1) - 1 = n
      OBVIOUS
    <2>5. part(n + 1, h)
      <3> HIDE DEF h
      <3> QED BY <2>2, <2>3, <2>4
    <2> HIDE DEF part, h
    <2> QED BY <2>5
  <1>3. \A n \in Nat : n \in T
    <2> HIDE DEF T
    <2> QED BY <1>1, <1>2, Induction
  <1>4. ASSUME NEW m \in Nat, NEW n \in Nat, NEW g, NEW h, part(m, g), part(n, h), m <= n
        PROVE  g[m] = h[m]
    <2> DEFINE U == {i \in Nat : i <= m => g[i] = h[i]}
    <2>1. 0 \in U
      BY <1>4
    <2>2. ASSUME NEW i \in Nat, i \in U PROVE i + 1 \in U
      <3> SUFFICES ASSUME i + 1 <= m PROVE g[i + 1] = h[i + 1]
        OBVIOUS
      <3>1. i \in 0 .. m - 1 /\ i \in 0 .. n - 1 /\ g[i] = h[i]
        BY <1>4, <2>2
      <3> QED BY <1>4, <3>1
    <2>3. \A i \in Nat : i \in U
      <3> HIDE DEF U
      <3> QED BY <2>1, <2>2, Induction
    <2> QED BY <2>3
  <1> DEFINE pick(n) == CHOOSE g : part(n, g)
             f == [n \in Nat |-> pick(n)[n]]
  <1>5. \A n \in Nat : part(n, pick(n))
    BY <1>3
  <1> HIDE DEF pick
  <1>6. f \in [Nat -> V] /\ f[0] = base
    BY <1>5
  <1>7. ASSUME NEW n \in Nat PROVE f[n + 1] = step[<<n, f[n]>>]
    <2>1. part(n, pick(n)) /\ part(n + 1, pick(n + 1))
      BY <1>5
    <2>2. pick(n)[n] = pick(n + 1)[n]
      <3> HIDE DEF part
      <3> QED BY <2>1, <1>4
    <2>3. pick(n + 1)[n + 1] = step[<<n, pick(n + 1)[n]>>]
      BY <2>1
    <2> QED BY <2>2, <2>3
  <1> QED BY <1>6, <1>7 DEF Recurs

-----------------------------------------------------------------------------
(* The operators of the model                                              *)

\* 10n ** BigInt(d) is a positive integer.
LEMMA PowerOfTen == pow10[0] = 1 /\ \A d \in Nat : pow10[d] \in Nat \ {0}
  <1> DEFINE step == [p \in Nat \X Nat |-> 10 * p[2]]
  <1>1. step \in [Nat \X Nat -> Nat]
    OBVIOUS
  <1>2. PICK f \in [Nat -> Nat] : f[0] = 1 /\ \A n \in Nat : f[n + 1] = step[<<n, f[n]>>]
    <2> DEFINE V == Nat
               one == 1
    <2>1. one \in V /\ step \in [Nat \X V -> V]
      BY <1>1
    <2> HIDE DEF step, V, one
    <2>2. \E f \in [Nat -> V] : Recurs(f, one, step)
      BY <2>1, Recursion
    <2> QED BY <2>2 DEF V, one, Recurs
  <1>3. \A n \in Nat : f[n + 1] = 10 * f[n]
    BY <1>2
  <1>4. \A n \in Nat : f[n] = IF n = 0 THEN 1 ELSE 10 * f[n - 1]
    <2> TAKE n \in Nat
    <2>1. CASE n = 0
      BY <2>1, <1>2
    <2>2. CASE n # 0
      <3>1. n - 1 \in Nat /\ (n - 1) + 1 = n
        BY <2>2
      <3> QED BY <2>2, <3>1, <1>3
    <2> QED BY <2>1, <2>2
  <1>5. f = [n \in Nat |-> IF n = 0 THEN 1 ELSE 10 * f[n - 1]]
    BY <1>4
  <1>6. pow10 = [n \in Nat |-> IF n = 0 THEN 1 ELSE 10 * pow10[n - 1]]
    BY <1>5 DEF pow10
  <1> DEFINE T == {d \in Nat : pow10[d] \in Nat \ {0}}
  <1>7. 0 \in T
    BY <1>6
  <1>8. ASSUME NEW n \in Nat, n \in T PROVE n + 1 \in T
    <2>1. pow10[n + 1] = 10 * pow10[n]
      BY <1>6
    <2>2. pow10[n] \in Nat /\ pow10[n] # 0
      BY <1>8
    <2>3. 10 * pow10[n] \in Nat /\ 10 * pow10[n] # 0
      BY <2>2
    <2> QED BY <2>1, <2>3
  <1>9. \A d \in Nat : d \in T
    <2> HIDE DEF T
    <2> QED BY <1>7, <1>8, Induction
  <1> QED BY <1>6, <1>9

\* The library's Min and Max, where they exist.
LEMMA MinOf ==
    ASSUME NEW S, S \subseteq Nat, S # {}
    PROVE  Min(S) \in S /\ \A y \in S : Min(S) <= y
  <1>1. \E x \in S : \A y \in S : x <= y
    BY LeastNatural
  <1> QED BY <1>1 DEF Min

LEMMA MaxOf ==
    ASSUME NEW n \in Nat, NEW S, S \subseteq 0 .. n, S # {}
    PROVE  Max(S) \in S /\ \A y \in S : y <= Max(S)
  <1>1. \E x \in S : \A y \in S : y <= x
    BY GreatestNatural
  <1>2. \A x, y \in S : y <= x <=> x >= y
    OBVIOUS
  <1>3. \E x \in S : \A y \in S : x >= y
    BY <1>1, <1>2
  <1> QED BY <1>2, <1>3 DEF Max

\* R orders S strictly, with no two elements level.
StrictOrder(S, R) ==
    /\ \A x \in S : <<x, x>> \notin R
    /\ \A x, y, z \in S : <<x, y>> \in R /\ <<y, z>> \in R => <<x, z>> \in R
    /\ \A x, y \in S : x = y \/ <<x, y>> \in R \/ <<y, x>> \in R

\* Array.sort: every element once, each behind exactly those before it.
LEMMA OrderedSorts ==
    ASSUME NEW S, IsFiniteSet(S), NEW R, StrictOrder(S, R)
    PROVE  /\ Ordered(S, R) \in [1 .. Cardinality(S) -> S]
           /\ \A x \in S : \E i \in 1 .. Cardinality(S) : Ordered(S, R)[i] = x
           /\ \A i, j \in 1 .. Cardinality(S) :
                <<Ordered(S, R)[i], Ordered(S, R)[j]>> \in R <=> i < j
  <1> DEFINE n == Cardinality(S)
             before(x) == {y \in S : <<y, x>> \in R}
             rank(x) == Cardinality(before(x))
             f == [x \in S |-> rank(x) + 1]
  <1>1. n \in Nat
    BY FS_CardinalityType
  <1>2. ASSUME NEW x \in S PROVE IsFiniteSet(before(x)) /\ rank(x) \in Nat /\ rank(x) + 1 \in 1 .. n
    <2>1. before(x) \in SUBSET (S \ {x})
      BY DEF StrictOrder
    <2>2. IsFiniteSet(S \ {x}) /\ Cardinality(S \ {x}) = n - 1
      BY FS_RemoveElement
    <2> HIDE DEF before
    <2>3. IsFiniteSet(before(x)) /\ rank(x) <= n - 1
      BY <2>1, <2>2, FS_Subset
    <2>4. rank(x) \in Nat
      BY <2>3, FS_CardinalityType
    <2> QED BY <2>3, <2>4, <1>1
  <1>3. ASSUME NEW x \in S, NEW y \in S, <<x, y>> \in R PROVE rank(x) < rank(y)
    <2>1. before(x) \in SUBSET (before(y) \ {x}) /\ x \in before(y)
      BY <1>3 DEF StrictOrder
    <2>2. IsFiniteSet(before(y)) /\ rank(y) \in Nat /\ rank(x) \in Nat
      BY <1>2
    <2> HIDE DEF before
    <2>3. IsFiniteSet(before(y) \ {x}) /\ Cardinality(before(y) \ {x}) = rank(y) - 1
      BY <2>1, <2>2, FS_RemoveElement
    <2>4. rank(x) <= rank(y) - 1
      BY <2>1, <2>3, FS_Subset
    <2> QED BY <2>2, <2>4
  <1> HIDE DEF n, rank
  <1>4. f \in [S -> 1 .. n] /\ \A x \in S : f[x] = rank(x) + 1
    BY <1>2
  <1>5. \A x, y \in S : f[x] = f[y] => x = y
    <2> SUFFICES ASSUME NEW x \in S, NEW y \in S, f[x] = f[y], x # y PROVE FALSE
      OBVIOUS
    <2>0. rank(x) + 1 = rank(y) + 1
      BY <1>4
    <2>a. rank(x) \in Nat /\ rank(y) \in Nat
      BY <1>2
    <2>1. rank(x) \in Nat /\ rank(x) = rank(y)
      BY <2>0, <2>a
    <2>2. <<x, y>> \in R \/ <<y, x>> \in R
      BY DEF StrictOrder
    <2> QED BY <2>1, <2>2, <1>3
  <1> HIDE DEF f
  <1>6. f \in Injection(S, 1 .. n)
    BY <1>4, <1>5 DEF Injection, IsInjective
  <1>7. IsFiniteSet(1 .. n) /\ Cardinality(1 .. n) = n
    BY <1>1, FS_Interval
  <1>8. f \in Surjection(S, 1 .. n)
    <2> DEFINE N == 1 .. n
    <2>1. f \in Injection(S, N) /\ IsFiniteSet(N) /\ Cardinality(S) = Cardinality(N)
      BY <1>6, <1>7 DEF n
    <2> HIDE DEF N
    <2>2. f \in Surjection(S, N)
      BY <2>1, FS_Injection
    <2> QED BY <2>2 DEF N
  <1>9. \A i \in 1 .. n : \E x \in S : rank(x) = i - 1
    <2> TAKE i \in 1 .. n
    <2>1. PICK x \in S : f[x] = i
      BY <1>8 DEF Surjection
    <2>2. rank(x) + 1 = i /\ rank(x) \in Nat
      BY <2>1, <1>2, <1>4
    <2>3. rank(x) = i - 1
      BY <2>2
    <2> QED BY <2>3
  <1> DEFINE s == [i \in 1 .. n |-> CHOOSE x \in S : rank(x) = i - 1]
  <1>10. Ordered(S, R) = s
    BY DEF Ordered, n, rank
  <1>11. \A i \in 1 .. n : s[i] \in S /\ rank(s[i]) = i - 1
    BY <1>9
  <1>12. s \in [1 .. n -> S]
    BY <1>11
  <1> HIDE DEF s
  <1>13. ASSUME NEW x \in S PROVE \E i \in 1 .. n : s[i] = x
    <2>1. rank(x) + 1 \in 1 .. n /\ rank(x) \in Nat
      BY <1>2
    <2>2. s[rank(x) + 1] \in S /\ rank(s[rank(x) + 1]) = rank(x)
      BY <2>1, <1>11
    <2>3. f[s[rank(x) + 1]] = f[x]
      BY <2>2, <1>4
    <2> QED BY <2>1, <2>2, <2>3, <1>5
  <1>14. ASSUME NEW i \in 1 .. n, NEW j \in 1 .. n PROVE <<s[i], s[j]>> \in R <=> i < j
    <2>1. /\ s[i] \in S /\ rank(s[i]) = i - 1
          /\ s[j] \in S /\ rank(s[j]) = j - 1
      BY <1>11
    <2>2. <<s[i], s[j]>> \in R => i < j
      BY <2>1, <1>3, <1>1
    <2>3. <<s[j], s[i]>> \in R => j < i
      BY <2>1, <1>3, <1>1
    <2>4. s[i] = s[j] => i = j
      BY <2>1, <1>1
    <2>5. s[i] = s[j] \/ <<s[i], s[j]>> \in R \/ <<s[j], s[i]>> \in R
      BY <2>1 DEF StrictOrder
    <2> QED BY <2>2, <2>3, <2>4, <2>5, <1>1
  <1> QED BY <1>10, <1>12, <1>13, <1>14 DEF n

LEMMA PairMinMax ==
    ASSUME NEW a \in Int, NEW b \in Int
    PROVE  /\ Min({a, b}) = IF a <= b THEN a ELSE b
           /\ Max({a, b}) = IF a <= b THEN b ELSE a
  <1>1. \E x \in {a, b} : \A y \in {a, b} : x <= y
    OBVIOUS
  <1>2. \E x \in {a, b} : \A y \in {a, b} : x >= y
    OBVIOUS
  <1>3. Min({a, b}) \in {a, b} /\ \A y \in {a, b} : Min({a, b}) <= y
    BY <1>1 DEF Min
  <1>4. Max({a, b}) \in {a, b} /\ \A y \in {a, b} : Max({a, b}) >= y
    BY <1>2 DEF Max
  <1> QED BY <1>3, <1>4

\* How many transactions the pages before page p hold.
Skipped(p) == (p - 1) * PageSize

\* Page p at moment k holds the rows between two marks, the newest first, and
\* is full unless the history begins on it.
LEMMA PageRows ==
    ASSUME NEW k \in Nat, NEW p \in Nat \ {0}
    PROVE  LET rows == fetchTransactionRows(k, p) IN
           /\ Skipped(p) \in Nat /\ Skipped(p + 1) = Skipped(p) + PageSize
           /\ PageSize \in Nat \ {0} /\ Len(rows) \in 0 .. PageSize
           /\ \A i \in 1 .. Len(rows) :
                rows[i] = k - Skipped(p) - i + 1 /\ rows[i] \in 1 .. k
           /\ \A t \in 1 .. k : k - Skipped(p + 1) < t /\ t <= k - Skipped(p) =>
                k - Skipped(p) - t + 1 \in 1 .. Len(rows)
           /\ Len(rows) < PageSize => k < Skipped(p + 1)
  <1> DEFINE rows == fetchTransactionRows(k, p)
             s == Skipped(p)
             last == k - s
             n == Max({0, Min({PageSize, last})})
  <1>1. PageSize \in Nat /\ PageSize # 0
    BY PageAssumption
  <1>2. s \in Nat /\ Skipped(p + 1) = s + PageSize
    <2>1. p - 1 \in Nat /\ (p + 1) - 1 = (p - 1) + 1
      OBVIOUS
    <2>2. \A a, b \in Nat : a * b \in Nat /\ (a + 1) * b = a * b + b
      OBVIOUS
    <2> QED BY <1>1, <2>1, <2>2 DEF Skipped
  <1>3. rows = [i \in 1 .. n |-> last - i + 1]
    BY DEF fetchTransactionRows, Skipped
  <1> HIDE DEF s
  <1>4. last \in Int
    BY <1>2
  <1>5. n = IF last <= 0 THEN 0 ELSE IF PageSize <= last THEN PageSize ELSE last
    <2> HIDE DEF last
    <2>1. Min({PageSize, last}) = IF PageSize <= last THEN PageSize ELSE last
      BY <1>1, <1>4, PairMinMax
    <2> DEFINE m == Min({PageSize, last})
    <2>2. m \in Int
      BY <1>1, <1>4, <2>1
    <2> HIDE DEF m
    <2>3. Max({0, m}) = IF 0 <= m THEN m ELSE 0
      BY <2>2, PairMinMax
    <2> QED BY <2>1, <2>3, <1>1, <1>4 DEF m
  <1> HIDE DEF n, rows
  <1>6. n \in Nat /\ Len(rows) = n
    BY <1>1, <1>3, <1>4, <1>5
  <1>7. Len(rows) \in 0 .. PageSize
    BY <1>1, <1>4, <1>5, <1>6
  <1>8. \A i \in 1 .. Len(rows) : rows[i] = k - s - i + 1 /\ rows[i] \in 1 .. k
    <2> TAKE i \in 1 .. Len(rows)
    <2>1. i \in 1 .. n /\ rows[i] = k - s - i + 1
      BY <1>3, <1>6
    <2> QED BY <2>1, <1>1, <1>2, <1>5, <1>6
  <1>9. \A t \in 1 .. k : k - Skipped(p + 1) < t /\ t <= k - s => k - s - t + 1 \in 1 .. Len(rows)
    BY <1>1, <1>2, <1>5, <1>6
  <1>10. Len(rows) < PageSize => k < Skipped(p + 1)
    BY <1>1, <1>2, <1>5, <1>6
  <1> QED BY <1>1, <1>2, <1>7, <1>8, <1>9, <1>10 DEF s, rows

-----------------------------------------------------------------------------
(* The inductive invariant: every answer of an account read, in a load and *)
(* on the screen, is of a moment since the page was opened; every page of  *)
(* the feed is of a moment the indexer has been at since, read one after   *)
(* the other, up to one that was not found; a balance is of a moment since *)
(* the tab may have cached it, and the one that may still be delivered is  *)
(* that of the account and the currency of now.                            *)

HistoryOK ==
    /\ hist \in Seq(Range(hist)) /\ Accepted(hist)
    /\ funds \in [0 .. Len(hist) -> [Accounts -> [Currencies -> Nat]]]
    /\ opened \in Nat /\ now \in Nat /\ opened <= now /\ now <= Len(hist)
    /\ since \in Nat /\ ingested \in Nat
    /\ since <= opened /\ since <= ingested /\ ingested <= now

Moments == opened .. now
FeedMoments == since .. ingested
BalanceMoments == since .. now
Reads == Moments \cup {Waiting, Failed}
FeedPages ==
    {f \in Seq(FeedMoments \cup {0}) :
       \A p, q \in 1 .. Len(f) : p < q => f[p] # 0 /\ (f[p] <= f[q] \/ f[q] = 0)}
Feeds == FeedPages \cup {Failed}

SearchLoad == [first : BOOLEAN, names : Reads, feed : Feeds]
ExploreLoad == [names : Reads, listings : Reads, labels : Reads, feed : Feeds]

Lookup ==
    [scan : Moments, counted : BOOLEAN \cup {Waiting}, primary : BOOLEAN \cup {Waiting}]
      \cup {Waiting, Failed}
MineLoad ==
    {l \in [account : Accounts \cup {Waiting},
            lookups : UNION {[D -> Lookup] : D \in SUBSET Accounts}] :
       l.account # Waiting => l.account \in DOMAIN l.lookups}

BalanceLoad ==
    {l \in [account : Accounts, currency : Currencies, live : BOOLEAN,
            read : BalanceMoments \cup {Waiting, Failed}] :
       l.live => l.account = reported /\ l.currency = currency /\ reported # None}

PageLoad ==
    CASE page = "search" -> SearchLoad
      [] page = "explore" -> ExploreLoad
      [] page = "mine" -> MineLoad
      [] OTHER -> BalanceLoad

\* What the page shows once a load was applied.
ShownOK ==
    /\ page = "search" => shown \in [names : Moments, feed : Feeds] /\ feed_read(shown.feed)
    /\ page = "explore" =>
         /\ shown \in [names : Moments, listings : Moments, labels : Moments, feed : Feeds]
         /\ feed_read(shown.feed)
    /\ page = "mine" => shown \in MineLoad /\ mine_settled(shown)
    /\ page = "name" /\ ~loading =>
         /\ reported # None
         /\ \E k \in BalanceMoments :
              shown = [spendable |-> spendableFrom(reported, currency, k)]

\* A list is not there yet only while it loads, or the page says it failed.
AbsenceTold == page \in {"search", "explore"} /\ shown = None => loading \/ error

\* While the form says that the balance loads, a read of it is under way.
LoadIsLive ==
    page = "name" /\ reported # None /\ loading => \E i \in DOMAIN loads : loads[i].live

Caches == [Accounts \X Currencies -> BalanceMoments \cup {None}]

PagesInv ==
    /\ HistoryOK
    /\ page \in Views /\ currency \in Currencies
    /\ wallet \in Accounts \cup {None} /\ reported \in Accounts \cup {None}
    /\ known \subseteq Accounts /\ accountCache \in Caches
    /\ loads \in Seq(PageLoad)
    /\ shown # None => ShownOK
    /\ AbsenceTold /\ LoadIsLive

-----------------------------------------------------------------------------
(* Each step keeps the invariant                                           *)

LEMMA SeqUpdated ==
    ASSUME NEW X, NEW s \in Seq(X), NEW i \in DOMAIN s, NEW x \in X
    PROVE  [s EXCEPT ![i] = x] \in Seq(X)
  OBVIOUS

LEMMA SeqRemoved ==
    ASSUME NEW X, NEW s \in Seq(X), NEW i \in DOMAIN s
    PROVE  RemoveAt(s, i) \in Seq(X)
  <1>1. i \in 1 .. Len(s) /\ Len(s) \in Nat
    OBVIOUS
  <1>2. SubSeq(s, 1, i - 1) \in Seq(X)
    BY <1>1
  <1>3. SubSeq(s, i + 1, Len(s)) \in Seq(X)
    BY <1>1
  <1> QED BY <1>2, <1>3 DEF RemoveAt

LEMMA SeqWidened ==
    ASSUME NEW X, NEW Y, X \subseteq Y
    PROVE  Seq(X) \subseteq Seq(Y)
  OBVIOUS

\* What is left of a sequence when one of its elements is taken out.
LEMMA SeqKeeps ==
    ASSUME NEW X, NEW s \in Seq(X), NEW i \in DOMAIN s, NEW j \in DOMAIN s, i # j
    PROVE  \E m \in DOMAIN RemoveAt(s, i) : RemoveAt(s, i)[m] = s[j]
  <1>1. i \in 1 .. Len(s) /\ j \in 1 .. Len(s) /\ Len(s) \in Nat
    OBVIOUS
  <1> DEFINE a == SubSeq(s, 1, i - 1)
             b == SubSeq(s, i + 1, Len(s))
  <1>2. a \in Seq(X) /\ Len(a) = i - 1 /\ \A m \in 1 .. i - 1 : a[m] = s[m]
    BY <1>1
  <1>3. b \in Seq(X) /\ Len(b) = Len(s) - i /\ \A m \in 1 .. Len(s) - i : b[m] = s[i + m]
    BY <1>1
  <1> HIDE DEF a, b
  <1>4. RemoveAt(s, i) = a \o b
    BY DEF RemoveAt, a, b
  <1>5. a \o b \in Seq(X) /\ DOMAIN (a \o b) = 1 .. Len(s) - 1
    BY <1>1, <1>2, <1>3
  <1>6. CASE j < i
    <2>1. j \in 1 .. i - 1 /\ j \in 1 .. Len(s) - 1 /\ j \in 1 .. Len(a)
      BY <1>1, <1>2, <1>6
    <2>2. (a \o b)[j] = a[j]
      BY <1>2, <1>3, <2>1
    <2> QED BY <1>2, <1>4, <1>5, <2>1, <2>2
  <1>7. CASE j > i
    <2>1. j - i \in 1 .. Len(b) /\ j - 1 \in 1 .. Len(s) - 1 /\ i + (j - i) = j
          /\ j - 1 = Len(a) + (j - i)
      BY <1>1, <1>2, <1>3, <1>7
    <2>2. (a \o b)[j - 1] = b[j - i]
      <3>1. j - 1 \in Len(a) + 1 .. Len(a) + Len(b) /\ (j - 1) - Len(a) = j - i
        <4>1. Len(a) = i - 1 /\ Len(b) = Len(s) - i
          BY <1>2, <1>3
        <4>2. \A x, y, n \in Nat : x < y /\ y <= n /\ 1 <= x =>
                /\ y - 1 \in (x - 1) + 1 .. (x - 1) + (n - x)
                /\ (y - 1) - (x - 1) = y - x
          OBVIOUS
        <4>3. i \in Nat /\ j \in Nat /\ 1 <= i /\ j <= Len(s) /\ i < j
          BY <1>1, <1>7
        <4> QED BY <1>1, <4>1, <4>2, <4>3
      <3>2. \A n \in Len(a) + 1 .. Len(a) + Len(b) : (a \o b)[n] = b[n - Len(a)]
        <4>1. a \in Seq(X) /\ b \in Seq(X)
          BY <1>2, <1>3
        <4> QED BY <4>1
      <3> QED BY <3>1, <3>2
    <2>3. b[j - i] = s[j]
      BY <1>3, <2>1
    <2> QED BY <1>4, <1>5, <2>1, <2>2, <2>3
  <1> QED BY <1>1, <1>6, <1>7

\* Time only goes forward, for the registry and for its indexer.
Onward ==
    /\ UNCHANGED <<hist, funds, since, opened>>
    /\ now' \in Nat /\ now <= now' /\ ingested' \in Nat /\ ingested <= ingested'

\* A moment since the page was opened remains one.
LEMMA MomentsKept ==
    ASSUME HistoryOK, Onward
    PROVE  /\ Moments \subseteq Moments' /\ Reads \subseteq Reads' /\ Feeds \subseteq Feeds'
           /\ BalanceMoments \subseteq BalanceMoments' /\ Caches \subseteq Caches'
  <1>1. Moments \subseteq Moments' /\ FeedMoments \subseteq FeedMoments'
        /\ BalanceMoments \subseteq BalanceMoments'
    BY DEF HistoryOK, Onward, Moments, FeedMoments, BalanceMoments
  <1>2. Seq(FeedMoments \cup {0}) \subseteq Seq(FeedMoments' \cup {0})
    <2> DEFINE X == FeedMoments \cup {0}
               Y == FeedMoments' \cup {0}
    <2>1. X \subseteq Y
      BY <1>1
    <2> HIDE DEF X, Y
    <2>2. Seq(X) \subseteq Seq(Y)
      BY <2>1, SeqWidened
    <2> QED BY <2>2 DEF X, Y
  <1>3. Feeds \subseteq Feeds'
    BY <1>2 DEF Feeds, FeedPages
  <1>4. Caches \subseteq Caches'
    BY <1>1 DEF Caches
  <1> QED BY <1>1, <1>3, <1>4 DEF Reads

LEMMA LoadsKept ==
    ASSUME HistoryOK, Onward, page \in Views, page' = page,
           page = "name" => UNCHANGED <<reported, currency>>
    PROVE  PageLoad \subseteq PageLoad' /\ MineLoad \subseteq MineLoad'
  <1>1. /\ Moments \subseteq Moments' /\ Reads \subseteq Reads' /\ Feeds \subseteq Feeds'
        /\ BalanceMoments \subseteq BalanceMoments'
    BY MomentsKept
  <1>2. SearchLoad \subseteq SearchLoad' /\ ExploreLoad \subseteq ExploreLoad'
    BY <1>1 DEF SearchLoad, ExploreLoad
  <1>3. Lookup \subseteq Lookup'
    BY <1>1 DEF Lookup
  <1>4. MineLoad \subseteq MineLoad'
    <2>1. \A D \in SUBSET Accounts : [D -> Lookup] \subseteq [D -> Lookup']
      BY <1>3
    <2>2. UNION {[D -> Lookup] : D \in SUBSET Accounts}
            \subseteq UNION {[D -> Lookup'] : D \in SUBSET Accounts}
      BY <2>1
    <2> QED BY <2>2 DEF MineLoad
  <1>5. page = "name" => BalanceLoad \subseteq BalanceLoad'
    BY <1>1 DEF BalanceLoad
  <1> QED BY <1>2, <1>4, <1>5 DEF PageLoad, Views

LEMMA ShownKept ==
    ASSUME HistoryOK, Onward, page \in Views, page' = page,
           page = "name" => UNCHANGED <<reported, currency, loading>>,
           shown' = shown, ShownOK
    PROVE  ShownOK'
  <1>1. /\ Moments \subseteq Moments' /\ Feeds \subseteq Feeds'
        /\ BalanceMoments \subseteq BalanceMoments'
    BY MomentsKept
  <1>2. MineLoad \subseteq MineLoad'
    BY LoadsKept
  <1>3. page = "search" =>
          shown' \in [names : Moments', feed : Feeds'] /\ feed_read(shown'.feed)
    BY <1>1 DEF ShownOK
  <1>4. page = "explore" =>
          /\ shown' \in [names : Moments', listings : Moments', labels : Moments', feed : Feeds']
          /\ feed_read(shown'.feed)
    BY <1>1 DEF ShownOK
  <1>5. page = "name" /\ ~loading' =>
          /\ reported' # None
          /\ \E k \in BalanceMoments' :
               shown' = [spendable |-> spendableFrom(reported, currency, k)']
    <2> SUFFICES ASSUME page = "name", ~loading'
                 PROVE  /\ reported' # None
                        /\ \E k \in BalanceMoments' :
                             shown' = [spendable |-> spendableFrom(reported, currency, k)']
      OBVIOUS
    <2>1. UNCHANGED <<reported, currency, loading, funds>>
      BY DEF Onward
    <2>2. PICK k \in BalanceMoments : shown = [spendable |-> spendableFrom(reported, currency, k)]
      BY <2>1 DEF ShownOK
    <2>3. spendableFrom(reported, currency, k)' = spendableFrom(reported, currency, k)
      BY <2>1 DEF spendableFrom
    <2> QED BY <1>1, <2>1, <2>2, <2>3 DEF ShownOK
  <1> QED BY <1>2, <1>3, <1>4, <1>5 DEF ShownOK

\* A transaction lands, or the indexer takes one up.
LEMMA OnwardKeeps ==
    ASSUME PagesInv, Onward, HistoryOK',
           UNCHANGED <<page, loads, shown, loading, error, browser, currency>>
    PROVE  PagesInv'
  <1> USE DEF PagesInv, browser
  <1>1. UNCHANGED <<page, loads, shown, loading, error, currency, wallet, reported, known>>
        /\ accountCache' = accountCache
    OBVIOUS
  <1>2. PageLoad \subseteq PageLoad'
    BY <1>1, LoadsKept
  <1>3. loads' \in Seq(PageLoad')
    BY <1>1, <1>2, SeqWidened
  <1>4. shown' # None => ShownOK'
    BY <1>1, ShownKept
  <1>5. accountCache' \in Caches'
    BY <1>1, MomentsKept
  <1>6. AbsenceTold' /\ LoadIsLive'
    BY <1>1 DEF AbsenceTold, LoadIsLive
  <1> QED BY <1>1, <1>3, <1>4, <1>5, <1>6

LEMMA LandsKeeps == PagesInv /\ transaction_lands => PagesInv'
  <1> SUFFICES ASSUME PagesInv, transaction_lands PROVE PagesInv'
    OBVIOUS
  <1>1. Onward /\ HistoryOK'
    BY DEF PagesInv, transaction_lands, HistoryOK, Onward
  <1> QED BY <1>1, OnwardKeeps DEF transaction_lands

LEMMA IngestsKeeps == PagesInv /\ indexer_ingests => PagesInv'
  <1> SUFFICES ASSUME PagesInv, indexer_ingests PROVE PagesInv'
    OBVIOUS
  <1>1. Onward /\ HistoryOK'
    BY DEF PagesInv, indexer_ingests, HistoryOK, Onward
  <1> QED BY <1>1, OnwardKeeps DEF indexer_ingests

\* The steps that leave the registry and the page in place.
LEMMA SamePageKeeps ==
    ASSUME PagesInv, UNCHANGED <<chain, page, opened>>,
           page = "name" => UNCHANGED <<reported, currency>>,
           currency' \in Currencies, wallet' \in Accounts \cup {None},
           reported' \in Accounts \cup {None}, known' \subseteq Accounts,
           accountCache' \in Caches,
           loads' \in Seq(PageLoad), shown' # None => ShownOK', AbsenceTold', LoadIsLive'
    PROVE  PagesInv'
  <1> USE DEF PagesInv, chain
  <1>1. HistoryOK /\ HistoryOK' /\ Onward
    BY DEF HistoryOK, Onward
  <1>2. page \in Views /\ page' = page
    OBVIOUS
  <1>3. PageLoad \subseteq PageLoad' /\ Caches \subseteq Caches'
    BY <1>1, <1>2, LoadsKept, MomentsKept
  <1>5. loads' \in Seq(PageLoad')
    BY <1>2, <1>3, SeqWidened
  <1> QED BY <1>1, <1>3, <1>5

\* ... and what is on the screen.
LEMMA QuietKeeps ==
    ASSUME PagesInv, UNCHANGED <<chain, page, opened, shown, loading, error, currency>>,
           page = "name" => reported' = reported,
           wallet' \in Accounts \cup {None}, reported' \in Accounts \cup {None},
           known' \subseteq Accounts, accountCache' \in Caches, loads' \in Seq(PageLoad),
           page = "name" => \A i \in DOMAIN loads : i \in DOMAIN loads' /\ loads'[i].live = loads[i].live
    PROVE  PagesInv'
  <1>1. HistoryOK /\ Onward /\ page \in Views /\ page' = page /\ shown' = shown
        /\ (page = "name" => UNCHANGED <<reported, currency, loading>>)
    BY DEF PagesInv, HistoryOK, chain, Onward
  <1>2. shown' # None => ShownOK'
    BY <1>1, ShownKept DEF PagesInv
  <1>3. AbsenceTold' /\ LoadIsLive'
    BY DEF AbsenceTold, LoadIsLive, PagesInv
  <1>4. currency' \in Currencies
    BY DEF PagesInv
  <1> QED BY <1>1, <1>2, <1>3, <1>4, SamePageKeeps

\* A read changes one load, and whether that one is live is not touched.
LEMMA ReadKeeps ==
    ASSUME PagesInv, NEW i \in DOMAIN loads, NEW l \in PageLoad, reads(i, l),
           UNCHANGED <<wallet, reported, known>>, accountCache' \in Caches,
           page = "name" => l.live = loads[i].live
    PROVE  PagesInv'
  <1>1. loads' \in Seq(PageLoad)
    BY SeqUpdated DEF PagesInv, reads
  <1>2. page = "name" => \A j \in DOMAIN loads : j \in DOMAIN loads' /\ loads'[j].live = loads[j].live
    BY DEF reads
  <1> QED BY <1>1, <1>2, QuietKeeps DEF PagesInv, reads

LEMMA ListReadKeeps ==
    ASSUME PagesInv, NEW i \in DOMAIN loads, NEW l \in PageLoad, reads(i, l), UNCHANGED browser,
           page # "name"
    PROVE  PagesInv'
  BY ReadKeeps DEF PagesInv, browser

\* Every load under way is of the kind its page starts.
LEMMA LoadAt ==
    ASSUME PagesInv, NEW i \in DOMAIN loads
    PROVE  /\ loads[i] \in PageLoad
           /\ page = "search" => loads[i] \in SearchLoad
           /\ page = "explore" => loads[i] \in ExploreLoad
           /\ page = "mine" => loads[i] \in MineLoad
           /\ page = "name" => loads[i] \in BalanceLoad
           /\ RemoveAt(loads, i) \in Seq(PageLoad)
           /\ now \in Moments
  <1>1. loads[i] \in PageLoad
    BY DEF PagesInv
  <1>2. RemoveAt(loads, i) \in Seq(PageLoad)
    BY SeqRemoved DEF PagesInv
  <1> QED BY <1>1, <1>2 DEF PageLoad, PagesInv, HistoryOK, Moments

LEMMA NamesReadKeeps ==
    ASSUME PagesInv, NEW i \in DOMAIN loads, names_read(i)
    PROVE  PagesInv'
  <1>1. PICK v \in {now, Failed} : answers(v) /\ reads(i, [loads[i] EXCEPT !.names = v])
    BY DEF names_read
  <1>2. v \in Reads
    BY LoadAt DEF Reads
  <1>3. PICK l : l = [loads[i] EXCEPT !.names = v]
    OBVIOUS
  <1>4. l \in PageLoad
    BY <1>2, <1>3, LoadAt DEF names_read, PageLoad, SearchLoad, ExploreLoad
  <1> QED BY <1>1, <1>3, <1>4, ListReadKeeps DEF names_read

LEMMA ListingsReadKeeps ==
    ASSUME PagesInv, NEW i \in DOMAIN loads, listings_read(i)
    PROVE  PagesInv'
  <1>1. PICK v \in {now, Failed} : \/ reads(i, [loads[i] EXCEPT !.listings = v])
                                   \/ reads(i, [loads[i] EXCEPT !.labels = v])
    BY DEF listings_read
  <1>2. v \in Reads
    BY LoadAt DEF Reads
  <1>3. PICK l : l \in {[loads[i] EXCEPT !.listings = v], [loads[i] EXCEPT !.labels = v]}
                 /\ reads(i, l)
    BY <1>1
  <1>4. l \in PageLoad
    BY <1>2, <1>3, LoadAt DEF listings_read, PageLoad, ExploreLoad
  <1> QED BY <1>3, <1>4, ListReadKeeps DEF listings_read

\* An empty page is not full, so the reading stops there.
LEMMA EmptyPageStops ==
    ASSUME NEW f, f # Failed, NEW p \in DOMAIN f, p \in Nat \ {0}, f[p] = 0
    PROVE  feed_read(f)
  <1>1. PageSize \in Nat \ {0} /\ Len(fetchTransactionRows(0, p)) \in 0 .. PageSize
        /\ \A i \in 1 .. Len(fetchTransactionRows(0, p)) :
             fetchTransactionRows(0, p)[i] \in 1 .. 0
    <2> DEFINE k == 0
    <2>1. k \in Nat
      OBVIOUS
    <2> HIDE DEF k
    <2>2. PageSize \in Nat \ {0} /\ Len(fetchTransactionRows(k, p)) \in 0 .. PageSize
          /\ \A i \in 1 .. Len(fetchTransactionRows(k, p)) :
               fetchTransactionRows(k, p)[i] \in 1 .. k
      BY <2>1, PageRows
    <2> QED BY <2>2 DEF k
  <1> DEFINE n == Len(fetchTransactionRows(0, p))
  <1>2. n \in Nat /\ 1 .. n = {}
    BY <1>1
  <1> HIDE DEF n
  <1>3. n < PageSize
    BY <1>1, <1>2
  <1> QED BY <1>3 DEF feed_read, n

\* The pages of the feed are read one after the other.
LEMMA FeedReadKeeps ==
    ASSUME PagesInv, NEW i \in DOMAIN loads, feed_page_read(i)
    PROVE  PagesInv'
  <1>1. PICK f \in {Failed, Append(loads[i].feed, 0), Append(loads[i].feed, ingested)} :
          reads(i, [loads[i] EXCEPT !.feed = f])
    BY DEF feed_page_read
  <1>2. loads[i].feed \in FeedPages /\ ~feed_read(loads[i].feed) /\ loads[i].feed # Failed
    BY LoadAt DEF feed_page_read, feed_read, SearchLoad, ExploreLoad, Feeds
  <1>3. ASSUME NEW k \in {0, ingested} PROVE Append(loads[i].feed, k) \in FeedPages
    <2>1. PICK g : g = loads[i].feed
      OBVIOUS
    <2>2. /\ g \in Seq(FeedMoments \cup {0}) /\ Len(g) \in Nat
          /\ \A p, q \in 1 .. Len(g) : p < q => g[p] # 0 /\ (g[p] <= g[q] \/ g[q] = 0)
      BY <2>1, <1>2 DEF FeedPages
    <2>3. k \in FeedMoments \cup {0} /\ k \in Nat
      BY DEF PagesInv, HistoryOK, FeedMoments
    <2>4. \A p \in 1 .. Len(g) : g[p] # 0 /\ g[p] <= ingested
      <3>1. \A p \in 1 .. Len(g) : g[p] \in FeedMoments \cup {0}
        BY <2>2
      <3>2. \A m \in FeedMoments : m <= ingested
        BY DEF PagesInv, HistoryOK, FeedMoments
      <3>3. \A p \in 1 .. Len(g) : g[p] # 0
        BY <1>2, <2>1, <2>2, EmptyPageStops
      <3> QED BY <3>1, <3>2, <3>3
    <2>5. PICK h : h = Append(g, k)
      OBVIOUS
    <2>6. /\ h \in Seq(FeedMoments \cup {0}) /\ Len(h) = Len(g) + 1
          /\ h[Len(g) + 1] = k /\ \A p \in 1 .. Len(g) : h[p] = g[p]
      BY <2>2, <2>3, <2>5
    <2>7. ASSUME NEW p \in 1 .. Len(h), NEW q \in 1 .. Len(h), p < q
          PROVE  h[p] # 0 /\ (h[p] <= h[q] \/ h[q] = 0)
      <3>1. p \in 1 .. Len(g)
        BY <2>2, <2>6, <2>7
      <3>2. CASE q = Len(g) + 1
        BY <3>1, <3>2, <2>4, <2>6
      <3>3. CASE q # Len(g) + 1
        <4>1. q \in 1 .. Len(g)
          BY <3>3, <2>2, <2>6
        <4> QED BY <3>1, <4>1, <2>2, <2>6, <2>7
      <3> QED BY <3>2, <3>3
    <2>8. h \in FeedPages
      BY <2>6, <2>7 DEF FeedPages
    <2> QED BY <2>1, <2>5, <2>8
  <1>4. f \in Feeds
    BY <1>1, <1>3 DEF Feeds
  <1>5. PICK l : l = [loads[i] EXCEPT !.feed = f]
    OBVIOUS
  <1>6. l \in PageLoad
    BY <1>4, <1>5, LoadAt DEF feed_page_read, PageLoad, SearchLoad, ExploreLoad
  <1> QED BY <1>1, <1>5, <1>6, ListReadKeeps DEF feed_page_read

\* What a load puts on the screen, or the error it raises.
LEMMA ListSettlesKeeps ==
    ASSUME PagesInv, NEW i \in DOMAIN loads, list_settles(i)
    PROVE  PagesInv'
  <1>1. /\ UNCHANGED <<chain, page, opened, currency, wallet, reported, known, accountCache>>
        /\ loads' \in Seq(PageLoad) /\ page \in {"search", "explore"}
    BY LoadAt DEF list_settles, browser
  <1>2. Moments' = Moments /\ Feeds' = Feeds /\ LoadIsLive'
    BY <1>1 DEF Moments, Feeds, FeedPages, FeedMoments, chain, LoadIsLive
  <1>3. CASE page = "search" /\ loads[i].names # Failed
    <2>1. loads[i] \in SearchLoad /\ loads[i].names \in Moments /\ loads[i].feed \in Feeds
          /\ feed_read(loads[i].feed)
      BY <1>3, LoadAt DEF list_settles, search_settled, SearchLoad, Reads
    <2>2. shown' = [names |-> loads[i].names, feed |-> loads[i].feed]
      BY <1>3 DEF list_settles, search_applies
    <2>3. shown' \in [names : Moments, feed : Feeds] /\ feed_read(shown'.feed)
      BY <2>1, <2>2
    <2>4. shown' # None
      <3>1. Moments \subseteq Nat /\ Feeds \subseteq Feed
        <4>1. Moments \subseteq Nat /\ FeedMoments \cup {0} \subseteq Nat
          BY DEF PagesInv, HistoryOK, Moments, FeedMoments
        <4>2. Seq(FeedMoments \cup {0}) \subseteq Seq(Nat)
          BY <4>1, SeqWidened
        <4> QED BY <4>1, <4>2 DEF Feeds, FeedPages, Feed
      <3> QED BY <2>3, <3>1, NoneAssumption DEF Latest
    <2>5. ShownOK' /\ AbsenceTold'
      BY <1>1, <1>2, <1>3, <2>3, <2>4 DEF ShownOK, AbsenceTold
    <2> QED BY <1>1, <1>2, <2>5, SamePageKeeps DEF PagesInv
  <1>4. CASE page = "explore" /\ Failed \notin {loads[i].names, loads[i].listings, loads[i].labels}
    <2>1. /\ loads[i] \in ExploreLoad /\ loads[i].names \in Moments
          /\ loads[i].listings \in Moments /\ loads[i].labels \in Moments
          /\ loads[i].feed \in Feeds /\ feed_read(loads[i].feed)
      BY <1>4, LoadAt DEF list_settles, explore_settled, ExploreLoad, Reads
    <2>2. shown' = loads[i]
      BY <1>4 DEF list_settles, explore_applies
    <2>3. /\ shown' \in [names : Moments, listings : Moments, labels : Moments, feed : Feeds]
          /\ feed_read(shown'.feed)
      BY <2>1, <2>2 DEF ExploreLoad
    <2>4. shown' # None
      <3>1. Moments \subseteq Nat /\ Feeds \subseteq Feed
        <4>1. Moments \subseteq Nat /\ FeedMoments \cup {0} \subseteq Nat
          BY DEF PagesInv, HistoryOK, Moments, FeedMoments
        <4>2. Seq(FeedMoments \cup {0}) \subseteq Seq(Nat)
          BY <4>1, SeqWidened
        <4> QED BY <4>1, <4>2 DEF Feeds, FeedPages, Feed
      <3> QED BY <2>3, <3>1, NoneAssumption DEF Market
    <2>5. ShownOK' /\ AbsenceTold'
      BY <1>1, <1>2, <1>4, <2>3, <2>4 DEF ShownOK, AbsenceTold
    <2> QED BY <1>1, <1>2, <2>5, SamePageKeeps DEF PagesInv
  <1>5. CASE \/ page = "search" /\ loads[i].names = Failed
             \/ page = "explore" /\ Failed \in {loads[i].names, loads[i].listings, loads[i].labels}
    <2>1. shown' = shown
      BY <1>5 DEF list_settles, search_applies, explore_applies
    <2>2. AbsenceTold'
      <3>1. CASE page = "search"
        <4>1. loads[i].first \in BOOLEAN
          BY <3>1, LoadAt DEF SearchLoad
        <4> QED BY <1>1, <1>5, <2>1, <3>1, <4>1
                DEF list_settles, search_applies, AbsenceTold, PagesInv
      <3>2. CASE page = "explore"
        BY <1>1, <1>5, <2>1, <3>2 DEF list_settles, explore_applies, AbsenceTold
      <3> QED BY <1>1, <3>1, <3>2
    <2>3. shown' # None => ShownOK'
      <3>1. HistoryOK /\ Onward /\ page \in Views /\ page' = page
        BY <1>1 DEF PagesInv, HistoryOK, chain, Onward
      <3> QED BY <1>1, <2>1, <3>1, ShownKept DEF PagesInv
    <2> QED BY <1>1, <1>2, <2>2, <2>3, SamePageKeeps DEF PagesInv
  <1> QED BY <1>1, <1>3, <1>4, <1>5

LEMMA LoadMineKeeps == PagesInv /\ load_mine => PagesInv'
  <1> SUFFICES ASSUME PagesInv, load_mine PROVE PagesInv'
    OBVIOUS
  <1>1. mine_load \in MineLoad
    <2>1. <<>> \in [{} -> Lookup]
      OBVIOUS
    <2>2. <<>> \in UNION {[D -> Lookup] : D \in SUBSET Accounts}
      BY <2>1
    <2> QED BY <2>2 DEF mine_load, MineLoad
  <1>2. loads' \in Seq(PageLoad)
    BY <1>1 DEF PagesInv, load_mine, PageLoad
  <1> QED BY <1>2, SamePageKeeps DEF PagesInv, load_mine, browser, chain, AbsenceTold, LoadIsLive

LEMMA MineRefreshKeeps ==
    ASSUME PagesInv, NEW i \in DOMAIN loads, mine_refreshes(i)
    PROVE  PagesInv'
  <1>1. /\ UNCHANGED <<chain, page, opened, shown, wallet, currency, accountCache>>
        /\ page = "mine"
        /\ reported' \in Accounts \cup {None} /\ known' \subseteq Accounts
    BY DEF PagesInv, mine_refreshes
  <1>2. loads' \in Seq(PageLoad)
    <2>1. CASE wallet = None
      BY <2>1, LoadAt DEF mine_refreshes
    <2>2. CASE wallet # None
      <3>1. wallet \in Accounts /\ nameLookupAccounts(wallet) \in SUBSET Accounts
            /\ wallet \in nameLookupAccounts(wallet)
        BY <2>2 DEF PagesInv, nameLookupAccounts
      <3>2. [a \in nameLookupAccounts(wallet) |-> Waiting] \in [nameLookupAccounts(wallet) -> Lookup]
        BY DEF Lookup
      <3>3. PICK l : l = [account |-> wallet, lookups |-> [a \in nameLookupAccounts(wallet) |-> Waiting]]
        OBVIOUS
      <3>4. l \in MineLoad
        BY <3>1, <3>2, <3>3 DEF MineLoad
      <3>5. l \in PageLoad
        BY <3>4, <1>1 DEF PageLoad
      <3>6. loads' = [loads EXCEPT ![i] = l]
        BY <2>2, <3>3 DEF mine_refreshes
      <3> QED BY <3>5, <3>6, SeqUpdated DEF PagesInv
    <2> QED BY <2>1, <2>2
  <1>3. HistoryOK /\ Onward /\ page \in Views /\ page' = page /\ shown' = shown
    BY <1>1 DEF PagesInv, HistoryOK, chain, Onward
  <1>4. shown' # None => ShownOK'
    BY <1>1, <1>3, ShownKept DEF PagesInv
  <1>5. AbsenceTold' /\ LoadIsLive'
    BY <1>1 DEF AbsenceTold, LoadIsLive
  <1> QED BY <1>1, <1>2, <1>4, <1>5, SamePageKeeps DEF PagesInv

\* An account's names, its record counts and its primary name are filed under it.
LEMMA MineReadsKeeps ==
    ASSUME PagesInv, NEW i \in DOMAIN loads, mine_reads(i)
    PROVE  PagesInv'
  <1>1. page = "mine" /\ loads[i] \in MineLoad /\ now \in Moments
    BY LoadAt DEF mine_reads
  <1>2. PICK a \in DOMAIN loads[i].lookups, s \in Lookup :
          reads(i, [loads[i] EXCEPT !.lookups[a] = s])
    <2>1. PICK a \in DOMAIN loads[i].lookups, v \in {now, Failed} :
            LET r == loads[i].lookups[a]
                put(s) == reads(i, [loads[i] EXCEPT !.lookups[a] = s])
            IN  \/ r = Waiting /\ put(loadForAccount(a, v))
                \/ r \notin {Waiting, Failed} /\ put([r EXCEPT !.counted = (v # Failed)])
                \/ r \notin {Waiting, Failed} /\ put([r EXCEPT !.primary = (v # Failed)])
      BY DEF mine_reads
    <2>2. PICK r : r = loads[i].lookups[a]
      OBVIOUS
    <2>3. r \in Lookup
      BY <1>1, <2>2 DEF MineLoad
    <2>4. loadForAccount(a, v) \in Lookup
      BY <1>1 DEF loadForAccount, Lookup
    <2>5. r \notin {Waiting, Failed} =>
            /\ [r EXCEPT !.counted = (v # Failed)] \in Lookup
            /\ [r EXCEPT !.primary = (v # Failed)] \in Lookup
      BY <2>3 DEF Lookup
    <2> QED BY <2>1, <2>2, <2>4, <2>5
  <1>3. PICK f : f = loads[i].lookups
    OBVIOUS
  <1>4. PICK D \in SUBSET Accounts : f \in [D -> Lookup]
    BY <1>1, <1>3 DEF MineLoad
  <1>5. [f EXCEPT ![a] = s] \in [D -> Lookup]
    BY <1>2, <1>3, <1>4
  <1>6. PICK l : l = [loads[i] EXCEPT !.lookups[a] = s]
    OBVIOUS
  <1>7. l = [loads[i] EXCEPT !.lookups = [f EXCEPT ![a] = s]]
    BY <1>1, <1>3, <1>6 DEF MineLoad
  <1>8. l \in MineLoad
    <2>1. [f EXCEPT ![a] = s] \in UNION {[E -> Lookup] : E \in SUBSET Accounts}
      BY <1>4, <1>5
    <2>2. DOMAIN [f EXCEPT ![a] = s] = DOMAIN f
      OBVIOUS
    <2>3. /\ l \in [account : Accounts \cup {Waiting},
                    lookups : UNION {[E -> Lookup] : E \in SUBSET Accounts}]
          /\ l.account = loads[i].account /\ l.lookups = [f EXCEPT ![a] = s]
      BY <1>1, <1>7, <2>1 DEF MineLoad
    <2> QED BY <1>1, <1>3, <2>2, <2>3 DEF MineLoad
  <1>9. l \in PageLoad
    BY <1>1, <1>8 DEF PageLoad
  <1> QED BY <1>1, <1>2, <1>6, <1>9, ListReadKeeps DEF mine_reads

LEMMA MineSettlesKeeps ==
    ASSUME PagesInv, NEW i \in DOMAIN loads, mine_settles(i)
    PROVE  PagesInv'
  <1>1. /\ UNCHANGED <<chain, page, opened, wallet, reported, known, currency, accountCache>>
        /\ loads' \in Seq(PageLoad) /\ page = "mine"
    BY LoadAt DEF mine_settles, browser
  <1>2. MineLoad' = MineLoad
    BY <1>1 DEF MineLoad, Lookup, Moments, chain
  <1>3. shown' \in MineLoad /\ mine_settled(shown')
    BY <1>1, LoadAt DEF mine_settles
  <1>4. ShownOK' /\ AbsenceTold' /\ LoadIsLive'
    BY <1>1, <1>2, <1>3 DEF ShownOK, AbsenceTold, LoadIsLive
  <1> QED BY <1>1, <1>4, SamePageKeeps DEF PagesInv

\* A balance is read as of now, or as of the moment the transport remembers.
LEMMA BalanceReadKeeps ==
    ASSUME PagesInv, NEW i \in DOMAIN loads, balance_read(i)
    PROVE  PagesInv'
  <1> DEFINE key == <<loads[i].account, loads[i].currency>>
  <1>1. /\ page = "name" /\ loads[i] \in BalanceLoad /\ accountCache \in Caches
        /\ UNCHANGED <<wallet, reported, known>>
    BY LoadAt DEF balance_read, PagesInv
  <1>2. key \in Accounts \X Currencies
    BY <1>1 DEF BalanceLoad
  <1>3. now \in BalanceMoments /\ accountCache[key] \in BalanceMoments \cup {None}
    <2>1. now \in BalanceMoments
      BY DEF PagesInv, HistoryOK, BalanceMoments
    <2> HIDE DEF key
    <2> QED BY <1>1, <1>2, <2>1 DEF Caches
  <1>4. PICK k \in {now, accountCache[key]} \ {None} : \E v \in {k, Failed} :
          /\ reads(i, [loads[i] EXCEPT !.read = v])
          /\ accountCache' = IF v = Failed THEN accountCache
                             ELSE [accountCache EXCEPT ![key] = v]
    BY DEF balance_read
  <1>5. k \in BalanceMoments
    BY <1>3, <1>4
  <1>6. PICK v \in {k, Failed} :
          /\ reads(i, [loads[i] EXCEPT !.read = v])
          /\ accountCache' = IF v = Failed THEN accountCache
                             ELSE [accountCache EXCEPT ![key] = v]
    BY <1>4
  <1> HIDE DEF key
  <1>7. accountCache' \in Caches
    <2>1. CASE v = Failed
      BY <1>1, <1>6, <2>1
    <2>2. CASE v # Failed
      BY <1>1, <1>2, <1>5, <1>6, <2>2 DEF Caches
    <2> QED BY <2>1, <2>2
  <1>8. PICK l : l = [loads[i] EXCEPT !.read = v]
    OBVIOUS
  <1>9. l \in BalanceLoad /\ l.live = loads[i].live
    BY <1>1, <1>5, <1>6, <1>8 DEF BalanceLoad
  <1>10. l \in PageLoad
    BY <1>1, <1>9 DEF PageLoad
  <1> QED BY <1>1, <1>6, <1>7, <1>8, <1>9, <1>10, ReadKeeps

\* A balance is delivered for the account and the currency of now, or not at
\* all; and then the one the form waits for is still to come.
LEMMA BalanceSettlesKeeps ==
    ASSUME PagesInv, NEW i \in DOMAIN loads, balance_settles(i)
    PROVE  PagesInv'
  <1>1. /\ UNCHANGED <<chain, page, opened, wallet, reported, known, currency, accountCache>>
        /\ loads' \in Seq(PageLoad) /\ page = "name" /\ loads[i] \in BalanceLoad
    BY LoadAt DEF balance_settles, browser
  <1>2. CASE loads[i].live
    <2>1. /\ loading' = FALSE
          /\ \/ shown' = None
             \/ /\ loads[i].read \in BalanceMoments
                /\ shown' = [spendable |-> spendableFrom(loads[i].account, loads[i].currency, loads[i].read)]
      BY <1>1, <1>2 DEF balance_settles, delivered, BalanceLoad
    <2>2. shown' # None => ShownOK'
      <3> SUFFICES ASSUME shown' # None PROVE ShownOK'
        OBVIOUS
      <3>1. reported' # None /\ loads[i].account = reported' /\ loads[i].currency = currency'
        BY <1>1, <1>2 DEF BalanceLoad
      <3>2. PICK k \in BalanceMoments :
              shown' = [spendable |-> spendableFrom(loads[i].account, loads[i].currency, k)]
        BY <2>1
      <3>3. k \in BalanceMoments' /\ funds' = funds
        BY <1>1, <3>2 DEF BalanceMoments, chain
      <3>4. shown' = [spendable |-> spendableFrom(reported, currency, k)']
        BY <3>1, <3>2, <3>3 DEF spendableFrom
      <3> QED BY <1>1, <3>1, <3>3, <3>4 DEF ShownOK
    <2>3. AbsenceTold' /\ LoadIsLive'
      BY <1>1, <2>1 DEF AbsenceTold, LoadIsLive
    <2> QED BY <1>1, <2>2, <2>3, SamePageKeeps DEF PagesInv
  <1>3. CASE ~loads[i].live
    <2>1. UNCHANGED <<shown, loading>> /\ loads' = RemoveAt(loads, i)
      BY <1>3 DEF balance_settles, delivered
    <2>2. shown' # None => ShownOK'
      <3>1. HistoryOK /\ Onward /\ page \in Views /\ page' = page
        BY <1>1 DEF PagesInv, HistoryOK, chain, Onward
      <3> QED BY <1>1, <2>1, <3>1, ShownKept DEF PagesInv
    <2>3. LoadIsLive'
      <3> SUFFICES ASSUME reported # None, loading PROVE \E m \in DOMAIN loads' : loads'[m].live
        BY <1>1, <2>1 DEF LoadIsLive
      <3>1. PICK j \in DOMAIN loads : loads[j].live
        BY <1>1 DEF PagesInv, LoadIsLive
      <3>2. \E m \in DOMAIN loads' : loads'[m] = loads[j]
        BY <1>3, <2>1, <3>1, SeqKeeps DEF PagesInv
      <3> QED BY <3>1, <3>2
    <2>4. AbsenceTold'
      BY <1>1 DEF AbsenceTold
    <2> QED BY <1>1, <2>2, <2>3, <2>4, SamePageKeeps DEF PagesInv
  <1> QED BY <1>2, <1>3

\* balance_effect cancels what was asked for another account or currency.
LEMMA EffectKeeps ==
    ASSUME PagesInv, page = "name", UNCHANGED <<chain, page, opened>>,
           reported' \in Accounts \cup {None}, currency' \in Currencies,
           wallet' \in Accounts \cup {None}, known' \subseteq Accounts,
           accountCache' = accountCache, balance_effect(reported', currency')
    PROVE  PagesInv'
  <1> DEFINE old == [i \in DOMAIN loads |-> [loads[i] EXCEPT !.live = FALSE]]
  <1>0. BalanceMoments' = BalanceMoments
    BY DEF BalanceMoments, chain
  <1>1. ASSUME NEW i \in DOMAIN loads PROVE [loads[i] EXCEPT !.live = FALSE] \in BalanceLoad'
    BY <1>0, LoadAt DEF BalanceLoad
  <1>2. old \in Seq(BalanceLoad')
    <2>1. DOMAIN loads = 1 .. Len(loads) /\ Len(loads) \in Nat
      BY DEF PagesInv
    <2> QED BY <1>1, <2>1
  <1> HIDE DEF old
  <1>3. reported' # None => balance_load(reported', currency') \in BalanceLoad'
    BY DEF balance_load, BalanceLoad
  <1>4. loads' \in Seq(BalanceLoad')
    <2>1. \/ loads' = old
          \/ reported' # None /\ loads' = Append(old, balance_load(reported', currency'))
      BY DEF balance_effect, old
    <2> QED BY <1>2, <1>3, <2>1
  <1>5. loads' \in Seq(PageLoad')
    BY <1>4 DEF PageLoad
  <1>6. HistoryOK'
    BY DEF PagesInv, HistoryOK, chain
  <1>7. shown' # None => ShownOK'
    BY DEF ShownOK, balance_effect
  <1>8. LoadIsLive'
    <2> SUFFICES ASSUME reported' # None PROVE \E i \in DOMAIN loads' : loads'[i].live
      BY DEF LoadIsLive
    <2>1. loads' = Append(old, balance_load(reported', currency'))
      BY DEF balance_effect, old
    <2>2. Len(old) + 1 \in DOMAIN loads' /\ loads'[Len(old) + 1] = balance_load(reported', currency')
      BY <1>2, <2>1
    <2> QED BY <2>2 DEF balance_load
  <1>9. accountCache' \in Caches'
    BY <1>0 DEF PagesInv, Caches
  <1> QED BY <1>5, <1>6, <1>7, <1>8, <1>9 DEF PagesInv, AbsenceTold

LEMMA CurrencyKeeps == PagesInv /\ currency_changes => PagesInv'
  <1> SUFFICES ASSUME PagesInv, currency_changes PROVE PagesInv'
    OBVIOUS
  <1>1. balance_effect(reported', currency')
    BY DEF currency_changes, browser
  <1> QED BY <1>1, EffectKeeps DEF PagesInv, currency_changes, browser

LEMMA RefreshesKeeps == PagesInv /\ balance_refreshes => PagesInv'
  <1> SUFFICES ASSUME PagesInv, balance_refreshes PROVE PagesInv'
    OBVIOUS
  <1>1. balance_effect(reported', currency')
    BY DEF balance_refreshes, browser
  <1> QED BY <1>1, EffectKeeps DEF PagesInv, balance_refreshes, browser

LEMMA LearnsKeeps == PagesInv /\ page_learns => PagesInv'
  <1> SUFFICES ASSUME PagesInv, page_learns PROVE PagesInv'
    OBVIOUS
  <1>1. /\ UNCHANGED <<chain, page, opened, error, wallet, currency, accountCache>>
        /\ reported' \in Accounts \cup {None} /\ known' \subseteq Accounts
    BY DEF PagesInv, page_learns
  <1>2. CASE page = "name"
    <2>1. balance_effect(reported', currency')
      BY <1>2 DEF page_learns
    <2> QED BY <1>1, <1>2, <2>1, EffectKeeps DEF PagesInv
  <1>3. CASE page # "name"
    BY <1>1, <1>3, QuietKeeps DEF PagesInv, page_learns
  <1> QED BY <1>2, <1>3

\* The pages as they are opened.
LEMMA PagesStart == Init => PagesInv
  <1> SUFFICES ASSUME Init PROVE PagesInv
    OBVIOUS
  <1>0. PICK h \in Histories :
          /\ hist = h.rows /\ funds = h.funds /\ now = h.start /\ opened = h.start
          /\ page \in h.views
          /\ since \in IF page = "mine" THEN {h.start} ELSE Max({0, h.start - MaxLag}) .. h.start
    BY Zenon DEF Init
  <1>1. HistoryOK
    <2>1. h.start \in Nat /\ h.start <= Len(h.rows) /\ MaxLag \in Nat
      BY PageAssumption
    <2>2. Max({0, h.start - MaxLag}) \in Nat
      <3> DEFINE d == h.start - MaxLag
      <3>1. d \in Int
        BY <2>1
      <3> HIDE DEF d
      <3>2. Max({0, d}) = IF 0 <= d THEN d ELSE 0
        BY <3>1, PairMinMax
      <3>3. Max({0, d}) \in Nat
        BY <3>1, <3>2
      <3> QED BY <3>3 DEF d
    <2>3. since \in Nat /\ since <= h.start
      BY <1>0, <2>1, <2>2
    <2>4. ingested = since
      BY DEF Init
    <2>5. hist \in Seq(Range(hist)) /\ Accepted(hist)
          /\ funds \in [0 .. Len(hist) -> [Accounts -> [Currencies -> Nat]]]
      BY <1>0, PageAssumption
    <2> QED BY <1>0, <2>1, <2>3, <2>4, <2>5 DEF HistoryOK
  <1>2. wallet \in Accounts \cup {None} /\ reported \in Accounts \cup {None} /\ known \subseteq Accounts
    BY PageAssumption DEF Init
  <1>3. <<>> \in Feeds
    BY DEF Feeds, FeedPages
  <1> DEFINE none == <<>>
             search == <<search_load(TRUE)>>
             explore == <<explore_load>>
             balance == <<balance_load(reported, "Arch")>>
  <1>4. /\ loads = CASE page = "search" -> search
                     [] page = "explore" -> explore
                     [] page = "name" /\ reported # None -> balance
                     [] OTHER -> none
        /\ loading = (loads # none)
    BY Zenon DEF Init
  <1>4a. page \in Views
    BY <1>0, PageAssumption
  <1>5. ASSUME NEW X, NEW x \in X PROVE <<x>> \in Seq(X) /\ <<x>> # <<>>
    OBVIOUS
  <1>6. none \in Seq(PageLoad)
    OBVIOUS
  <1>7. page = "search" => search \in Seq(PageLoad) /\ search # none
    <2>1. search_load(TRUE) \in SearchLoad
      BY <1>3 DEF search_load, SearchLoad, Reads
    <2>2. page = "search" => PageLoad = SearchLoad
      BY DEF PageLoad
    <2> QED BY <1>5, <2>1, <2>2
  <1>8. page = "explore" => explore \in Seq(PageLoad) /\ explore # none
    <2>1. explore_load \in ExploreLoad
      BY <1>3 DEF explore_load, ExploreLoad, Reads
    <2>2. page = "explore" => PageLoad = ExploreLoad
      BY DEF PageLoad
    <2> QED BY <1>5, <2>1, <2>2
  <1>9. page = "name" /\ reported # None => balance \in Seq(PageLoad)
    <2>1. reported # None => balance_load(reported, "Arch") \in BalanceLoad
      BY <1>2 DEF Init, balance_load, BalanceLoad, Currencies
    <2>2. page = "name" => PageLoad = BalanceLoad
      BY DEF PageLoad
    <2> QED BY <1>5, <2>1, <2>2
  <1> HIDE DEF none, search, explore, balance
  <1>a. loads = CASE page = "search" -> search
                  [] page = "explore" -> explore
                  [] page = "name" /\ reported # None -> balance
                  [] OTHER -> none
    BY <1>4
  <1>b. page \in {"search", "explore", "mine", "name"}
    BY <1>4a DEF Views
  <1>c. /\ page = "search" => loads = search
        /\ page = "explore" => loads = explore
        /\ page = "mine" \/ (page = "name" /\ reported = None) => loads = none
        /\ page = "name" /\ reported # None => loads = balance
    BY <1>a
  <1>10. loads \in Seq(PageLoad) /\ (page \in {"search", "explore"} => loads # none)
    BY <1>b, <1>c, <1>6, <1>7, <1>8, <1>9
  <1>11. AbsenceTold
    BY <1>4, <1>10 DEF AbsenceTold
  <1>12. LoadIsLive
    <2>1. page = "name" /\ reported # None => 1 \in DOMAIN loads /\ loads[1].live
      BY <1>c DEF balance, balance_load
    <2> QED BY <2>1 DEF LoadIsLive
  <1>13. accountCache \in Caches
    <2>1. since \in BalanceMoments
      BY <1>1 DEF HistoryOK, BalanceMoments
    <2>2. PICK k \in {None, since} : accountCache = [x \in Accounts \X Currencies |-> k]
      BY DEF Init
    <2> QED BY <2>1, <2>2 DEF Caches
  <1>14. currency \in Currencies /\ shown = None
    BY DEF Init, Currencies
  <1> QED BY <1>1, <1>2, <1>4a, <1>10, <1>11, <1>12, <1>13, <1>14 DEF PagesInv

LEMMA PagesStep == PagesInv /\ [Next]_vars => PagesInv'
  <1> SUFFICES ASSUME PagesInv, [Next]_vars PROVE PagesInv'
    OBVIOUS
  <1>1. CASE visibility_changes
    BY <1>1, QuietKeeps DEF PagesInv, visibility_changes, browser
  <1>2. CASE refresh_timer
    <2>1. search_load(FALSE) \in PageLoad
      BY <1>2 DEF search_load, SearchLoad, Reads, Feeds, FeedPages, PageLoad, refresh_timer
    <2>2. loads' \in Seq(PageLoad)
      <3>1. loads \in Seq(PageLoad) /\ loads' = Append(loads, search_load(FALSE))
        BY <1>2 DEF PagesInv, refresh_timer
      <3>2. ASSUME NEW X, NEW s \in Seq(X), NEW x \in X PROVE Append(s, x) \in Seq(X)
        OBVIOUS
      <3> QED BY <2>1, <3>1, <3>2
    <2> QED BY <1>2, <2>2, QuietKeeps DEF PagesInv, refresh_timer, browser
  <1>3. CASE wallet_switches
    BY <1>3, QuietKeeps DEF PagesInv, wallet_switches
  <1>4. CASE UNCHANGED vars
    BY <1>4, QuietKeeps DEF PagesInv, vars, browser
  <1>5. ASSUME NEW i \in DOMAIN loads, load_step(i) PROVE PagesInv'
    BY <1>5, NamesReadKeeps, ListingsReadKeeps, FeedReadKeeps, ListSettlesKeeps,
       MineRefreshKeeps, MineReadsKeeps, MineSettlesKeeps, BalanceReadKeeps,
       BalanceSettlesKeeps DEF load_step
  <1> QED BY <1>1, <1>2, <1>3, <1>4, <1>5, LandsKeeps, IngestsKeeps, LoadMineKeeps,
             CurrencyKeeps, RefreshesKeeps, LearnsKeeps DEF Next

\* Every account read in a load and on screen is of a moment since the page was
\* opened, the feed's pages are of moments its lagging indexer went through
\* since, read in turn, and a balance that can still be delivered is that of
\* the account and the currency of now, one of which is under way as long as
\* the form says so (the load effects of SearchView, ExploreView, MyNamesView
\* and ViewNameView).
THEOREM PagesInvariant == Spec => []PagesInv
  BY PagesStart, PagesStep, PTL DEF Spec

-----------------------------------------------------------------------------
(* The balance under an offer                                              *)

\* formatQuoteBaseUnits writes an amount that parseQuoteAmount reads back.
LEMMA FormatParses ==
    ASSUME NEW x \in Nat, NEW c \in Currencies
    PROVE  parseQuoteAmount(formatQuoteBaseUnits(x, c), c) = x
  <1> DEFINE D == QuoteDecimals[c]
             ds == {d \in 0 .. D : x % pow10[D - d] = 0}
             m == Min(ds)
             p == pow10[D - m]
  <1>1. D \in Nat
    BY PageAssumption
  <1> HIDE DEF D
  <1>2. D \in ds
    <2>1. D - D = 0 /\ D \in 0 .. D
      BY <1>1
    <2>2. x % pow10[D - D] = 0
      BY <2>1, PowerOfTen
    <2> QED BY <2>1, <2>2
  <1>3. ds \subseteq Nat
    BY <1>1
  <1>4. m \in ds
    <2> HIDE DEF ds
    <2> QED BY <1>2, <1>3, MinOf
  <1> HIDE DEF m
  <1>5. m \in Nat /\ m <= D /\ D - m \in Nat /\ x % p = 0
    BY <1>1, <1>4
  <1>6. p \in Nat /\ p # 0
    BY <1>5, PowerOfTen
  <1> HIDE DEF p
  <1>7. (x \div p) * p = x
    <2>1. p > 0 /\ x \in Int
      BY <1>6
    <2>2. x = (p * (x \div p)) + (x % p) /\ x \div p \in Int
      BY <2>1, <1>6
    <2> QED BY <1>5, <1>6, <2>2
  <1>8. formatQuoteBaseUnits(x, c) = [n |-> x \div p, digits |-> m]
    BY DEF formatQuoteBaseUnits, p, m, D
  <1>9. ~(m > D)
    BY <1>1, <1>5
  <1> QED BY <1>7, <1>8, <1>9 DEF parseQuoteAmount, p, D

LEMMA OfferStands == PagesInv => OfferAffordable
  <1> SUFFICES ASSUME PagesInv, page = "name", reported # None
               PROVE  \/ shown # None /\ BalanceHeld
                      \/ shown = None /\ ~loading
                      \/ /\ loading
                         /\ \E i \in DOMAIN loads :
                              /\ loads[i].live /\ loads[i].account = reported
                              /\ loads[i].currency = currency
    BY DEF OfferAffordable
  <1>1. CASE loading
    <2>1. PICK i \in DOMAIN loads : loads[i].live
      BY <1>1 DEF PagesInv, LoadIsLive
    <2>2. loads[i].account = reported /\ loads[i].currency = currency
      BY <2>1, LoadAt DEF BalanceLoad
    <2> QED BY <1>1, <2>1, <2>2
  <1>2. CASE ~loading /\ shown # None
    <2>1. PICK k \in BalanceMoments : shown = [spendable |-> spendableFrom(reported, currency, k)]
      BY <1>2 DEF PagesInv, ShownOK
    <2> DEFINE held == spendableFrom(reported, currency, k)
    <2>2. held \in Nat
      <3>1. reported \in Accounts /\ currency \in Currencies /\ k \in 0 .. Len(hist)
        BY DEF PagesInv, HistoryOK, BalanceMoments
      <3>2. funds[k][reported][currency] \in Nat /\ Reserve \in Nat
        BY <3>1, PageAssumption DEF PagesInv, HistoryOK
      <3> QED BY <3>2 DEF spendableFrom
    <2> HIDE DEF held
    <2>3. shown.spendable = held
      BY <2>1 DEF held
    <2>4. \A v \in Amounts : offerAmountValid(v) => parseQuoteAmount(v, currency) <= held
      BY <1>2, <2>3 DEF offerAmountValid
    <2>5. ASSUME held > 0
          PROVE  offerAmountValid(formatQuoteBaseUnits(shown.spendable, currency))
      <3>1. parseQuoteAmount(formatQuoteBaseUnits(held, currency), currency) = held
        BY <2>2, FormatParses DEF PagesInv
      <3>2. held # None /\ held <= held
        BY <2>2, NoneAssumption
      <3> QED BY <2>3, <2>5, <3>1, <3>2 DEF offerAmountValid
    <2>6. BalanceHeld
      <3>1. k \in since .. now
        BY DEF BalanceMoments
      <3> QED BY <2>4, <2>5, <3>1 DEF BalanceHeld, held
    <2> QED BY <1>2, <2>6
  <1> QED BY <1>1, <1>2

\* The balance the offer form compares with was held by the account connected
\* now, in the currency chosen now, at a moment since the tab may have cached
\* it, and MAX fills in an amount the form accepts; or there is none on screen;
\* or the form says that it loads and a read of that very balance is under way
\* (ViewNameView's balance effect), whatever the decimals.
THEOREM OffersAreAffordable == Spec => []OfferAffordable
  BY PagesInvariant, OfferStands, PTL

-----------------------------------------------------------------------------
(* The registry's history                                                  *)

\* What Accepted says of a row.
LEMMA RowAccepted ==
    ASSUME HistoryOK, NEW i \in 1 .. Len(hist)
    PROVE  /\ hist[i].kind \in Kinds /\ hist[i].name \in Names /\ hist[i].by \in Accounts
           /\ hist[i].ok \in BOOLEAN /\ hist[i].dated \in BOOLEAN
           /\ hist[i].kind = "ListName" => hist[i].quote \in Quotes
           /\ hist[i].ok => \E j \in 1 .. i : Registers(hist, j, hist[i].name)
  BY DEF HistoryOK, Accepted

\* A name has one registration.
LEMMA RegisteredOnce ==
    ASSUME HistoryOK, NEW i \in 1 .. Len(hist), NEW j \in 1 .. Len(hist), NEW n,
           Registers(hist, i, n), Registers(hist, j, n)
    PROVE  i = j
  BY DEF HistoryOK, Accepted, Registers

LEMMA DoneRows ==
    ASSUME HistoryOK, NEW n, NEW kinds, NEW k \in 0 .. now, Done(n, kinds, k) # {}
    PROVE  /\ Max(Done(n, kinds, k)) \in Done(n, kinds, k)
           /\ \A i \in Done(n, kinds, k) : i <= Max(Done(n, kinds, k))
           /\ Done(n, kinds, k) \subseteq 1 .. k
           /\ Done(n, kinds, k) \subseteq 1 .. Len(hist)
           /\ k \in Nat
  <1>1. k \in Nat /\ k <= now /\ now \in Nat /\ now <= Len(hist) /\ Len(hist) \in Nat
    BY DEF HistoryOK
  <1>2. Done(n, kinds, k) \subseteq 1 .. k
    BY DEF Done
  <1>3. 1 .. k \subseteq 0 .. k /\ 1 .. k \subseteq 1 .. Len(hist)
    BY <1>1
  <1>4. Done(n, kinds, k) \subseteq 0 .. k
    BY <1>2, <1>3
  <1> DEFINE S == Done(n, kinds, k)
  <1> HIDE DEF S
  <1>5. Max(S) \in S /\ \A i \in S : i <= Max(S)
    BY <1>1, <1>4, MaxOf DEF S
  <1> QED BY <1>1, <1>2, <1>3, <1>5 DEF S

LEMMA OwnerAccount ==
    ASSUME HistoryOK, NEW n, NEW k \in 0 .. now, Owner(n, k) # None
    PROVE  Owner(n, k) \in Accounts /\ Done(n, {"Register", "BuyName"}, k) # {}
  <1> DEFINE S == Done(n, {"Register", "BuyName"}, k)
  <1>1. S # {} /\ Owner(n, k) = hist[Max(S)].by
    BY DEF Owner
  <1>2. Max(S) \in 1 .. Len(hist)
    BY <1>1, DoneRows
  <1> HIDE DEF S
  <1>3. hist[Max(S)].by \in Accounts
    BY <1>2, RowAccepted
  <1> QED BY <1>1, <1>3 DEF S

\* A name in the registry was registered, once, at TrueTime.
LEMMA TrueTimeIs ==
    ASSUME HistoryOK, NEW n, NEW i \in 1 .. now, Registers(hist, i, n)
    PROVE  TrueTime(n, now) = i
  <1> DEFINE S == Done(n, {"Register"}, now)
  <1>1. now \in Nat /\ now <= Len(hist) /\ now \in 0 .. now /\ Len(hist) \in Nat
    BY DEF HistoryOK
  <1>2. i \in S
    BY DEF Done, Registers
  <1>3. Max(S) \in S /\ S \subseteq 1 .. now
    BY <1>1, <1>2, DoneRows
  <1>4. Max(S) \in 1 .. Len(hist) /\ i \in 1 .. Len(hist)
    BY <1>1, <1>3
  <1>5. Registers(hist, Max(S), n)
    BY <1>3 DEF Done, Registers
  <1> HIDE DEF S
  <1>6. Max(S) = i
    BY <1>4, <1>5, RegisteredOnce
  <1> QED BY <1>6 DEF TrueTime, S

LEMMA NamesRegistered ==
    ASSUME HistoryOK, NEW k \in 0 .. now, NEW n \in listNameAccounts(k)
    PROVE  /\ n \in Names /\ Owner(n, k) \in Accounts
           /\ TrueTime(n, now) \in 1 .. k /\ Registers(hist, TrueTime(n, now), n)
  <1>1. n \in Names /\ Owner(n, k) # None
    BY DEF listNameAccounts
  <1>2. PICK i \in Done(n, {"Register", "BuyName"}, k) : TRUE
    BY <1>1, OwnerAccount
  <1>3. i \in 1 .. k /\ i \in 1 .. Len(hist) /\ k \in Nat /\ k <= now /\ now \in Nat
        /\ hist[i].ok /\ hist[i].name = n
    BY <1>2, DoneRows DEF Done, HistoryOK
  <1>4. PICK j \in 1 .. i : Registers(hist, j, n)
    BY <1>3, RowAccepted
  <1>5. j \in 1 .. now /\ j \in 1 .. k
    BY <1>3
  <1>6. TrueTime(n, now) = j
    BY <1>4, <1>5, TrueTimeIs
  <1> QED BY <1>1, <1>4, <1>5, <1>6, OwnerAccount

\* The registry holds finitely many names.
LEMMA NamesFinite ==
    ASSUME HistoryOK, NEW k \in 0 .. now
    PROVE  IsFiniteSet(listNameAccounts(k))
  <1> DEFINE S == listNameAccounts(k)
             T == {TrueTime(n, now) : n \in S}
             f == [t \in T |-> hist[t].name]
  <1>1. k \in Nat /\ \A n \in S : TrueTime(n, now) \in 1 .. k /\ hist[TrueTime(n, now)].name = n
    BY NamesRegistered DEF Registers, HistoryOK
  <1>2. IsFiniteSet(1 .. k)
    BY <1>1, FS_Interval
  <1>3. T \in SUBSET (1 .. k)
    BY <1>1
  <1>4. IsFiniteSet(T)
    <2> DEFINE N == 1 .. k
    <2>1. IsFiniteSet(N) /\ T \in SUBSET N
      BY <1>2, <1>3
    <2> HIDE DEF N, T
    <2> QED BY <2>1, FS_Subset
  <1>5. f \in Surjection(T, S)
    <2>1. \A t \in T : hist[t].name \in S
      BY <1>1
    <2>2. \A n \in S : TrueTime(n, now) \in T /\ f[TrueTime(n, now)] = n
      BY <1>1
    <2> HIDE DEF S, T
    <2>3. f \in [T -> S]
      BY <2>1
    <2> HIDE DEF f
    <2> QED BY <2>2, <2>3 DEF Surjection
  <1> HIDE DEF S, T, f
  <1>6. IsFiniteSet(S)
    BY <1>4, <1>5, FS_Surjection
  <1> QED BY <1>6 DEF S

\* What a listing that is found says.
LEMMA ListingFound ==
    ASSUME HistoryOK, NEW n, NEW k \in 0 .. now, Listing(n, k) # None
    PROVE  /\ Listing(n, k).quote \in Quotes
           /\ Listing(n, k) = [quote |-> Listing(n, k).quote, active |-> Listing(n, k).active]
  <1> DEFINE S == Done(n, {"ListName"}, k)
  <1>1. S # {} /\ Listing(n, k) = [quote |-> hist[Max(S)].quote,
              active |-> Done(n, {"CancelListing", "BuyName"}, k) \cap Max(S) .. k = {}]
    BY DEF Listing
  <1>2. Max(S) \in S /\ Max(S) \in 1 .. Len(hist)
    BY <1>1, DoneRows
  <1>3. hist[Max(S)].kind = "ListName"
    BY <1>2 DEF Done
  <1> HIDE DEF S
  <1>4. hist[Max(S)].quote \in Quotes
    BY <1>2, <1>3, RowAccepted
  <1> QED BY <1>1, <1>4

-----------------------------------------------------------------------------
(* The Explorer's feed                                                     *)

\* Of some places there is a first.
LEMMA FirstOf ==
    ASSUME NEW S, S \subseteq Nat \X Nat, S # {}
    PROVE  /\ First(S) \in S
           /\ \A t \in S : First(S)[1] < t[1] \/ (First(S)[1] = t[1] /\ First(S)[2] <= t[2])
  <1> DEFINE P == {s[1] : s \in S}
  <1>0. \A s \in S : s[1] \in Nat /\ s[2] \in Nat
    OBVIOUS
  <1>1. P \subseteq Nat /\ P # {}
    BY <1>0
  <1>2. PICK p \in P : \A q \in P : p <= q
    <2> HIDE DEF P
    <2> QED BY <1>1, LeastNatural
  <1> DEFINE L == {s[2] : s \in {r \in S : r[1] = p}}
  <1>3. L \subseteq Nat /\ L # {}
    BY <1>0, <1>2
  <1>4. PICK m \in L : \A q \in L : m <= q
    <2> HIDE DEF L
    <2> QED BY <1>3, LeastNatural
  <1>5. PICK s \in S : s[1] = p /\ s[2] = m
    BY <1>4
  <1>6. ASSUME NEW t \in S PROVE s[1] < t[1] \/ (s[1] = t[1] /\ s[2] <= t[2])
    <2>1. t[1] \in P /\ (t[1] = p => t[2] \in L)
      OBVIOUS
    <2>2. p <= t[1] /\ p \in Nat /\ t[1] \in Nat /\ (t[1] = p => m <= t[2])
      BY <1>0, <1>1, <1>2, <1>4, <2>1
    <2> QED BY <1>5, <2>2
  <1> QED BY <1>6 DEF First

\* A sighting is of a row that has happened, on a page that was read.
LEMMA Sighted ==
    ASSUME HistoryOK, NEW feed \in FeedPages, NEW kind, NEW n, feed # Failed,
           NEW s \in Sightings(feed, kind, n)
    PROVE  /\ s \in Nat \X Nat /\ s[1] \in 1 .. Len(feed)
           /\ feed[s[1]] \in Nat /\ s[1] \in Nat \ {0}
           /\ s[2] \in 1 .. Len(fetchTransactionRows(feed[s[1]], s[1]))
           /\ Row(feed, s) \in 1 .. feed[s[1]] /\ Row(feed, s) \in 1 .. ingested
           /\ Row(feed, s) \in 1 .. now
           /\ Row(feed, s) = feed[s[1]] - Skipped(s[1]) - s[2] + 1
           /\ hist[Row(feed, s)].ok /\ hist[Row(feed, s)].kind = kind
           /\ hist[Row(feed, s)].name = n
  <1>1. /\ s \in (1 .. Len(feed)) \X (1 .. PageSize)
        /\ s[2] <= Len(fetchTransactionRows(feed[s[1]], s[1]))
        /\ hist[Row(feed, s)].ok /\ hist[Row(feed, s)].kind = kind
        /\ hist[Row(feed, s)].name = n
    BY DEF Sightings, isFailedStatus
  <1>2. Len(feed) \in Nat /\ PageSize \in Nat
    BY PageAssumption DEF FeedPages
  <1>3. s[1] \in 1 .. Len(feed) /\ s[2] \in 1 .. PageSize /\ s \in Nat \X Nat
    BY <1>1, <1>2
  <1>4. feed[s[1]] \in FeedMoments \cup {0}
    BY <1>3 DEF FeedPages
  <1>5. /\ feed[s[1]] \in Nat /\ feed[s[1]] <= ingested /\ s[1] \in Nat \ {0}
        /\ ingested \in Nat /\ now \in Nat /\ ingested <= now
    BY <1>3, <1>4 DEF FeedMoments, HistoryOK
  <1> DEFINE k == feed[s[1]]
             p == s[1]
             rows == fetchTransactionRows(k, p)
  <1> HIDE DEF k, p
  <1>6. Len(rows) \in Nat /\ \A i \in 1 .. Len(rows) : rows[i] = k - Skipped(p) - i + 1 /\ rows[i] \in 1 .. k
    <2>1. k \in Nat /\ p \in Nat \ {0}
      BY <1>5 DEF k, p
    <2>2. Len(rows) \in 0 .. PageSize
      BY <2>1, PageRows
    <2>3. \A i \in 1 .. Len(rows) : rows[i] = k - Skipped(p) - i + 1 /\ rows[i] \in 1 .. k
      BY <2>1, PageRows
    <2> QED BY <1>2, <2>2, <2>3
  <1>7. s[2] \in 1 .. Len(rows)
    BY <1>1, <1>3, <1>6 DEF k, p
  <1>8. rows[s[2]] = k - Skipped(p) - s[2] + 1 /\ rows[s[2]] \in 1 .. k
    BY <1>6, <1>7
  <1>9. Row(feed, s) = rows[s[2]]
    BY DEF Row, k, p
  <1>10. Row(feed, s) \in 1 .. ingested /\ Row(feed, s) \in 1 .. now
    BY <1>5, <1>8, <1>9 DEF k
  <1> QED BY <1>1, <1>3, <1>4, <1>5, <1>7, <1>8, <1>9, <1>10 DEF k, p

\* The pages leave no gap: a row the indexer had when the page was opened, that
\* page q would still reach back to, is on page q or on an earlier one.
LEMMA NoGap ==
    ASSUME HistoryOK, NEW feed \in FeedPages, feed # Failed, NEW q \in 1 .. Len(feed),
           feed[q] # 0, NEW u \in 1 .. since, feed[q] - Skipped(q + 1) < u
    PROVE  \E p \in 1 .. q :
             LET l == feed[p] - Skipped(p) - u + 1
             IN  /\ <<p, l>> \in (1 .. Len(feed)) \X (1 .. PageSize)
                 /\ l \in 1 .. Len(fetchTransactionRows(feed[p], p))
                 /\ Row(feed, <<p, l>>) = u
  <1>1. /\ feed \in Seq(FeedMoments \cup {0}) /\ Len(feed) \in Nat /\ since \in Nat
        /\ \A p \in 1 .. Len(feed) : feed[p] \in Nat /\ (feed[p] # 0 => since <= feed[p])
        /\ \A p, r \in 1 .. Len(feed) : p < r => feed[p] # 0 /\ (feed[p] <= feed[r] \/ feed[r] = 0)
    BY DEF HistoryOK, FeedPages, FeedMoments
  <1> DEFINE T == {p \in 1 .. Len(feed) : feed[p] - Skipped(p + 1) < u}
  <1>2. q \in T /\ T \subseteq Nat
    BY <1>1
  <1>3. PICK p \in T : \A r \in T : p <= r
    <2> HIDE DEF T
    <2> QED BY <1>2, LeastNatural
  <1>3a. p \in 1 .. Len(feed) /\ p \in 1 .. q /\ p \in Nat \ {0} /\ feed[p] \in Nat
         /\ feed[p] - Skipped(p + 1) < u
    BY <1>1, <1>2, <1>3
  <1>3b. feed[p] # 0
    <2>1. p = q \/ p < q
      BY <1>3a
    <2> QED BY <2>1, <1>1, <1>3a
  <1>4. p \in 1 .. Len(feed) /\ p \in 1 .. q /\ p \in Nat \ {0} /\ feed[p] \in Nat
        /\ feed[p] - Skipped(p + 1) < u /\ u \in 1 .. feed[p]
    BY <1>1, <1>3a, <1>3b
  <1> DEFINE k == feed[p]
             l == k - Skipped(p) - u + 1
             rows == fetchTransactionRows(k, p)
  <1>k. k \in Nat
    BY <1>4
  <1>5. Skipped(p) \in Nat /\ PageSize \in Nat
    BY <1>4, PageRows
  <1>6. u <= k - Skipped(p)
    <2>1. CASE p = 1
      <3>1. Skipped(p) = 0
        BY <2>1, PageAssumption DEF Skipped
      <3> QED BY <3>1, <1>4
    <2>2. CASE p # 1
      <3>1. p - 1 \in 1 .. Len(feed) /\ p - 1 \notin T /\ (p - 1) + 1 = p
        BY <2>2, <1>1, <1>3, <1>4
      <3>2. ~(feed[p - 1] - Skipped(p) < u)
        BY <3>1
      <3>3. feed[p - 1] \in Nat /\ feed[p - 1] <= feed[p]
        <4>1. p - 1 < p /\ p \in 1 .. Len(feed)
          BY <1>4
        <4> QED BY <3>1, <4>1, <1>1, <1>3b
      <3> QED BY <3>2, <3>3, <1>1, <1>4, <1>5
    <2> QED BY <2>1, <2>2
  <1> HIDE DEF T, k
  <1>7. l \in 1 .. Len(rows)
    <2>1. u \in 1 .. k /\ k - Skipped(p + 1) < u /\ u <= k - Skipped(p)
      BY <1>4, <1>6 DEF k
    <2> QED BY <2>1, <1>k, <1>4, PageRows
  <1>8. Len(rows) \in 0 .. PageSize
    BY <1>k, <1>4, PageRows
  <1>9. rows[l] = k - Skipped(p) - l + 1
    <2> HIDE DEF l
    <2> QED BY <1>7, <1>k, <1>4, PageRows
  <1>10. rows[l] = u
    BY <1>9, <1>k, <1>5
  <1>11. l \in 1 .. PageSize
    BY <1>7, <1>8, <1>5
  <1>12. Row(feed, <<p, l>>) = u
    BY <1>10 DEF Row, k
  <1> HIDE DEF l
  <1> QED BY <1>4, <1>7, <1>11, <1>12 DEF k, l

\* ... and it is sighted there.
LEMMA Covered ==
    ASSUME HistoryOK, NEW feed \in FeedPages, feed # Failed, NEW q \in 1 .. Len(feed),
           feed[q] # 0, NEW u \in 1 .. since, feed[q] - Skipped(q + 1) < u, hist[u].ok
    PROVE  \E s \in Sightings(feed, hist[u].kind, hist[u].name) :
             Row(feed, s) = u /\ s[1] \in 1 .. q /\ s[2] = feed[s[1]] - Skipped(s[1]) - u + 1
  <1>1. PICK p \in 1 .. q :
          LET l == feed[p] - Skipped(p) - u + 1
          IN  /\ <<p, l>> \in (1 .. Len(feed)) \X (1 .. PageSize)
              /\ l \in 1 .. Len(fetchTransactionRows(feed[p], p))
              /\ Row(feed, <<p, l>>) = u
    BY NoGap
  <1> DEFINE l == feed[p] - Skipped(p) - u + 1
             s == <<p, l>>
  <1>2. /\ s \in (1 .. Len(feed)) \X (1 .. PageSize) /\ s[1] = p /\ s[2] = l
        /\ l <= Len(fetchTransactionRows(feed[p], p)) /\ Row(feed, s) = u
    BY <1>1
  <1> HIDE DEF s
  <1>3. s \in Sightings(feed, hist[u].kind, hist[u].name)
    BY <1>2 DEF Sightings, isFailedStatus
  <1> QED BY <1>2, <1>3

\* A date of registration is that of the name's registration.
LEMMA RegistrationDate ==
    ASSUME HistoryOK, NEW feed \in Feeds, NEW n
    PROVE  registeredAt(feed, n) # None =>
             registeredAt(feed, n) \in 1 .. now /\ registeredAt(feed, n) = TrueTime(n, now)
  <1> SUFFICES ASSUME registeredAt(feed, n) # None
               PROVE  registeredAt(feed, n) \in 1 .. now /\ registeredAt(feed, n) = TrueTime(n, now)
    OBVIOUS
  <1> DEFINE S == Sightings(feed, "Register", n)
  <1>1. S # {} /\ registeredAt(feed, n) = Row(feed, First(S))
    BY DEF registeredAt
  <1>2. feed \in FeedPages /\ feed # Failed
    BY <1>1 DEF Sightings, Feeds
  <1>3. S \subseteq Nat \X Nat
    BY <1>2, Sighted
  <1>4. First(S) \in S
    <2> HIDE DEF S
    <2> QED BY <1>1, <1>3, FirstOf
  <1> DEFINE i == Row(feed, First(S))
  <1>5. i \in 1 .. now /\ hist[i].ok /\ hist[i].kind = "Register" /\ hist[i].name = n
    BY <1>2, <1>4, Sighted
  <1> HIDE DEF i
  <1>6. TrueTime(n, now) = i
    BY <1>5, TrueTimeIs DEF Registers
  <1> QED BY <1>1, <1>5, <1>6 DEF i

\* A date of a listing is the newest dated one at a moment the indexer has been
\* at since the opening.
LEMMA ListingDate ==
    ASSUME HistoryOK, NEW feed \in Feeds, NEW n, listedAt(feed, n) # None
    PROVE  /\ listedAt(feed, n) \in 1 .. now
           /\ \E k \in since .. ingested :
                LET S == {i \in Done(n, {"ListName"}, k) : hist[i].dated}
                IN  listedAt(feed, n) \in S /\ listedAt(feed, n) = Max(S)
  <1> DEFINE S == {s \in Sightings(feed, "ListName", n) : hist[Row(feed, s)].dated}
  <1>1. S # {} /\ listedAt(feed, n) = Row(feed, First(S))
    BY DEF listedAt
  <1>2. feed \in FeedPages /\ feed # Failed
    BY <1>1 DEF Sightings, Feeds
  <1>3. S \subseteq Nat \X Nat
    BY <1>2, Sighted
  <1> DEFINE f == First(S)
  <1>4. f \in S /\ \A s \in S : f[1] < s[1] \/ (f[1] = s[1] /\ f[2] <= s[2])
    <2> HIDE DEF S
    <2> QED BY <1>1, <1>3, FirstOf
  <1> HIDE DEF f
  <1> DEFINE t == Row(feed, f)
             q == f[1]
  <1>5. /\ t \in 1 .. now /\ t \in 1 .. ingested /\ t \in 1 .. feed[q]
        /\ hist[t].ok /\ hist[t].kind = "ListName" /\ hist[t].name = n
        /\ q \in 1 .. Len(feed) /\ feed[q] \in Nat /\ q \in Nat \ {0}
        /\ t = feed[q] - Skipped(q) - f[2] + 1 /\ hist[t].dated
        /\ f[2] \in 1 .. Len(fetchTransactionRows(feed[q], q)) /\ f[2] \in Nat
    BY <1>2, <1>4, Sighted
  <1> HIDE DEF t, q
  <1>6. /\ ingested \in Nat /\ since \in Nat /\ since <= ingested /\ feed[q] # 0
        /\ Skipped(q) \in Nat /\ Skipped(q + 1) = Skipped(q) + PageSize /\ PageSize \in Nat
        /\ f[2] <= PageSize
    <2>1. ingested \in Nat /\ since \in Nat /\ since <= ingested
      BY DEF HistoryOK
    <2>k. feed[q] \in Nat /\ q \in Nat \ {0}
      BY <1>5
    <2>2. /\ Skipped(q) \in Nat /\ Skipped(q + 1) = Skipped(q) + PageSize /\ PageSize \in Nat
          /\ Len(fetchTransactionRows(feed[q], q)) \in 0 .. PageSize
      BY <2>k, PageRows
    <2>3. feed[q] # 0
      BY <1>5
    <2> QED BY <2>1, <2>2, <2>3, <1>5
  \* No dated listing the indexer had at the opening is newer.
  <1>7. ASSUME NEW u \in 1 .. since, t < u, hist[u].ok, hist[u].kind = "ListName",
               hist[u].name = n, hist[u].dated
        PROVE  FALSE
    <2>1. feed[q] - Skipped(q + 1) < u
      BY <1>5, <1>6, <1>7
    <2>2. PICK s \in Sightings(feed, "ListName", n) :
            Row(feed, s) = u /\ s[1] \in 1 .. q /\ s[2] = feed[s[1]] - Skipped(s[1]) - u + 1
      BY <1>2, <1>5, <1>6, <1>7, <2>1, Covered
    <2>3. s \in S
      BY <1>7, <2>2
    <2>4. f[1] < s[1] \/ (f[1] = s[1] /\ f[2] <= s[2])
      BY <2>3, <1>4
    <2>5. s[1] = q /\ f[2] <= s[2]
      BY <2>2, <2>4, <1>5 DEF q
    <2>6. s[2] = feed[q] - Skipped(q) - u + 1
      BY <2>2, <2>5
    <2> QED BY <2>5, <2>6, <1>5, <1>6, <1>7
  <1> DEFINE k == IF t <= since THEN since ELSE t
             D == {i \in Done(n, {"ListName"}, k) : hist[i].dated}
  <1>8. k \in since .. ingested /\ t \in 1 .. k /\ k \in Nat
    BY <1>5, <1>6
  <1>9. t \in D
    BY <1>5, <1>8 DEF Done
  <1>10. \A i \in D : i \in 1 .. k /\ hist[i].ok /\ hist[i].kind = "ListName" /\ hist[i].name = n
           /\ hist[i].dated
    BY DEF Done
  <1> HIDE DEF D
  <1>11. ASSUME NEW i \in D PROVE i <= t
    <2>1. CASE t <= since
      <3>1. i \in 1 .. since /\ t \in Nat
        BY <1>5, <1>10, <2>1
      <3> QED BY <3>1, <1>7, <1>10
    <2>2. CASE ~(t <= since)
      BY <1>10, <2>2, <1>5, <1>6
    <2> QED BY <2>1, <2>2
  <1>12. D \subseteq 0 .. k
    BY <1>10, <1>8
  <1> HIDE DEF k
  <1>13. Max(D) \in D /\ t <= Max(D)
    BY <1>8, <1>9, <1>12, MaxOf
  <1>14. Max(D) = t
    <2>1. Max(D) <= t
      BY <1>11, <1>13
    <2>2. t \in Nat
      BY <1>8
    <2>3. Max(D) \in 0 .. k
      BY <1>12, <1>13
    <2>4. Max(D) \in Nat
      BY <2>3, <1>8
    <2> QED BY <2>1, <2>2, <2>4, <1>13
  <1> QED BY <1>1, <1>5, <1>8, <1>9, <1>14 DEF D, t, f

-----------------------------------------------------------------------------
(* What the lists on screen are made of                                    *)

LEMMA ShownList ==
    ASSUME PagesInv, page \in {"search", "explore"}, shown # None
    PROVE  /\ HistoryOK /\ shown.names \in opened .. now /\ shown.names \in 0 .. now
           /\ shown.feed \in Feeds /\ feed_read(shown.feed)
           /\ page = "explore" =>
                /\ shown.listings \in opened .. now /\ shown.listings \in 0 .. now
                /\ shown.labels \in 0 .. now
  <1>1. HistoryOK /\ opened .. now \subseteq 0 .. now
    BY DEF PagesInv, HistoryOK
  <1> QED BY <1>1 DEF PagesInv, ShownOK, Moments

\* A row of the marketplace: one for each name, with a price if it is for sale.
LEMMA EntryRows ==
    ASSUME PagesInv, page = "explore"
    PROVE  /\ entries \subseteq Entry /\ IsFiniteSet(entries)
           /\ \A e, f \in entries : e.name = f.name => e = f
  <1>1. CASE shown = None
    BY <1>1, FS_EmptySet DEF entries
  <1>2. CASE shown # None
    <2> DEFINE N == listNameAccounts(shown.names)
               asks == listActiveListings(shown.listings, shown.labels)
               reg(n) == registeredAt(shown.feed, n)
               lst(n) == IF n \in DOMAIN asks THEN asks[n] ELSE None
               dat(n) == IF n \in DOMAIN asks THEN listedAt(shown.feed, n) ELSE None
               row(n) == [name |-> n, owner |-> Owner(n, shown.names), registeredAt |-> reg(n),
                          listing |-> lst(n), listedAt |-> dat(n)]
               f == [n \in N |-> row(n)]
    <2>1. /\ HistoryOK /\ shown.names \in 0 .. now /\ shown.listings \in 0 .. now
          /\ shown.feed \in Feeds
      BY <1>2, ShownList
    <2>2. entries = {row(n) : n \in N}
      BY <1>2 DEF entries
    <2>3. ASSUME NEW n \in N
          PROVE  /\ n \in Names /\ Owner(n, shown.names) \in Accounts
                 /\ reg(n) \in Nat \cup {None} /\ lst(n) \in Quotes \cup {None}
                 /\ dat(n) \in Nat \cup {None}
      <3>1. n \in Names /\ Owner(n, shown.names) \in Accounts
        BY <2>1, NamesRegistered
      <3>2. reg(n) \in Nat \cup {None}
        BY <2>1, RegistrationDate
      <3>3. n \in DOMAIN asks =>
              asks[n] = Listing(n, shown.listings).quote /\ Listing(n, shown.listings) # None
        BY DEF listActiveListings
      <3>4. lst(n) \in Quotes \cup {None}
        BY <2>1, <3>3, ListingFound
      <3>5. dat(n) \in Nat \cup {None}
        BY <2>1, ListingDate
      <3> QED BY <3>1, <3>2, <3>4, <3>5
    <2> HIDE DEF N, reg, lst, dat
    <2>4. \A n \in N : row(n) \in Entry /\ row(n).name = n
      BY <2>3 DEF Entry
    <2>5. IsFiniteSet(N)
      BY <2>1, NamesFinite DEF N
    <2> HIDE DEF row
    <2>6. entries \subseteq Entry /\ \A e, g \in entries : e.name = g.name => e = g
      BY <2>2, <2>4
    <2>7. f \in Surjection(N, entries)
      BY <2>2 DEF Surjection
    <2> HIDE DEF f
    <2>8. IsFiniteSet(entries)
      BY <2>5, <2>7, FS_Surjection
    <2> QED BY <2>6, <2>8
  <1> QED BY <1>1, <1>2

LEMMA DatesStand == PagesInv => DatesTrue
  <1> SUFFICES ASSUME PagesInv, page \in {"search", "explore"}, shown # None PROVE DatesTrue
    BY DEF DatesTrue
  <1>1. HistoryOK /\ shown.feed \in Feeds
    BY ShownList
  <1>2. ASSUME NEW n, registeredAt(shown.feed, n) # None
        PROVE  registeredAt(shown.feed, n) = TrueTime(n, now)
    BY <1>1, <1>2, RegistrationDate
  <1>3. ASSUME NEW n, listedAt(shown.feed, n) # None
        PROVE  \E k \in since .. ingested :
                 LET S == {i \in Done(n, {"ListName"}, k) : hist[i].dated}
                 IN  listedAt(shown.feed, n) \in S /\ listedAt(shown.feed, n) = Max(S)
    BY <1>1, <1>3, ListingDate
  <1> QED BY <1>2, <1>3 DEF DatesTrue

LEMMA WindowStands == PagesInv => WindowCovered
  <1> SUFFICES ASSUME PagesInv, page \in {"search", "explore"}, shown # None,
                      shown.feed # Failed, 0 \notin Range(shown.feed),
                      NEW n \in listNameAccounts(shown.names), TrueTime(n, now) <= since,
                      TrueTime(n, now) > ingested - Pages * PageSize,
                      hist[TrueTime(n, now)].dated
               PROVE  registeredAt(shown.feed, n) # None
    BY DEF WindowCovered
  <1> DEFINE t == TrueTime(n, now)
             feed == shown.feed
             S == Sightings(feed, "Register", n)
  <1>1. /\ HistoryOK /\ shown.names \in 0 .. now /\ feed \in FeedPages /\ feed_read(feed)
        /\ now \in Nat /\ since \in Nat /\ ingested \in Nat /\ feed # Failed
    BY ShownList DEF Feeds, HistoryOK
  <1>2. t \in 1 .. shown.names /\ Registers(hist, t, n)
    BY <1>1, NamesRegistered
  <1> HIDE DEF feed, t
  <1>3. t \in 1 .. since /\ t \in 1 .. now
    BY <1>1, <1>2 DEF t
  <1>4. feed \in Seq(FeedMoments \cup {0}) /\ Len(feed) \in Nat
        /\ \A p \in 1 .. Len(feed) : feed[p] \in Nat /\ feed[p] # 0 /\ feed[p] <= ingested
    <2>1. feed \in Seq(FeedMoments \cup {0}) /\ Len(feed) \in Nat /\ DOMAIN feed = 1 .. Len(feed)
      BY <1>1 DEF FeedPages
    <2>2. \A p \in 1 .. Len(feed) : feed[p] # 0
      BY <2>1 DEF feed, Range
    <2>3. \A p \in 1 .. Len(feed) : feed[p] \in FeedMoments
      BY <2>1, <2>2
    <2> QED BY <1>1, <2>1, <2>2, <2>3 DEF FeedMoments
  <1>5. \E q \in 1 .. Len(feed) : feed[q] # 0 /\ feed[q] - Skipped(q + 1) < t
    <2>1. CASE Len(feed) = Pages
      <3>1. Pages \in Nat \ {0} /\ PageSize \in Nat
        BY PageAssumption
      <3>2. Skipped(Pages + 1) = Pages * PageSize /\ Pages * PageSize \in Nat
        BY <3>1 DEF Skipped
      <3>3. Pages \in 1 .. Len(feed) /\ feed[Pages] \in Nat /\ feed[Pages] <= ingested
        BY <2>1, <3>1, <1>4
      <3>4. t > ingested - Pages * PageSize
        BY DEF t
      <3>5. feed[Pages] - Skipped(Pages + 1) < t
        <4> DEFINE w == Pages * PageSize
        <4>1. w \in Nat /\ t > ingested - w /\ Skipped(Pages + 1) = w
          BY <3>2, <3>4
        <4> HIDE DEF w
        <4> QED BY <4>1, <3>3, <1>1, <1>3
      <3> QED BY <1>4, <3>3, <3>5
    <2>2. CASE \E p \in DOMAIN feed : Len(fetchTransactionRows(feed[p], p)) < PageSize
      <3>1. PICK p \in 1 .. Len(feed) : Len(fetchTransactionRows(feed[p], p)) < PageSize
        BY <2>2, <1>4
      <3>2. feed[p] \in Nat /\ p \in Nat \ {0} /\ p + 1 \in Nat \ {0}
        BY <1>4
      <3>3. feed[p] < Skipped(p + 1)
        BY <3>1, <3>2, PageRows
      <3>4. Skipped(p + 1) \in Nat
        BY <3>2, PageRows
      <3>5. feed[p] - Skipped(p + 1) < t
        BY <3>2, <3>3, <3>4, <1>3
      <3> QED BY <1>4, <3>5
    <2> QED BY <1>1, <2>1, <2>2 DEF feed_read
  <1>6. hist[t].ok /\ hist[t].kind = "Register" /\ hist[t].name = n
    BY <1>2 DEF Registers
  <1>7. S # {}
    BY <1>1, <1>3, <1>5, <1>6, Covered
  <1>8. S \subseteq Nat \X Nat
    BY <1>1, Sighted
  <1>9. First(S) \in S
    <2> HIDE DEF S
    <2> QED BY <1>7, <1>8, FirstOf
  <1> DEFINE i == Row(feed, First(S))
  <1>10. i \in 1 .. now /\ hist[i].ok /\ hist[i].kind = "Register" /\ hist[i].name = n
    BY <1>1, <1>9, Sighted
  <1> HIDE DEF i, S
  <1>11. TrueTime(n, now) = i
    BY <1>1, <1>10, TrueTimeIs DEF Registers
  <1>12. hist[i].dated /\ i # None
    BY <1>10, <1>11, NoneAssumption
  <1> QED BY <1>7, <1>12 DEF registeredAt, i, S, feed

LEMMA SalesStand == PagesInv => ForSaleTrue
  <1> SUFFICES ASSUME PagesInv, page = "explore", NEW e \in listedEntries(entries)
               PROVE  \E k \in opened .. now :
                        Listing(e.name, k) = [quote |-> e.listing, active |-> TRUE]
    BY DEF ForSaleTrue
  <1>1. shown # None /\ e \in entries /\ e.listing # None
    BY DEF listedEntries, entries
  <1> DEFINE k == shown.listings
             n == e.name
  <1>2. HistoryOK /\ k \in opened .. now /\ k \in 0 .. now
    BY <1>1, ShownList
  <1>3. /\ n \in DOMAIN listActiveListings(k, shown.labels)
        /\ e.listing = listActiveListings(k, shown.labels)[n]
    BY <1>1 DEF entries
  <1>4. Listing(n, k) # None /\ Listing(n, k).active /\ e.listing = Listing(n, k).quote
    BY <1>3 DEF listActiveListings
  <1>5. Listing(n, k) = [quote |-> Listing(n, k).quote, active |-> Listing(n, k).active]
    BY <1>2, <1>4, ListingFound
  <1>6. Listing(n, k).active \in BOOLEAN
    BY <1>4 DEF Listing
  <1> QED BY <1>2, <1>4, <1>5, <1>6

LEMMA EmptyStands == PagesInv => EmptyClaimsTrue
  <1> SUFFICES ASSUME PagesInv PROVE EmptyClaimsTrue
    OBVIOUS
  <1>1. ASSUME search_empty PROVE \E k \in opened .. now : listNameAccounts(k) = {}
    <2>1. page = "search" /\ shown # None /\ listNameAccounts(shown.names) = {}
      BY <1>1 DEF search_empty, PagesInv, AbsenceTold
    <2>2. shown.names \in opened .. now
      BY <2>1, ShownList
    <2> QED BY <2>1, <2>2
  <1>2. ASSUME explore_empty("all"), ~error
        PROVE  \E k \in opened .. now : listNameAccounts(k) = {}
    <2>1. page = "explore" /\ shown # None
      BY <1>2 DEF explore_empty, PagesInv, AbsenceTold
    <2>2. shown.names \in opened .. now
      BY <2>1, ShownList
    <2> DEFINE E == {e \in entries : entryMatchesCollection(e, "all") /\ (FALSE => e.listing # None)}
    <2>3. E = entries
      BY DEF entryMatchesCollection
    <2>4. PICK R : visible(entries, "all", FALSE, "price-asc") = Ordered(E, R)
      BY DEF visible, sortMarketplaceEntries
    <2>5. IsFiniteSet(E) /\ Cardinality(E) \in Nat
      BY <2>1, <2>3, EntryRows, FS_CardinalityType
    <2>6. Ordered(E, R) = <<>>
      BY <1>2, <2>4 DEF explore_empty
    <2> HIDE DEF E
    <2>7. 1 .. Cardinality(E) = {}
      <3>1. DOMAIN Ordered(E, R) = 1 .. Cardinality(E)
        BY DEF Ordered
      <3>2. DOMAIN <<>> = {}
        OBVIOUS
      <3> QED BY <2>6, <3>1, <3>2
    <2>8. E = {}
      <3>1. Cardinality(E) = 0
        BY <2>5, <2>7
      <3> QED BY <2>5, <3>1, FS_EmptySet
    <2>9. listNameAccounts(shown.names) = {}
      BY <2>1, <2>3, <2>8 DEF entries
    <2> QED BY <2>2, <2>9
  <1>3. ASSUME mine_none PROVE \E k \in opened .. now : listOwnedNames(shown.account, k) = {}
    <2> DEFINE r == shown.lookups[shown.account]
    <2>1. /\ page = "mine" /\ shown # None /\ r # Failed
          /\ listOwnedNames(shown.account, r.scan) = {}
      BY <1>3 DEF mine_none, connectedAccountNames
    <2>2. shown \in MineLoad /\ mine_settled(shown)
      BY <2>1 DEF PagesInv, ShownOK
    <2>3. shown.account \in DOMAIN shown.lookups /\ looked_up(r)
      BY <2>2 DEF MineLoad, mine_settled
    <2>4. r \in Lookup /\ r # Waiting
      BY <2>1, <2>2, <2>3 DEF MineLoad, looked_up
    <2>5. r.scan \in opened .. now
      BY <2>1, <2>4 DEF Lookup, Moments
    <2> QED BY <2>1, <2>5
  <1> QED BY <1>1, <1>2, <1>3 DEF EmptyClaimsTrue

\* A page that says there is nothing tells what was so at a moment since it
\* was opened, however reads failed and loads overlapped (SearchView,
\* ExploreView, MyNamesView).
THEOREM EmptyClaimsAreTrue == Spec => []EmptyClaimsTrue
  BY PagesInvariant, EmptyStands, PTL

-----------------------------------------------------------------------------
(* Sorted lists                                                            *)

\* c holds the first of the n rows of s.
Begins(c, s, n) ==
    /\ \A j \in DOMAIN c : j \in 1 .. n /\ c[j] = s[j] /\ 1 .. j \subseteq DOMAIN c
    /\ n > 0 => 1 \in DOMAIN c

LEMMA CutPrefix ==
    ASSUME NEW S, NEW n \in Nat, NEW s \in [1 .. n -> S], NEW limit \in Nat \ {0}
    PROVE  Begins(cut(s, limit), s, n)
  <1> DEFINE m == Min({limit, n})
  <1>1. s \in Seq(S) /\ Len(s) = n
    OBVIOUS
  <1>2. m = IF limit <= n THEN limit ELSE n
    BY PairMinMax
  <1>3. cut(s, limit) = SubSeq(s, 1, m)
    BY <1>1 DEF cut
  <1> HIDE DEF m
  <1>4. m \in 0 .. n /\ m \in Nat
    BY <1>2
  <1>5. cut(s, limit) \in Seq(S) /\ Len(cut(s, limit)) = m
    BY <1>1, <1>3, <1>4
  <1>6. \A j \in 1 .. m : cut(s, limit)[j] = s[j]
    BY <1>1, <1>3, <1>4
  <1>7. DOMAIN cut(s, limit) = 1 .. m
    BY <1>5
  <1> QED BY <1>2, <1>4, <1>6, <1>7 DEF Begins

\* Names from the newest to the oldest: what is newer than a name on the list
\* is on the list, above it.
NewerAbove(list, at, N) ==
    \A j \in DOMAIN list, m \in N :
      /\ list[j] \in N
      /\ at[m] # None /\ (at[list[j]] = None \/ at[m] > at[list[j]])
           => \E i \in 1 .. j - 1 : list[i] = m

LEMMA RecentSorted ==
    ASSUME NEW N, IsFiniteSet(N), N \subseteq Nat, NEW at \in [N -> Nat \cup {None}],
           NEW limit \in Nat \ {0}
    PROVE  NewerAbove(orderNamesByRegistration(at, limit), at, N)
  <1> DEFINE before(m, n) ==
               \/ at[m] # None /\ at[n] = None
               \/ None \notin {at[m], at[n]} /\ at[m] > at[n]
               \/ at[m] = at[n] /\ IF at[m] = None THEN m > n ELSE m < n
             R == {p \in N \X N : before(p[1], p[2])}
             n == Cardinality(N)
             s == Ordered(N, R)
             list == cut(s, limit)
  <1>1. orderNamesByRegistration(at, limit) = list
    BY DEF orderNamesByRegistration
  <1>2. None \notin Nat
    BY NoneAssumption
  <1>3. \A x, y \in N : <<x, y>> \in R <=> before(x, y)
    OBVIOUS
  <1>4. StrictOrder(N, R)
    <2>0. \A x \in N : x \in Nat /\ (at[x] \in Nat \/ at[x] = None)
      OBVIOUS
    <2>1. \A x \in N : ~before(x, x)
      BY <2>0, <1>2
    <2>2. \A x, y, z \in N : before(x, y) /\ before(y, z) => before(x, z)
      BY <2>0, <1>2
    <2>3. \A x, y \in N : x = y \/ before(x, y) \/ before(y, x)
      BY <2>0, <1>2
    <2> HIDE DEF before, R
    <2> QED BY <2>1, <2>2, <2>3, <1>3 DEF StrictOrder
  <1> HIDE DEF R
  <1>5. n \in Nat
    BY FS_CardinalityType
  <1>6. /\ s \in [1 .. n -> N] /\ \A x \in N : \E i \in 1 .. n : s[i] = x
        /\ \A i, j \in 1 .. n : <<s[i], s[j]>> \in R <=> i < j
    BY <1>4, OrderedSorts
  <1> HIDE DEF n, s
  <1>7. \A j \in DOMAIN list :
           j \in 1 .. n /\ list[j] = s[j] /\ 1 .. j \subseteq DOMAIN list
    BY <1>5, <1>6, CutPrefix DEF Begins
  <1> HIDE DEF list
  <1>8. ASSUME NEW j \in DOMAIN list, NEW m \in N, at[m] # None,
               at[list[j]] = None \/ at[m] > at[list[j]]
        PROVE  \E i \in 1 .. j - 1 : list[i] = m
    <2>1. j \in 1 .. n /\ list[j] = s[j] /\ list[j] \in N
      BY <1>6, <1>7
    <2>2. before(m, list[j])
      BY <1>8, <2>1
    <2>3. PICK i \in 1 .. n : s[i] = m
      BY <1>6
    <2>4. <<s[i], s[j]>> \in R
      BY <1>3, <2>1, <2>2, <2>3
    <2>5. i < j
      BY <1>6, <2>1, <2>4
    <2>6. i \in 1 .. j /\ i \in 1 .. j - 1
      BY <1>5, <2>1, <2>5
    <2>7. i \in DOMAIN list
      BY <2>6, <1>7
    <2>8. list[i] = m
      BY <2>3, <2>7, <1>7
    <2> QED BY <2>6, <2>8
  <1>9. \A j \in DOMAIN list : list[j] \in N
    BY <1>6, <1>7
  <1> QED BY <1>1, <1>8, <1>9 DEF NewerAbove

\* Rows of the marketplace that are for sale.
Listed(E) ==
    /\ E \subseteq Entry /\ IsFiniteSet(E)
    /\ \A e, f \in E : e.name = f.name => e = f
    /\ \A e \in E : e.listing # None

\* What sorting such rows gives: all of them, in the order of R.
Sorts(s, E, R) ==
    /\ Cardinality(E) \in Nat /\ s \in [1 .. Cardinality(E) -> E]
    /\ \A x \in E : \E i \in 1 .. Cardinality(E) : s[i] = x
    /\ \A i, j \in 1 .. Cardinality(E) : <<s[i], s[j]>> \in R <=> i < j

LEMMA ListedRows ==
    ASSUME NEW E, Listed(E), NEW e \in E
    PROVE  /\ e.name \in Nat /\ e.listing \in Quotes /\ e.listing # None
           /\ e.listing.currency \in Currencies /\ e.listing.price \in Nat
           /\ e.listedAt \in Nat \cup {None}
           /\ listingPriceSortKey(e.listing) \in Nat
  <1>1. /\ e.name \in Nat /\ e.listing \in Quotes /\ e.listing # None
        /\ e.listedAt \in Nat \cup {None}
    BY PageAssumption DEF Listed, Entry
  <1>2. e.listing.currency \in Currencies /\ e.listing.price \in Nat
    BY <1>1 DEF Quotes
  <1>3. listingPriceSortKey(e.listing) \in Nat
    <2> DEFINE p == pow10[QuoteDecimals["Btc"]]
               q == pow10[QuoteDecimals[e.listing.currency]]
    <2>1. QuoteDecimals["Btc"] \in Nat /\ QuoteDecimals[e.listing.currency] \in Nat
      BY <1>2, PageAssumption DEF Currencies
    <2>2. p \in Nat /\ q \in Nat /\ q > 0
      BY <2>1, PowerOfTen
    <2>3. \A a, b, c \in Nat : c > 0 => (a * b) \div c \in Nat
      OBVIOUS
    <2> HIDE DEF p, q
    <2>4. (e.listing.price * p) \div q \in Nat
      BY <1>2, <2>2, <2>3
    <2> QED BY <2>4 DEF listingPriceSortKey, p, q
  <1> QED BY <1>1, <1>2, <1>3

\* The three orders in which rows for sale are put.
Cheaper(E) ==
    {p \in E \X E :
       \/ listingPriceSortKey(p[1].listing) < listingPriceSortKey(p[2].listing)
       \/ /\ listingPriceSortKey(p[1].listing) = listingPriceSortKey(p[2].listing)
          /\ p[1].name < p[2].name}
Fresher(E) ==
    {p \in E \X E :
       \/ p[1].listedAt # None /\ p[2].listedAt = None
       \/ None \notin {p[1].listedAt, p[2].listedAt} /\ p[1].listedAt > p[2].listedAt
       \/ p[1].listedAt = p[2].listedAt /\ p[1].name < p[2].name}
Alphabetic(E) == {p \in E \X E : p[1].name < p[2].name}

LEMMA SortedByPrice ==
    ASSUME NEW E, Listed(E)
    PROVE  Sorts(sortMarketplaceEntries(E, "price-asc"), E, Cheaper(E))
  <1> DEFINE key(e) == listingPriceSortKey(e.listing)
  <1>0. \A e \in E : key(e) \in Nat /\ e.name \in Nat /\ e.listing # None
    BY ListedRows
  <1>1. StrictOrder(E, Cheaper(E))
    <2>1. \A e, f \in E : <<e, f>> \in Cheaper(E) <=>
            (key(e) < key(f) \/ (key(e) = key(f) /\ e.name < f.name))
      BY DEF Cheaper
    <2> HIDE DEF key
    <2>2. \A e, f \in E : e.name = f.name => e = f
      BY DEF Listed
    <2> QED BY <1>0, <2>1, <2>2 DEF StrictOrder
  <1>2. sortMarketplaceEntries(E, "price-asc") = Ordered(E, Cheaper(E))
    <2> HIDE DEF key
    <2>1. \A x, y \in E : key(x) - key(y) < 0 <=> key(x) < key(y)
      BY <1>0
    <2>2. \A x, y \in E : key(x) - key(y) = 0 <=> key(x) = key(y)
      BY <1>0
    <2> QED BY <1>0, <2>1, <2>2 DEF sortMarketplaceEntries, Cheaper, key
  <1> QED BY <1>1, <1>2, OrderedSorts, FS_CardinalityType DEF Sorts, Listed

LEMMA SortedByName ==
    ASSUME NEW E, Listed(E)
    PROVE  Sorts(sortMarketplaceEntries(E, "name-asc"), E, Alphabetic(E))
  <1>0. \A e \in E : e.name \in Nat
    BY ListedRows
  <1>1. StrictOrder(E, Alphabetic(E))
    BY <1>0 DEF StrictOrder, Alphabetic, Listed
  <1>2. sortMarketplaceEntries(E, "name-asc") = Ordered(E, Alphabetic(E))
    BY DEF sortMarketplaceEntries, Alphabetic
  <1> QED BY <1>1, <1>2, OrderedSorts, FS_CardinalityType DEF Sorts, Listed

LEMMA SortedByDate ==
    ASSUME NEW E, Listed(E)
    PROVE  Sorts(sortMarketplaceEntries(E, "listed-recent"), E, Fresher(E))
  <1>0. \A e \in E : e.name \in Nat /\ e.listedAt \in Nat \cup {None} /\ e.listing # None
    BY ListedRows
  <1>n. None \notin Nat
    BY NoneAssumption
  <1>1. StrictOrder(E, Fresher(E))
    BY <1>0, <1>n DEF StrictOrder, Fresher, Listed
  <1>2. sortMarketplaceEntries(E, "listed-recent") = Ordered(E, Fresher(E))
    <2> DEFINE d(x, y) == compareRecency(x.listedAt, y.listedAt)
    <2>1. \A x, y \in E :
            /\ d(x, y) \in Int /\ (d(x, y) = 0 <=> x.listedAt = y.listedAt)
            /\ d(x, y) < 0 <=>
                 \/ x.listedAt # None /\ y.listedAt = None
                 \/ None \notin {x.listedAt, y.listedAt} /\ x.listedAt > y.listedAt
      BY <1>0, <1>n DEF compareRecency
    <2>2. \A x, y \in E : <<x, y>> \in Fresher(E) <=>
            IF d(x, y) # 0 THEN d(x, y) < 0 ELSE x.name < y.name
      BY <2>1 DEF Fresher
    <2>3. Fresher(E) = {p \in E \X E : IF d(p[1], p[2]) # 0 THEN d(p[1], p[2]) < 0
                                                        ELSE p[1].name < p[2].name}
      BY <2>2 DEF Fresher
    <2> DEFINE tie(x, y) ==
                 (IF x.listing = None THEN 1 ELSE 0) - (IF y.listing = None THEN 1 ELSE 0)
               B == {p \in E \X E :
                       IF d(p[1], p[2]) # 0 THEN d(p[1], p[2]) < 0
                       ELSE \/ tie(p[1], p[2]) < 0
                            \/ tie(p[1], p[2]) = 0 /\ p[1].name < p[2].name}
    <2>4. sortMarketplaceEntries(E, "listed-recent") = Ordered(E, B)
      BY DEF sortMarketplaceEntries
    <2>5. \A x, y \in E : tie(x, y) = 0
      BY <1>0
    <2> HIDE DEF d, tie
    <2>6. B = Fresher(E)
      BY <2>3, <2>5
    <2> QED BY <2>4, <2>6
  <1> QED BY <1>1, <1>2, OrderedSorts, FS_CardinalityType DEF Sorts, Listed

\* What is for sale among some of the rows on screen.
LEMMA ListedEntries ==
    ASSUME PagesInv, page = "explore", NEW X \in SUBSET entries
    PROVE  Listed(listedEntries(X)) /\ listedEntries(X) \subseteq X
  <1>1. entries \subseteq Entry /\ IsFiniteSet(entries) /\ \A e, f \in entries : e.name = f.name => e = f
    BY EntryRows
  <1> DEFINE Y == listedEntries(X)
  <1>2. Y \in SUBSET entries /\ Y \subseteq X /\ \A e \in Y : e.listing # None
    BY DEF listedEntries
  <1> HIDE DEF Y
  <1>3. IsFiniteSet(Y)
    BY <1>1, <1>2, FS_Subset
  <1>4. Listed(Y)
    BY <1>1, <1>2, <1>3 DEF Listed
  <1> QED BY <1>2, <1>4 DEF Y

\* The lists run from the newest to the oldest.
LEMMA NewestStands == PagesInv => NewestFirst
  <1> SUFFICES ASSUME PagesInv PROVE NewestFirst
    OBVIOUS
  <1>1. ASSUME page = "search", shown # None
        PROVE  LET list == recent
                   at == [n \in listNameAccounts(shown.names) |-> registeredAt(shown.feed, n)]
                   newer(m, n) ==
                     at[m] # None /\ (at[n] = None \/ TrueTime(m, now) > TrueTime(n, now))
               IN  \A j \in DOMAIN list, m \in DOMAIN at :
                     newer(m, list[j]) => \E i \in 1 .. j - 1 : list[i] = m
    <2> DEFINE N == listNameAccounts(shown.names)
               at == [n \in N |-> registeredAt(shown.feed, n)]
               list == orderNamesByRegistration(at, RecentLimit)
    <2>1. HistoryOK /\ shown.feed \in Feeds /\ shown.names \in 0 .. now
      BY <1>1, ShownList
    <2>2. IsFiniteSet(N) /\ N \subseteq Nat
      BY <2>1, NamesFinite, PageAssumption DEF listNameAccounts
    <2>3. \A n \in N : at[n] # None => at[n] \in Nat /\ at[n] = TrueTime(n, now)
      BY <2>1, RegistrationDate
    <2> HIDE DEF N
    <2>4. at \in [N -> Nat \cup {None}]
      BY <2>3
    <2>5. RecentLimit \in Nat \ {0}
      BY PageAssumption
    <2>6. recent = list
      BY DEF recent, N
    <2>7. DOMAIN at = N
      OBVIOUS
    <2> HIDE DEF at
    <2>8. \A j \in DOMAIN list, m \in N :
            /\ list[j] \in N
            /\ at[m] # None /\ (at[list[j]] = None \/ at[m] > at[list[j]])
                 => \E i \in 1 .. j - 1 : list[i] = m
      <3>1. NewerAbove(list, at, N)
        BY <2>2, <2>4, <2>5, RecentSorted
      <3> HIDE DEF list
      <3> QED BY <3>1 DEF NewerAbove
    <2> HIDE DEF list
    <2>9. ASSUME NEW j \in DOMAIN list, NEW m \in N, at[m] # None,
                 at[list[j]] = None \/ TrueTime(m, now) > TrueTime(list[j], now)
          PROVE  \E i \in 1 .. j - 1 : list[i] = m
      BY <2>3, <2>8, <2>9
    <2>10. \A j \in DOMAIN recent, m \in DOMAIN at :
             at[m] # None /\ (at[recent[j]] = None \/ TrueTime(m, now) > TrueTime(recent[j], now))
               => \E i \in 1 .. j - 1 : recent[i] = m
      BY <2>6, <2>7, <2>9
    <2> QED BY <2>10 DEF at, N
  <1>2. ASSUME page = "explore"
        PROVE  LET s == pulse(entries).newest
               IN  \A i, j \in DOMAIN s : (s[i].listedAt # None /\
                     (s[j].listedAt = None \/ s[i].listedAt > s[j].listedAt)) => i < j
    <2> DEFINE E == listedEntries(entries)
               r == sortMarketplaceEntries(E, "listed-recent")
               s == cut(r, 3)
               n == Cardinality(E)
    <2>1. pulse(entries).newest = s
      BY DEF pulse, newestListings
    <2>2. Listed(E)
      BY <1>2, ListedEntries
    <2> HIDE DEF E
    <2>3. Sorts(r, E, Fresher(E))
      BY <2>2, SortedByDate
    <2> HIDE DEF r
    <2>4. n \in Nat /\ r \in [1 .. n -> E]
          /\ \A i, j \in 1 .. n : <<r[i], r[j]>> \in Fresher(E) <=> i < j
      BY <2>3 DEF Sorts
    <2>5. \A j \in DOMAIN s : j \in 1 .. n /\ s[j] = r[j]
      <3> DEFINE three == 3
      <3>1. three \in Nat \ {0} /\ s = cut(r, three)
        OBVIOUS
      <3>2. n \in Nat /\ r \in [1 .. n -> E]
        BY <2>4
      <3> HIDE DEF n, three, s
      <3>3. Begins(s, r, n)
        BY <3>1, <3>2, CutPrefix
      <3> QED BY <3>3 DEF Begins
    <2> HIDE DEF s, n
    <2>6. ASSUME NEW i \in DOMAIN s, NEW j \in DOMAIN s, s[i].listedAt # None,
                 s[j].listedAt = None \/ s[i].listedAt > s[j].listedAt
          PROVE  i < j
      <3>1. i \in 1 .. n /\ j \in 1 .. n /\ s[i] = r[i] /\ s[j] = r[j] /\ s[i] \in E /\ s[j] \in E
        BY <2>4, <2>5
      <3>2. <<s[i], s[j]>> \in Fresher(E)
        BY <2>6, <3>1 DEF Fresher
      <3> QED BY <3>1, <3>2, <2>4
    <2> QED BY <2>1, <2>6
  <1> QED BY <1>1, <1>2 DEF NewestFirst

\* The dates the lists show are true as of what the indexer had since the page
\* was opened, none it had by then is missing from the window unless a page was
\* not found, and the lists run from the newest to the oldest, for every page
\* size, number of pages, lag and interleaving of the reads with what lands and
\* what is ingested (fetchRegistryTimeline, orderNamesByRegistration).
THEOREM TimelinesAreTrue == Spec => []TimelineTrue
  <1>1. PagesInv => TimelineTrue
    BY DatesStand, WindowStands, NewestStands DEF TimelineTrue
  <1> QED BY <1>1, PagesInvariant, PTL

-----------------------------------------------------------------------------
(* The lowest asks                                                         *)

\* The first of the rows sorted by price is one that no other undercuts.
LEMMA LowestFirst ==
    ASSUME NEW X, Listed(listedEntries(X)), listedEntries(X) # {}, NEW limit \in Nat \ {0}
    PROVE  LET low == topListingsByPrice(X, "price-asc", limit)
           IN  /\ low # <<>> /\ low[1] \in listedEntries(X)
               /\ \A e \in listedEntries(X) :
                    listingPriceSortKey(low[1].listing) <= listingPriceSortKey(e.listing)
  <1> DEFINE E == listedEntries(X)
             r == sortMarketplaceEntries(E, "price-asc")
             low == cut(r, limit)
             n == Cardinality(E)
  <1>1. topListingsByPrice(X, "price-asc", limit) = low
    BY DEF topListingsByPrice
  <1> HIDE DEF E
  <1>2. Listed(E) /\ E # {}
    BY DEF E
  <1>3. Sorts(r, E, Cheaper(E))
    BY <1>2, SortedByPrice
  <1> HIDE DEF r
  <1>4. /\ n \in Nat /\ r \in [1 .. n -> E]
        /\ \A x \in E : \E i \in 1 .. n : r[i] = x
        /\ \A i, j \in 1 .. n : <<r[i], r[j]>> \in Cheaper(E) <=> i < j
    BY <1>3 DEF Sorts
  <1> HIDE DEF n
  <1>5. n > 0 /\ 1 \in 1 .. n
    BY <1>2, <1>4
  <1>6. 1 \in DOMAIN low /\ low[1] = r[1]
    <2>1. r \in [1 .. n -> E] /\ n \in Nat
      BY <1>4
    <2>2. Begins(low, r, n)
      BY <2>1, CutPrefix
    <2> HIDE DEF low
    <2> QED BY <2>2, <1>5 DEF Begins
  <1> HIDE DEF low
  <1>7. low # <<>>
    BY <1>6
  <1>8. ASSUME NEW e \in E
        PROVE  listingPriceSortKey(r[1].listing) <= listingPriceSortKey(e.listing)
    <2>1. PICK i \in 1 .. n : r[i] = e
      BY <1>4
    <2>2. listingPriceSortKey(r[1].listing) \in Nat /\ listingPriceSortKey(e.listing) \in Nat
          /\ r[1] \in E
      BY <1>2, <1>4, <1>5, ListedRows
    <2>3. CASE i = 1
      BY <2>1, <2>2, <2>3
    <2>4. CASE i # 1
      <3>1. 1 < i
        BY <2>4, <1>4
      <3>2. <<r[1], e>> \in Cheaper(E)
        BY <3>1, <2>1, <1>4, <1>5
      <3>3. \/ listingPriceSortKey(r[1].listing) < listingPriceSortKey(e.listing)
            \/ listingPriceSortKey(r[1].listing) = listingPriceSortKey(e.listing)
        BY <3>2 DEF Cheaper
      <3> QED BY <3>3, <2>2
    <2> QED BY <2>3, <2>4
  <1> QED BY <1>1, <1>4, <1>5, <1>6, <1>7, <1>8 DEF E

\* The lowest ask of each currency among the first i rows, None without one.
LowestOf(rows, i, v) ==
    \A c \in Currencies :
      \/ v[c] = None /\ \A j \in 1 .. i : rows[j].listing.currency # c
      \/ \E m \in 1 .. i :
           /\ v[c] = rows[m] /\ rows[m].listing.currency = c
           /\ \A j \in 1 .. i : rows[j].listing.currency = c =>
                rows[m].listing.price <= rows[j].listing.price

\* marketplaceFloors' loop as a function of the row it has reached.
Scans(f, rows, n) ==
    /\ f[0] = [c \in Currencies |-> None]
    /\ \A i \in 1 .. n :
         LET c == rows[i].listing.currency
         IN  f[i] = IF f[i - 1][c] = None \/ rows[i].listing.price < f[i - 1][c].listing.price
                    THEN [f[i - 1] EXCEPT ![c] = rows[i]] ELSE f[i - 1]

LEMMA FloorsUnfold ==
    ASSUME NEW E, E \subseteq Entry, \A e \in E : e.listing # None, NEW n \in Nat,
           NEW rows \in [1 .. n -> E]
    PROVE  Scans(floors_after(rows), rows, n)
  <1> DEFINE V == [Currencies -> Entry \cup {None}]
             base == [c \in Currencies |-> None]
             put(i, v) ==
               LET c == rows[i].listing.currency
               IN  IF v[c] = None \/ rows[i].listing.price < v[c].listing.price
                   THEN [v EXCEPT ![c] = rows[i]] ELSE v
             step == [p \in Nat \X V |-> IF p[1] + 1 \in 1 .. n THEN put(p[1] + 1, p[2]) ELSE p[2]]
  <1>1. base \in V
    OBVIOUS
  <1>2. \A i \in 1 .. n, v \in V : put(i, v) \in V
    OBVIOUS
  <1> HIDE DEF put, V, base
  <1>3. step \in [Nat \X V -> V]
    BY <1>2
  <1>s. \A i \in Nat, v \in V : i + 1 \in 1 .. n => step[<<i, v>>] = put(i + 1, v)
    BY <1>2
  <1>4. PICK g \in [Nat -> V] : Recurs(g, base, step)
    <2> HIDE DEF step
    <2> QED BY <1>1, <1>3, Recursion
  <1> HIDE DEF step
  <1>5. g[0] = base /\ \A i \in Nat : i + 1 \in 1 .. n => g[i + 1] = put(i + 1, g[i])
    BY <1>4, <1>s DEF Recurs
  <1>6. \A i \in 1 .. n : g[i] = put(i, g[i - 1])
    <2> TAKE i \in 1 .. n
    <2>1. i - 1 \in Nat /\ (i - 1) + 1 = i
      OBVIOUS
    <2> QED BY <2>1, <1>5
  <1> DEFINE h == [i \in 0 .. n |-> g[i]]
  <1>7. Len(rows) = n
    OBVIOUS
  <1>8. \A i \in 0 .. n : h[i] = IF i = 0 THEN base ELSE put(i, h[i - 1])
    <2> TAKE i \in 0 .. n
    <2>1. CASE i = 0
      BY <2>1, <1>5
    <2>2. CASE i # 0
      <3>1. i \in 1 .. n /\ i - 1 \in 0 .. n
        BY <2>2
      <3>2. h[i] = g[i] /\ h[i - 1] = g[i - 1]
        BY <3>1
      <3> QED BY <2>2, <3>1, <3>2, <1>6
    <2> QED BY <2>1, <2>2
  <1>9. h = [i \in 0 .. Len(rows) |-> IF i = 0 THEN base ELSE put(i, h[i - 1])]
    BY <1>7, <1>8
  <1> HIDE DEF h
  <1> DEFINE f == floors_after(rows)
  <1>10. f = [i \in 0 .. Len(rows) |-> IF i = 0 THEN base ELSE put(i, f[i - 1])]
    BY <1>9 DEF floors_after, put, base
  <1> HIDE DEF f
  <1>11. f[0] = base /\ \A i \in 1 .. n : f[i] = put(i, f[i - 1])
    BY <1>7, <1>10
  <1> QED BY <1>11 DEF f, put, base, Scans

LEMMA FloorsScan ==
    ASSUME NEW E, Listed(E), NEW n \in Nat, NEW rows \in [1 .. n -> E]
    PROVE  LowestOf(rows, n, floors_after(rows)[n])
  <1> DEFINE f == floors_after(rows)
             T == {i \in Nat : i <= n => f[i] \in [Currencies -> E \cup {None}]
                                         /\ LowestOf(rows, i, f[i])}
  <1>0. E \subseteq Entry /\ \A e \in E : e.listing # None
    BY DEF Listed
  <1>s. Scans(f, rows, n)
    BY <1>0, FloorsUnfold
  <1> HIDE DEF f
  <1>1. f[0] = [c \in Currencies |-> None]
    BY <1>s DEF Scans
  <1>2. \A i \in 1 .. n :
          LET c == rows[i].listing.currency
          IN  f[i] = IF f[i - 1][c] = None \/ rows[i].listing.price < f[i - 1][c].listing.price
                     THEN [f[i - 1] EXCEPT ![c] = rows[i]] ELSE f[i - 1]
    BY <1>s DEF Scans
  <1>3. \A i \in 1 .. n : rows[i] \in E /\ rows[i].listing.currency \in Currencies
                          /\ rows[i].listing.price \in Nat /\ rows[i] # None
    <2> TAKE i \in 1 .. n
    <2>1. rows[i] \in E
      OBVIOUS
    <2> QED BY <2>1, <1>0, ListedRows, NoneAssumption
  <1>4. 0 \in T
    BY <1>1 DEF LowestOf
  <1>5. ASSUME NEW m \in Nat, m \in T PROVE m + 1 \in T
    <2> SUFFICES ASSUME m + 1 <= n
                 PROVE  /\ f[m + 1] \in [Currencies -> E \cup {None}]
                        /\ LowestOf(rows, m + 1, f[m + 1])
      OBVIOUS
    <2> DEFINE v == f[m]
               r == rows[m + 1]
               k == r.listing.currency
    <2>1. v \in [Currencies -> E \cup {None}] /\ LowestOf(rows, m, v)
      BY <1>5
    <2>2. m + 1 \in 1 .. n /\ (m + 1) - 1 = m
          /\ \A j \in 1 .. m + 1 : j \in 1 .. n /\ (j = m + 1 \/ j \in 1 .. m)
      OBVIOUS
    <2>3. r \in E /\ k \in Currencies /\ r.listing.price \in Nat /\ r # None
      BY <1>3, <2>2
    <2>4. f[m + 1] = IF v[k] = None \/ r.listing.price < v[k].listing.price
                     THEN [v EXCEPT ![k] = r] ELSE v
      BY <1>2, <2>2
    <2> DEFINE w == f[m + 1]
    <2>5. w \in [Currencies -> E \cup {None}]
      <3> HIDE DEF v, r, k
      <3> QED BY <2>1, <2>3, <2>4
    <2> HIDE DEF v, w, k
    <2>6. ASSUME NEW c \in Currencies
          PROVE  \/ w[c] = None /\ \A j \in 1 .. m + 1 : rows[j].listing.currency # c
                 \/ \E b \in 1 .. m + 1 :
                      /\ w[c] = rows[b] /\ rows[b].listing.currency = c
                      /\ \A j \in 1 .. m + 1 : rows[j].listing.currency = c =>
                           rows[b].listing.price <= rows[j].listing.price
      <3>1. CASE c # k
        <4>1. w[c] = v[c]
          BY <3>1, <2>1, <2>3, <2>4 DEF w
        <4>2. rows[m + 1].listing.currency # c
          BY <3>1 DEF k
        <4>3. \A j \in 1 .. m + 1 : rows[j].listing.currency = c => j \in 1 .. m
          BY <2>2, <4>2
        <4>4. \/ v[c] = None /\ \A j \in 1 .. m : rows[j].listing.currency # c
              \/ \E b \in 1 .. m :
                   /\ v[c] = rows[b] /\ rows[b].listing.currency = c
                   /\ \A j \in 1 .. m : rows[j].listing.currency = c =>
                        rows[b].listing.price <= rows[j].listing.price
          BY <2>1 DEF LowestOf
        <4>5. \A b \in 1 .. m : b \in 1 .. m + 1
          OBVIOUS
        <4> QED BY <4>1, <4>3, <4>4, <4>5
      <3>2. CASE c = k /\ v[k] = None
        <4>1. w[c] = rows[m + 1] /\ rows[m + 1].listing.currency = c
          BY <3>2, <2>1, <2>3, <2>4 DEF w, k
        <4>2. \A j \in 1 .. m : rows[j].listing.currency # c
          <5>1. \A b \in 1 .. m : rows[b] # None
            BY <1>3, <2>2
          <5> QED BY <3>2, <5>1, <2>1, <2>3 DEF LowestOf
        <4>3. \A j \in 1 .. m + 1 : rows[j].listing.currency = c =>
                 rows[m + 1].listing.price <= rows[j].listing.price
          BY <4>2, <2>2, <2>3
        <4> QED BY <4>1, <4>3
      <3>3. CASE c = k /\ v[k] # None
        <4>1. PICK b \in 1 .. m :
                /\ v[c] = rows[b] /\ rows[b].listing.currency = c
                /\ \A j \in 1 .. m : rows[j].listing.currency = c =>
                     rows[b].listing.price <= rows[j].listing.price
          BY <3>3, <2>1, <2>3 DEF LowestOf
        <4>2. \A j \in 1 .. m + 1 : rows[j].listing.price \in Nat
          BY <1>3, <2>2
        <4>3. CASE r.listing.price < rows[b].listing.price
          <5>1. w[c] = rows[m + 1] /\ rows[m + 1].listing.currency = c
            BY <3>3, <4>1, <4>3, <2>1, <2>3, <2>4 DEF w, k
          <5>2. \A j \in 1 .. m + 1 : rows[j].listing.currency = c =>
                   rows[m + 1].listing.price <= rows[j].listing.price
            <6> TAKE j \in 1 .. m + 1
            <6>1. CASE j = m + 1
              BY <6>1, <4>2
            <6>2. CASE j \in 1 .. m
              <7>1. b \in 1 .. m + 1
                OBVIOUS
              <7> QED BY <6>2, <7>1, <4>1, <4>2, <4>3
            <6> QED BY <6>1, <6>2, <2>2
          <5> QED BY <5>1, <5>2
        <4>4. CASE ~(r.listing.price < rows[b].listing.price)
          <5>1. w[c] = rows[b]
            BY <3>3, <4>1, <4>4, <2>1, <2>3, <2>4 DEF w
          <5>2. b \in 1 .. m + 1
            OBVIOUS
          <5>3. \A j \in 1 .. m + 1 : rows[j].listing.currency = c =>
                   rows[b].listing.price <= rows[j].listing.price
            <6> TAKE j \in 1 .. m + 1
            <6>1. CASE j = m + 1
              BY <6>1, <4>2, <4>4, <5>2
            <6>2. CASE j \in 1 .. m
              BY <6>2, <4>1
            <6> QED BY <6>1, <6>2, <2>2
          <5> QED BY <4>1, <5>1, <5>2, <5>3
        <4> QED BY <4>3, <4>4
      <3> QED BY <3>1, <3>2, <3>3
    <2>7. LowestOf(rows, m + 1, w)
      BY <2>6 DEF LowestOf
    <2> QED BY <2>5, <2>7 DEF w
  <1>6. \A i \in Nat : i \in T
    <2> HIDE DEF T
    <2> QED BY <1>4, <1>5, Induction
  <1> QED BY <1>6 DEF f

\* The floors are the lowest asks of their currency.
LEMMA FloorsStand ==
    ASSUME NEW X, Listed(listedEntries(X)), NEW c \in Currencies
    PROVE  LET E == listedEntries(X)
               v == marketplaceFloors(X)
               of == {e \in E : e.listing.currency = c}
           IN  IF of = {} THEN v[c] = None
               ELSE v[c] \in of /\ \A e \in of : v[c].listing.price <= e.listing.price
  <1> DEFINE E == listedEntries(X)
             rows == sortMarketplaceEntries(E, "name-asc")
             n == Cardinality(E)
             v == marketplaceFloors(X)
  <1>1. v = floors_after(rows)[Len(rows)]
    BY DEF marketplaceFloors
  <1> HIDE DEF E, v
  <1>2. Listed(E)
    BY DEF E
  <1>3. Sorts(rows, E, Alphabetic(E))
    BY <1>2, SortedByName
  <1> HIDE DEF rows
  <1>4. n \in Nat /\ rows \in [1 .. n -> E] /\ \A x \in E : \E i \in 1 .. n : rows[i] = x
    BY <1>3 DEF Sorts
  <1> HIDE DEF n
  <1>5. Len(rows) = n
    BY <1>4
  <1>6. LowestOf(rows, n, v)
    BY <1>1, <1>2, <1>4, <1>5, FloorsScan
  <1>7. \/ v[c] = None /\ \A j \in 1 .. n : rows[j].listing.currency # c
        \/ \E m \in 1 .. n :
             /\ v[c] = rows[m] /\ rows[m].listing.currency = c
             /\ \A j \in 1 .. n : rows[j].listing.currency = c =>
                  rows[m].listing.price <= rows[j].listing.price
    BY <1>6 DEF LowestOf
  <1> QED BY <1>4, <1>7 DEF E, v

LEMMA LowestStand == PagesInv => FloorsLowest
  <1> SUFFICES ASSUME PagesInv, page = "explore" PROVE FloorsLowest
    BY DEF FloorsLowest
  <1> DEFINE E == listedEntries(entries)
             f == globalStats(entries).floors
             g == pulse(entries).collectionFloors
             low == pulse(entries).lowest
             of(id) == {e \in entries : entryMatchesCollection(e, id)}
  <1>1. f = marketplaceFloors(entries) /\ low = topListingsByPrice(entries, "price-asc", 3)
    BY DEF globalStats, pulse
  <1>2. g = [id \in {i \in Collections \ {"all"} : listedEntries(of(i)) # {}}
               |-> topListingsByPrice(of(id), "price-asc", 1)[1]]
    BY DEF pulse, collectionFloors
  <1>3. Listed(E) /\ E \subseteq entries
    BY ListedEntries
  <1>4. ASSUME E # {}
        PROVE  low # <<>> /\ \A e \in E :
                 listingPriceSortKey(low[1].listing) <= listingPriceSortKey(e.listing)
    <2> DEFINE three == 3
    <2>1. three \in Nat \ {0} /\ low = topListingsByPrice(entries, "price-asc", three)
      BY <1>1
    <2> HIDE DEF three, low
    <2> QED BY <1>3, <1>4, <2>1, LowestFirst
  <1>5. ASSUME NEW c \in Currencies
        PROVE  LET of1 == {e \in E : e.listing.currency = c}
               IN  IF of1 = {} THEN f[c] = None
                   ELSE f[c] \in of1 /\ \A e \in of1 : f[c].listing.price <= e.listing.price
    BY <1>1, <1>3, FloorsStand
  <1>6. ASSUME NEW e \in E, NEW id \in Collections \ {"all"}, entryMatchesCollection(e, id)
        PROVE  /\ id \in DOMAIN g /\ g[id] \in E /\ entryMatchesCollection(g[id], id)
               /\ listingPriceSortKey(e.listing) >= listingPriceSortKey(g[id].listing)
    <2> DEFINE one == 1
               X == of(id)
               top == topListingsByPrice(X, "price-asc", one)
    <2>1. X \in SUBSET entries /\ e \in listedEntries(X) /\ listedEntries(X) \subseteq E
      BY <1>3, <1>6 DEF listedEntries
    <2>2. id \in DOMAIN g /\ g[id] = top[1]
      <3> HIDE DEF g, of
      <3>1. listedEntries(of(id)) # {}
        BY <2>1
      <3> QED BY <1>2, <3>1
    <2>3. \A x \in listedEntries(X) : entryMatchesCollection(x, id)
      BY DEF listedEntries
    <2>4. one \in Nat \ {0}
      OBVIOUS
    <2> HIDE DEF g, X, one
    <2>5. Listed(listedEntries(X)) /\ listedEntries(X) # {}
      BY <2>1, ListedEntries
    <2>6. top[1] \in listedEntries(X)
      BY <2>4, <2>5, LowestFirst
    <2>7. listingPriceSortKey(top[1].listing) <= listingPriceSortKey(e.listing)
      BY <2>1, <2>4, <2>5, LowestFirst
    <2> HIDE DEF top
    <2>8. listingPriceSortKey(top[1].listing) \in Nat /\ listingPriceSortKey(e.listing) \in Nat
      BY <2>1, <2>5, <2>6, ListedRows
    <2>9. listingPriceSortKey(e.listing) >= listingPriceSortKey(top[1].listing)
      BY <2>7, <2>8
    <2> QED BY <2>1, <2>2, <2>3, <2>6, <2>9
  <1> HIDE DEF f, g, low
  <1> QED BY <1>4, <1>5, <1>6 DEF FloorsLowest, f, g, low

\* What the marketplace offers was for sale at that price at a moment since
\* it was opened, and the floors and the lowest asks it shows are the lowest,
\* for every book, every decimals and every interleaving of the three reads.
THEOREM MarketIsTrue == Spec => []MarketTrue
  <1>1. PagesInv => MarketTrue
    BY SalesStand, LowestStand DEF MarketTrue
  <1> QED BY <1>1, PagesInvariant, PTL
=============================================================================
