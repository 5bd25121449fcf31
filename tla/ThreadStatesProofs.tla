------------------------- MODULE ThreadStatesProofs -------------------------
(***************************************************************************)
(* What the Threads API promises, proved for any number of requests and    *)
(* threads, any time, and any number of failing calls (ThreadStates).      *)
(***************************************************************************)
EXTENDS ThreadStates, FiniteSetTheorems, SequenceTheorems, WellFoundedInduction, TLAPS

-----------------------------------------------------------------------------
(* Sequences in order.                                                     *)

IsOrder(S, before) ==
    /\ \A a, b \in S : <<a, b>> \in before => ~(<<b, a>> \in before)
    /\ \A a, b \in S : a = b \/ <<a, b>> \in before \/ <<b, a>> \in before
    /\ \A a, b, c \in S : <<a, b>> \in before /\ <<b, c>> \in before => <<a, c>> \in before

\* Every finite set has its elements in every strict total order of them.
LEMMA OrderExists ==
    ASSUME NEW S, IsFiniteSet(S), NEW before, IsOrder(S, before)
    PROVE  \E p \in SetToSeqs(S) :
              /\ \A i, j \in DOMAIN p : i < j => <<p[i], p[j]>> \in before
              /\ \A x \in S : \E i \in DOMAIN p : p[i] = x
<1> DEFINE UpTo(x) == {y \in S : y = x \/ <<y, x>> \in before}
<1>1. PICK n \in Nat : n = Cardinality(S)
  BY FS_CardinalityType
<1>2. \A x \in S : IsFiniteSet(UpTo(x)) /\ Cardinality(UpTo(x)) \in 1 .. n
  <2> SUFFICES ASSUME NEW x \in S
               PROVE  IsFiniteSet(UpTo(x)) /\ Cardinality(UpTo(x)) \in 1 .. n
    OBVIOUS
  <2>1. UpTo(x) \in SUBSET S /\ {x} \in SUBSET UpTo(x)
    OBVIOUS
  <2>2. IsFiniteSet(UpTo(x)) /\ Cardinality(UpTo(x)) <= n
    BY <2>1, <1>1, FS_Subset
  <2>3. Cardinality({x}) = 1 /\ Cardinality({x}) <= Cardinality(UpTo(x))
    BY <2>1, <2>2, FS_Subset, FS_Singleton
  <2>4. Cardinality(UpTo(x)) \in Nat
    BY <2>2, FS_CardinalityType
  <2> QED
    BY <2>2, <2>3, <2>4
<1>3. \A x, y \in S : <<x, y>> \in before => Cardinality(UpTo(x)) # Cardinality(UpTo(y))
  <2> SUFFICES ASSUME NEW x \in S, NEW y \in S, <<x, y>> \in before,
                      Cardinality(UpTo(x)) = Cardinality(UpTo(y))
               PROVE  FALSE
    OBVIOUS
  <2>1. UpTo(x) \in SUBSET UpTo(y)
    BY DEF IsOrder
  <2>2. UpTo(x) = UpTo(y)
    BY <2>1, <1>2, FS_Subset
  <2> QED
    BY <2>2 DEF IsOrder
<1> DEFINE rank == [x \in S |-> Cardinality(UpTo(x))]
<1>4. rank \in Injection(S, 1 .. n)
  <2>1. rank \in [S -> 1 .. n]
    BY <1>2
  <2>2. \A x \in S : rank[x] = Cardinality(UpTo(x))
    OBVIOUS
  <2> HIDE DEF rank, UpTo
  <2>3. \A x, y \in S : x # y => rank[x] # rank[y]
    BY <1>3, <2>2 DEF IsOrder
  <2> QED
    BY <2>1, <2>3 DEF Injection, IsInjective
<1>5. IsFiniteSet(1 .. n) /\ Cardinality(1 .. n) = n
  BY FS_Interval, <1>1
<1>6. rank \in Surjection(S, 1 .. n)
  BY <1>4, <1>5, <1>1, FS_Injection
<1>7. \A k \in 1 .. n : \E x \in S : rank[x] = k
  BY <1>6 DEF Surjection
<1>8. \A x, y \in S : rank[x] < rank[y] => <<x, y>> \in before
  <2> SUFFICES ASSUME NEW x \in S, NEW y \in S, rank[x] < rank[y], ~(<<x, y>> \in before)
               PROVE  FALSE
    OBVIOUS
  <2>1. x # y /\ <<y, x>> \in before
    <3>1. rank[x] \in 1 .. n
      BY <1>2
    <3> HIDE DEF rank
    <3>2. x # y
      BY <3>1
    <3> QED
      BY <3>2 DEF IsOrder
  <2>2. UpTo(y) \in SUBSET UpTo(x)
    BY <2>1 DEF IsOrder
  <2>3. Cardinality(UpTo(y)) <= Cardinality(UpTo(x))
    BY <2>2, <1>2, FS_Subset
  <2> QED
    BY <2>3, <1>2
<1>9. \A x \in S : rank[x] \in 1 .. n
  BY <1>2
<1>10. PICK p \in [1 .. n -> S] : \A k \in 1 .. n : rank[p[k]] = k
  <2> HIDE DEF rank
  <2> DEFINE p == [k \in 1 .. n |-> CHOOSE x \in S : rank[x] = k]
  <2>1. \A k \in 1 .. n : p[k] \in S /\ rank[p[k]] = k
    BY <1>7
  <2> QED
    BY <2>1
<1>11. \A x, y \in S : rank[x] = rank[y] => x = y
  <2> SUFFICES ASSUME NEW x \in S, NEW y \in S, rank[x] = rank[y]
               PROVE  x = y
    OBVIOUS
  <2>1. ~(<<x, y>> \in before) /\ ~(<<y, x>> \in before)
    BY <1>3
  <2> QED
    BY <2>1 DEF IsOrder
<1> HIDE DEF rank
<1>12. p \in SetToSeqs(S)
  <2>1. \A i, j \in 1 .. n : i # j => p[i] # p[j]
    BY <1>10
  <2> QED
    BY <2>1, <1>1, <1>10 DEF SetToSeqs
<1>13. DOMAIN p = 1 .. n
  BY <1>10
<1>14. \A i, j \in DOMAIN p : i < j => <<p[i], p[j]>> \in before
  BY <1>8, <1>10, <1>13
<1>15. \A x \in S : \E i \in DOMAIN p : p[i] = x
  BY <1>9, <1>10, <1>11, <1>13
<1> QED
  BY <1>12, <1>14, <1>15

\* What InOrder answers.
LEMMA InOrderSorts ==
    ASSUME NEW S, IsFiniteSet(S), NEW before, IsOrder(S, before),
           NEW p, p = InOrder(S, before)
    PROVE  /\ p \in Seq(S) /\ Len(p) = Cardinality(S)
           /\ \A i, j \in DOMAIN p : i < j => <<p[i], p[j]>> \in before
           /\ \A x \in S : \E i \in DOMAIN p : p[i] = x
<1>1. /\ p \in SetToSeqs(S)
      /\ \A i, j \in DOMAIN p : i < j => <<p[i], p[j]>> \in before
  BY OrderExists DEF InOrder
<1>2. PICK n \in Nat : n = Cardinality(S)
  BY FS_CardinalityType
<1>3. p \in [1 .. n -> S] /\ \A i, j \in 1 .. n : i # j => p[i] # p[j]
  BY <1>1, <1>2 DEF SetToSeqs
<1>4. p \in Seq(S) /\ Len(p) = n
  BY <1>3
<1>5. p \in Injection(1 .. n, S)
  BY <1>3 DEF Injection, IsInjective
<1>6. IsFiniteSet(1 .. n) /\ Cardinality(1 .. n) = n
  BY FS_Interval, <1>2
<1>7. p \in Surjection(1 .. n, S)
  BY <1>5, <1>6, <1>2, FS_Injection
<1>8. \A x \in S : \E i \in DOMAIN p : p[i] = x
  BY <1>7, <1>3 DEF Surjection
<1> QED
  BY <1>1, <1>2, <1>4, <1>8

-----------------------------------------------------------------------------
(* Histories.                                                              *)

LEMMA TailOf ==
    ASSUME NEW T, NEW s \in Seq(T), s # <<>>, NEW rest, rest = Tail(s)
    PROVE  /\ Len(s) \in Nat \ {0} /\ Head(s) = s[1] /\ Head(s) \in T
           /\ rest \in Seq(T) /\ Len(rest) = Len(s) - 1
           /\ \A i \in 1 .. Len(s) - 1 : rest[i] = s[i + 1]
           /\ Len(s) # 1 => rest # <<>>
<1>1. Len(s) \in Nat /\ Len(s) # 0
  OBVIOUS
<1>2. rest \in Seq(T) /\ Len(rest) = Len(s) - 1
  BY <1>1
<1>3. \A i \in 1 .. Len(s) - 1 : rest[i] = s[i + 1]
  BY <1>1
<1>4. Head(s) = s[1] /\ Head(s) \in T
  BY <1>1
<1>5. Len(s) # 1 => rest # <<>>
  <2>1. rest = <<>> => Len(rest) = 0
    OBVIOUS
  <2>2. Len(s) # 1 => Len(rest) # 0
    BY <1>1, <1>2
  <2> QED
    BY <2>1, <2>2
<1> QED
  BY <1>1, <1>2, <1>3, <1>4, <1>5

\* The last n states of a history.
LEMMA LastOfKeeps ==
    ASSUME NEW T, NEW s \in Seq(T), NEW n \in Nat, NEW l, l = LastOf(s, n)
    PROVE  /\ l \in Seq(T) /\ Len(l) = IF Len(s) <= n THEN Len(s) ELSE n
           /\ \A i \in 1 .. Len(l) : l[i] = s[Len(s) - Len(l) + i]
<1>1. Len(s) \in Nat
  OBVIOUS
<1>2. CASE Len(s) <= n
  BY <1>1, <1>2 DEF LastOf
<1>3. CASE ~(Len(s) <= n)
  <2>1. l = SubSeq(s, Len(s) - n + 1, Len(s))
    BY <1>3 DEF LastOf
  <2>2. l \in Seq(T) /\ Len(l) = n
    BY <1>1, <1>3, <2>1
  <2>3. \A i \in 1 .. n : l[i] = s[Len(s) - n + i]
    BY <1>1, <1>3, <2>1
  <2> QED
    BY <1>3, <2>2, <2>3
<1> QED
  BY <1>2, <1>3

LEMMA NumbersFinite ==
    ASSUME NEW n \in Nat
    PROVE  IsFiniteSet(1 .. n) /\ Cardinality(1 .. n) = n
BY FS_Interval

LEMMA KeysOrdered ==
    ASSUME NEW n \in Nat, NEW key \in [1 .. n -> Int], NEW R,
           \A a, b \in 1 .. n : <<a, b>> \in R <=>
              key[a] < key[b] \/ (key[a] = key[b] /\ a < b)
    PROVE  IsOrder(1 .. n, R)
<1>1. \A a \in 1 .. n : key[a] \in Int
  OBVIOUS
<1>2. \A a, b \in 1 .. n : <<a, b>> \in R => ~(<<b, a>> \in R)
  BY <1>1
<1>3. \A a, b \in 1 .. n : a = b \/ <<a, b>> \in R \/ <<b, a>> \in R
  <2> SUFFICES ASSUME NEW a \in 1 .. n, NEW b \in 1 .. n
               PROVE  a = b \/ <<a, b>> \in R \/ <<b, a>> \in R
    OBVIOUS
  <2>1. key[a] \in Int /\ key[b] \in Int
    BY <1>1
  <2>2. \/ a = b
        \/ key[a] < key[b] \/ (key[a] = key[b] /\ a < b)
        \/ key[b] < key[a] \/ (key[b] = key[a] /\ b < a)
    BY <2>1
  <2> QED
    BY <2>2
<1>4. \A a, b, c \in 1 .. n : <<a, b>> \in R /\ <<b, c>> \in R => <<a, c>> \in R
  <2> SUFFICES ASSUME NEW a \in 1 .. n, NEW b \in 1 .. n, NEW c \in 1 .. n,
                      <<a, b>> \in R, <<b, c>> \in R
               PROVE  <<a, c>> \in R
    OBVIOUS
  <2>1. key[a] \in Int /\ key[b] \in Int /\ key[c] \in Int
    BY <1>1
  <2>2. key[a] < key[b] \/ (key[a] = key[b] /\ a < b)
    OBVIOUS
  <2>3. key[b] < key[c] \/ (key[b] = key[c] /\ b < c)
    OBVIOUS
  <2>4. key[a] < key[c] \/ (key[a] = key[c] /\ a < c)
    BY <2>1, <2>2, <2>3
  <2> QED
    BY <2>4
<1> QED
  BY <1>2, <1>3, <1>4 DEF IsOrder

\* b is the history s, of n states, by time.
TimeOrder(n, s, b, order) ==
    /\ order \in [1 .. n -> 1 .. n]
    /\ \A i \in 1 .. n : b[i] = s[order[i]]
    /\ \A i, j \in 1 .. n : i < j =>
          \/ s[order[i]].at < s[order[j]].at
          \/ s[order[i]].at = s[order[j]].at /\ order[i] < order[j]
    /\ \A k \in 1 .. n : \E i \in 1 .. n : order[i] = k

\* Every state of the history has a time.
Timed(s) == \A i \in DOMAIN s : s[i].at \in Int

\* The order of a history by time.
LEMMA ByTimeOrders ==
    ASSUME NEW T, NEW s \in Seq(T), Timed(s), NEW b, b = ByTime(s)
    PROVE  /\ b \in Seq(T) /\ Len(b) = Len(s)
           /\ \E order : TimeOrder(Len(s), s, b, order)
<1>1. PICK n \in Nat : n = Len(s) /\ DOMAIN s = 1 .. n
  OBVIOUS
<1>2. IsFiniteSet(1 .. n)
  BY NumbersFinite
<1>3. PICK R : R = Earlier(s)
  OBVIOUS
<1>4. PICK key \in [1 .. n -> Int] : \A i \in 1 .. n : key[i] = s[i].at
  <2>1. [i \in 1 .. n |-> s[i].at] \in [1 .. n -> Int]
    BY <1>1 DEF Timed
  <2> QED
    BY <2>1
<1>5. IsOrder(1 .. n, R)
  <2>1. \A c, d \in 1 .. n : <<c, d>> \in R <=>
           key[c] < key[d] \/ (key[c] = key[d] /\ c < d)
    BY <1>1, <1>3, <1>4 DEF Earlier
  <2> QED
    BY <2>1, KeysOrdered
<1>6. PICK S : S = 1 .. n
  OBVIOUS
<1>61. PICK order : order = InOrder(S, R)
  OBVIOUS
<1>62. IsFiniteSet(S) /\ IsOrder(S, R) /\ Cardinality(S) = n
  BY <1>5, <1>6, NumbersFinite
<1>63. /\ order \in Seq(S) /\ Len(order) = Cardinality(S)
       /\ \A i, j \in DOMAIN order : i < j => <<order[i], order[j]>> \in R
       /\ \A x \in S : \E i \in DOMAIN order : order[i] = x
  BY <1>61, <1>62, InOrderSorts
<1>7. /\ order \in Seq(1 .. n) /\ Len(order) = n
      /\ \A i, j \in DOMAIN order : i < j => <<order[i], order[j]>> \in R
      /\ \A x \in 1 .. n : \E i \in DOMAIN order : order[i] = x
  BY <1>6, <1>62, <1>63
<1>8. order \in [1 .. n -> 1 .. n] /\ DOMAIN order = 1 .. n
  <2>1. DOMAIN order = 1 .. n
    BY <1>7
  <2>2. \A i \in 1 .. n : order[i] \in 1 .. n
    <3> HIDE <1>4
    <3> QED
      BY <1>7, <2>1
  <2>3. order = [i \in 1 .. n |-> order[i]]
    BY <1>7, <2>1
  <2> QED
    BY <2>1, <2>2, <2>3
<1>9. b = [i \in 1 .. n |-> s[order[i]]]
  BY <1>1, <1>3, <1>6, <1>61 DEF ByTime
<1>10. b \in Seq(T) /\ Len(b) = n
  BY <1>1, <1>8, <1>9
<1>11. \A i \in 1 .. n : b[i] = s[order[i]]
  BY <1>9
<1>12. \A i, j \in 1 .. n : i < j =>
          \/ s[order[i]].at < s[order[j]].at
          \/ s[order[i]].at = s[order[j]].at /\ order[i] < order[j]
  <2>1. \A i, j \in 1 .. n : i < j => <<order[i], order[j]>> \in R
    BY <1>7, <1>8
  <2>2. \A c, d \in 1 .. n : <<c, d>> \in R =>
           s[c].at < s[d].at \/ (s[c].at = s[d].at /\ c < d)
    BY <1>1, <1>3 DEF Earlier
  <2> QED
    BY <1>8, <2>1, <2>2
<1>13. \A k \in 1 .. n : \E i \in 1 .. n : order[i] = k
  BY <1>7, <1>8
<1>14. TimeOrder(n, s, b, order)
  BY <1>8, <1>11, <1>12, <1>13 DEF TimeOrder
<1> QED
  BY <1>1, <1>10, <1>14

\* A history by time has the states of the history.
LEMMA ByTimeKeeps ==
    ASSUME NEW T, NEW s \in Seq(T), Timed(s), NEW b, b = ByTime(s)
    PROVE  /\ b \in Seq(T) /\ Len(b) = Len(s)
           /\ \A i \in DOMAIN b : \E j \in DOMAIN s : b[i] = s[j]
           /\ \A j \in DOMAIN s : \E i \in DOMAIN b : b[i] = s[j]
<1>1. b \in Seq(T) /\ Len(b) = Len(s)
  BY ByTimeOrders
<1>2. PICK order : TimeOrder(Len(s), s, b, order)
  BY ByTimeOrders
<1>3. DOMAIN s = 1 .. Len(s) /\ DOMAIN b = 1 .. Len(s)
  BY <1>1
<1>4. \A i \in DOMAIN b : order[i] \in DOMAIN s /\ b[i] = s[order[i]]
  BY <1>2, <1>3 DEF TimeOrder
<1>5. \A j \in DOMAIN s : \E i \in DOMAIN b : order[i] = j
  BY <1>2, <1>3 DEF TimeOrder
<1> QED
  BY <1>1, <1>4, <1>5

\* The last state by time is the newest one.
LEMMA LatestIsLast ==
    ASSUME NEW T, NEW s \in Seq(T), Timed(s), s # <<>>, NEW b, b = ByTime(s)
    PROVE  \E k \in Latest(s) : b[Len(s)] = s[k] /\ \A j \in Latest(s) : j <= k
<1>1. PICK n \in Nat : n = Len(s) /\ DOMAIN s = 1 .. n /\ n > 0
  OBVIOUS
<1>2. PICK order : TimeOrder(n, s, b, order)
  BY <1>1, ByTimeOrders
<1>20. n \in 1 .. n
  BY <1>1
<1>21. order \in [1 .. n -> 1 .. n]
  BY <1>2 DEF TimeOrder
<1>3. PICK k \in 1 .. n : k = order[n]
  BY <1>20, <1>21
<1>4. b[n] = s[k]
  BY <1>2, <1>20, <1>3 DEF TimeOrder
<1>5. \A j \in 1 .. n : j = k \/ s[j].at < s[k].at \/ (s[j].at = s[k].at /\ j < k)
  <2> SUFFICES ASSUME NEW j \in 1 .. n
               PROVE  j = k \/ s[j].at < s[k].at \/ (s[j].at = s[k].at /\ j < k)
    OBVIOUS
  <2>1. PICK i \in 1 .. n : order[i] = j
    BY <1>2 DEF TimeOrder
  <2>2. CASE i = n
    BY <1>3, <2>1, <2>2
  <2>3. CASE i < n
    <3>1. \/ s[order[i]].at < s[order[n]].at
          \/ s[order[i]].at = s[order[n]].at /\ order[i] < order[n]
      BY <1>2, <1>20, <2>3 DEF TimeOrder
    <3> QED
      BY <1>3, <2>1, <3>1
  <2>4. i = n \/ i < n
    BY <1>1
  <2> QED
    BY <2>2, <2>3, <2>4
<1>6. \A j \in 1 .. n : s[j].at \in Int
  BY <1>1 DEF Timed
<1>7. \A j \in 1 .. n : s[j].at <= s[k].at
  BY <1>5, <1>6
<1>8. k \in Latest(s)
  BY <1>1, <1>7 DEF Latest
<1>9. \A j \in Latest(s) : j <= k
  <2> SUFFICES ASSUME NEW j \in Latest(s)
               PROVE  j <= k
    OBVIOUS
  <2>1. j \in 1 .. n /\ s[k].at <= s[j].at
    BY <1>1 DEF Latest
  <2>2. s[j].at \in Int /\ s[k].at \in Int
    BY <1>6, <2>1
  <2>3. s[j].at = s[k].at
    BY <1>7, <2>1, <2>2
  <2>4. j = k \/ j < k
    BY <1>5, <2>1, <2>2, <2>3
  <2> QED
    BY <2>1, <2>4
<1> QED
  BY <1>1, <1>4, <1>8, <1>9

\* The newest state is one of the history.
LEMMA NewestStored ==
    ASSUME NEW T, NEW s \in Seq(T), Timed(s), NEW n \in Newest(s)
    PROVE  \/ s = <<>> /\ n = None
           \/ s # <<>> /\ \E i \in DOMAIN s : n = s[i]
<1>1. CASE s = <<>>
  BY <1>1 DEF Newest
<1>2. CASE s # <<>>
  <2>1. Len(s) \in DOMAIN s
    BY <1>2
  <2>2. \A i \in Latest(s) : i \in DOMAIN s
    BY DEF Latest
  <2>3. PICK b : b = ByTime(s)
    OBVIOUS
  <2>4. \E k \in Latest(s) : \A j \in Latest(s) : j <= k
    BY <1>2, <2>3, LatestIsLast
  <2>5. (CHOOSE i \in Latest(s) : \A j \in Latest(s) : j <= i) \in Latest(s)
    BY <2>4
  <2>6. \/ n = s[Len(s)]
        \/ \E i \in Latest(s) : n = s[i]
    BY <1>2, <2>5 DEF Newest, MemoryGetState, SqliteGetState, SqlServerGetState, AzureGetState
  <2> QED
    BY <1>2, <2>1, <2>2, <2>6
<1> QED
  BY <1>1, <1>2

\* The names of the blobs of a history.
LEMMA StampsSorted ==
    ASSUME NEW T, NEW s \in Seq(T), Timed(s),
           NEW p, p = StampsByName(s)
    PROVE  /\ p \in Seq(Ats(s))
           /\ \A i, j \in DOMAIN p : i < j => p[i] < p[j]
           /\ \A a \in Ats(s) : \E i \in DOMAIN p : p[i] = a
           /\ s # <<>> => p # <<>>
<1>1. PICK n \in Nat : n = Len(s) /\ DOMAIN s = 1 .. n
  OBVIOUS
<1>2. PICK S : S = Ats(s)
  OBVIOUS
<1>3. S \subseteq Int /\ (s # <<>> => S # {})
  <2>1. S \subseteq Int
    BY <1>2 DEF Ats, Timed
  <2>2. s # <<>> => s[1].at \in S
    BY <1>1, <1>2 DEF Ats
  <2> QED
    BY <2>1, <2>2
<1>4. IsFiniteSet(S)
  <2>1. IsFiniteSet(1 .. n)
    BY FS_Interval, <1>1
  <2>2. [i \in 1 .. n |-> s[i].at] \in Surjection(1 .. n, S)
    <3>1. \A i \in 1 .. n : s[i].at \in S
      BY <1>1, <1>2 DEF Ats
    <3>2. \A a \in S : \E i \in 1 .. n : s[i].at = a
      BY <1>1, <1>2 DEF Ats
    <3> QED
      BY <3>1, <3>2 DEF Surjection
  <2> QED
    BY <2>1, <2>2, FS_Surjection
<1>5. PICK R : R = {z \in S \X S : z[1] < z[2]}
  OBVIOUS
<1>6. \A a, b \in S : <<a, b>> \in R <=> a < b
  BY <1>5
<1>7. IsOrder(S, R)
  BY <1>3, <1>6 DEF IsOrder
<1>9. p = InOrder(S, R)
  BY <1>2, <1>5 DEF StampsByName
<1>10. /\ p \in Seq(S)
       /\ \A i, j \in DOMAIN p : i < j => <<p[i], p[j]>> \in R
       /\ \A a \in S : \E i \in DOMAIN p : p[i] = a
  BY <1>4, <1>7, <1>9, InOrderSorts
<1>11. \A i, j \in DOMAIN p : i < j => p[i] < p[j]
  <2>1. \A i \in DOMAIN p : p[i] \in S
    BY <1>10
  <2> QED
    BY <1>6, <1>10, <2>1
<1>12. s # <<>> => p # <<>>
  <2> SUFFICES ASSUME s # <<>>, p = <<>>
               PROVE  FALSE
    OBVIOUS
  <2>1. DOMAIN p = {}
    OBVIOUS
  <2> QED
    BY <1>3, <1>10, <2>1
<1> QED
  BY <1>2, <1>10, <1>11, <1>12

\* A history without the blob of one name.
LEMMA WithoutKeeps ==
    ASSUME NEW T, NEW s \in Seq(T), Distinct(s), NEW at, NEW w, w = Without(s, at)
    PROVE  /\ w \in Seq(T)
           /\ \A i \in DOMAIN w : \E j \in DOMAIN s : w[i] = s[j] /\ s[j].at # at
           /\ \A j \in DOMAIN s : s[j].at # at => \E i \in DOMAIN w : w[i] = s[j]
           /\ Distinct(w)
<1>1. CASE at \notin Ats(s)
  <2>1. \A j \in DOMAIN s : s[j].at # at
    BY <1>1 DEF Ats
  <2>2. w = s
    BY <1>1 DEF Without
  <2> QED
    BY <2>1, <2>2
<1>2. CASE at \in Ats(s)
  <2>1. PICK k \in DOMAIN s : k = CHOOSE i \in DOMAIN s : s[i].at = at
    BY <1>2 DEF Ats
  <2>2. s[k].at = at
    BY <1>2, <2>1 DEF Ats
  <2>3. w = SubSeq(s, 1, k - 1) \o SubSeq(s, k + 1, Len(s))
    BY <1>2, <2>1 DEF Without, RemoveAt
  <2>5. k \in 1 .. Len(s) /\ Len(s) \in Nat
    OBVIOUS
  <2>6. /\ SubSeq(s, 1, k - 1) \in Seq(T) /\ Len(SubSeq(s, 1, k - 1)) = k - 1
        /\ \A i \in 1 .. k - 1 : SubSeq(s, 1, k - 1)[i] = s[i]
    BY <2>5
  <2>7. /\ SubSeq(s, k + 1, Len(s)) \in Seq(T) /\ Len(SubSeq(s, k + 1, Len(s))) = Len(s) - k
        /\ \A i \in 1 .. Len(s) - k : SubSeq(s, k + 1, Len(s))[i] = s[k + i]
    BY <2>5
  <2> DEFINE front == SubSeq(s, 1, k - 1)
             back  == SubSeq(s, k + 1, Len(s))
  <2> HIDE DEF front, back
  <2>80. /\ front \in Seq(T) /\ Len(front) = k - 1
         /\ \A i \in 1 .. k - 1 : front[i] = s[i]
    BY <2>6 DEF front
  <2>81. /\ back \in Seq(T) /\ Len(back) = Len(s) - k
         /\ \A i \in 1 .. Len(s) - k : back[i] = s[k + i]
    BY <2>7 DEF back
  <2>82. w = front \o back
    BY <2>3 DEF front, back
  <2>8. w \in Seq(T) /\ Len(w) = Len(s) - 1
    BY <2>5, <2>80, <2>81, <2>82
  <2>9. \A i \in 1 .. Len(w) : w[i] = IF i < k THEN s[i] ELSE s[i + 1]
    <3> SUFFICES ASSUME NEW i \in 1 .. Len(w)
                 PROVE  w[i] = IF i < k THEN s[i] ELSE s[i + 1]
      OBVIOUS
    <3>1. CASE i < k
      <4>1. w[i] = front[i]
        BY <2>5, <2>80, <2>81, <2>82, <2>8, <3>1
      <4> QED
        BY <2>5, <2>80, <3>1, <4>1
    <3>2. CASE ~(i < k)
      <4>1. w[i] = back[i - (k - 1)] /\ i - (k - 1) \in 1 .. Len(s) - k
        BY <2>5, <2>80, <2>81, <2>82, <2>8, <3>2
      <4> QED
        BY <2>5, <2>81, <3>2, <4>1
    <3> QED
      BY <3>1, <3>2
  <2>10. DOMAIN w = 1 .. Len(w) /\ DOMAIN s = 1 .. Len(s)
    BY <2>8
  <2>11. \A j \in DOMAIN s : s[j].at = at => j = k
    BY <2>2 DEF Distinct
  <2>12. \A i \in DOMAIN w : \E j \in DOMAIN s : w[i] = s[j] /\ s[j].at # at
    <3> SUFFICES ASSUME NEW i \in DOMAIN w
                 PROVE  \E j \in DOMAIN s : w[i] = s[j] /\ s[j].at # at
      OBVIOUS
    <3>1. CASE i < k
      <4>1. i \in DOMAIN s /\ w[i] = s[i] /\ i # k
        BY <2>5, <2>8, <2>9, <2>10, <3>1
      <4> QED
        BY <4>1, <2>11
    <3>2. CASE ~(i < k)
      <4>1. i + 1 \in DOMAIN s /\ w[i] = s[i + 1] /\ i + 1 # k
        BY <2>5, <2>8, <2>9, <2>10, <3>2
      <4> QED
        BY <4>1, <2>11
    <3> QED
      BY <3>1, <3>2
  <2>13. \A j \in DOMAIN s : s[j].at # at => \E i \in DOMAIN w : w[i] = s[j]
    <3> SUFFICES ASSUME NEW j \in DOMAIN s, s[j].at # at
                 PROVE  \E i \in DOMAIN w : w[i] = s[j]
      OBVIOUS
    <3>1. CASE j < k
      <4>1. j \in DOMAIN w /\ w[j] = s[j]
        BY <2>5, <2>8, <2>9, <2>10, <3>1
      <4> QED
        BY <4>1
    <3>2. CASE ~(j < k)
      <4>1. j # k
        BY <2>2
      <4>2. j - 1 \in DOMAIN w /\ w[j - 1] = s[j]
        BY <2>5, <2>8, <2>9, <2>10, <3>2, <4>1
      <4> QED
        BY <4>2
    <3> QED
      BY <3>1, <3>2
  <2>14. Distinct(w)
    <3> SUFFICES ASSUME NEW i \in DOMAIN w, NEW j \in DOMAIN w, w[i].at = w[j].at
                 PROVE  i = j
      BY DEF Distinct
    <3>1. PICK a \in DOMAIN s : w[i] = s[a] /\ a = IF i < k THEN i ELSE i + 1
      BY <2>5, <2>8, <2>9, <2>10
    <3>2. PICK b \in DOMAIN s : w[j] = s[b] /\ b = IF j < k THEN j ELSE j + 1
      BY <2>5, <2>8, <2>9, <2>10
    <3>3. a = b
      BY <3>1, <3>2 DEF Distinct
    <3> QED
      BY <2>5, <2>8, <2>10, <3>1, <3>2, <3>3
  <2> QED
    BY <2>8, <2>12, <2>13, <2>14
<1> QED
  BY <1>1, <1>2
-----------------------------------------------------------------------------
(* The inductive invariant.                                                *)

Pcs == Calls \union Ends \union {"idle"}

ReqStates ==
    [op : Ops \union {"none"}, thread : Threads \union {None}, pc : Pcs,
     with : SUBSET Requests, old : Records \union {None}, seen : States \union {None},
     at : Times, todo : Seq(States) \union Seq(Int), found : BOOLEAN,
     target : CopyIds \union {None}, base : SUBSET Requests, missing : SUBSET Requests,
     copied : Nat, behind : BOOLEAN]

Shape ==
    /\ provider \in Providers
    /\ clients \in {"serial", "concurrent"}
    /\ now \in Times
    /\ faults \in 0 .. MaxFaults
    /\ uploads \in Nat
    /\ thread \in [Threads -> Records \union {None}]
    /\ states \in [Threads -> Seq(States)]
    /\ req \in [Requests -> ReqStates]
    /\ owed \in [Threads -> SUBSET Requests]
    /\ born \in [Threads -> SUBSET Requests]
    /\ gone \in SUBSET Threads

(* The calls that a request of each kind makes, of each provider.          *)
PlaceOK(where, r) ==
    /\ r.pc = "idle" => r = NoRequest
    /\ r.pc # "idle" => r.op \in Ops /\ r.thread \in Threads
    /\ r.op = "copy" <=> r.target # None
    /\ r.pc = "find" => r.op \notin Deletes
    /\ r.pc = "insert" => r.op \in Creates
    /\ r.pc \in {"modify", "write"} => r.op \in {"patch", "update", "edit"}
    /\ r.pc \in {"newest", "download", "append"} => r.op = "edit"
    /\ r.pc \in {"remove", "list", "purge"} => r.op \in Deletes
    /\ r.pc \in {"copy", "copyInsert", "copyHistory", "copyNext", "copyUpload"} => r.op = "copy"
    /\ r.pc \in {"list", "purge", "download", "copyUpload"} => where = "azure"
    /\ r.pc \in {"copyInsert", "copyNext"} => where \in {"sqlite", "azure"}
    /\ r.pc \in {"write", "copyHistory"} => where # "memory"
    /\ r.pc \in {"write", "copyInsert", "copyHistory"} => r.old # None
    /\ r.pc \in {"download", "purge", "copyNext", "copyUpload"} => r.todo # <<>>
    /\ r.pc \in {"purge", "download", "copyUpload"} => r.todo \in Seq(Int)
    /\ r.pc = "copyNext" => r.todo \in IF where = "sqlite" THEN Seq(States) ELSE Seq(Int)
    /\ r.pc = "copyUpload" => r.seen # None

CallsOK == \A q \in Requests : PlaceOK(provider, req[q])

(* A copy has an id of its own, which nobody names before it is answered.  *)
NamesOK ==
    /\ \A q \in Requests : req[q].thread \in ClientIds \union Minted \union {None}
    /\ \A p, q \in Requests : req[q].op = "copy" /\ req[p].target = req[q].target => p = q
    /\ \A p, q \in Requests :
          req[q].op = "copy" /\ req[q].pc # "answered" => req[p].thread # req[q].target

(* Requests that overlap know of each other.                               *)
OverlapOK ==
    /\ \A p \in Requests : p \notin req[p].with /\ \A r \in req[p].with : req[r].pc # "idle"
    /\ \A p, q \in Requests :
          p # q /\ InFlight(p) /\ InFlight(q) /\ req[p].thread = req[q].thread =>
              p \in req[q].with
    /\ Serial => \A p, q \in Requests : InFlight(p) /\ InFlight(q) => p = q

(* What the clients were told.                                             *)
TalesOK ==
    /\ \A t \in Threads : \A e \in owed[t] :
          req[e].op = "edit" /\ req[e].pc = "answered" /\ req[e].thread = t
    /\ \A t \in Threads : \A b \in born[t] : b \in Requests /\ req[b].thread = t
    /\ \A t \in gone : \E q \in Requests : req[q].thread = t

Past(r) == r.pc \in {"modify", "write"} \union Ends

\* A state that some edit has added, of the requests rs.
StateOf(rs, x) ==
    /\ x.by \in Requests /\ rs[x.by].op = "edit" /\ x.at = rs[x.by].at
    /\ Past(rs[x.by])

StatesOK ==
    /\ \A t \in Threads : \A i \in DOMAIN states[t] : StateOf(req, states[t][i])
    /\ provider = "azure" => \A t \in Threads : Distinct(states[t])
    /\ \A q \in Requests :
          /\ req[q].seen # None => StateOf(req, req[q].seen)
          /\ req[q].pc = "copyNext" /\ provider = "sqlite" =>
                \A i \in DOMAIN req[q].todo : StateOf(req, req[q].todo[i])

(* The edits that are stored.                                              *)
Held(e, t) == e \in Bys(states[t]) \/ (provider = "azure" /\ req[e].at \in Ats(states[t]))

KeptOK ==
    /\ \A t \in Threads : \A e \in owed[t] : Held(e, t)
    /\ \A e \in Requests :
          req[e].op = "edit" /\ req[e].pc \in {"modify", "write"} /\ Owing(e) =>
              Held(e, req[e].thread)
    /\ \A q \in Requests : req[q].pc \in {"list", "purge"} => owed[req[q].thread] = {}

BornOK ==
    /\ \A t \in Threads : born[t] # {} => thread[t] # None
    /\ Serial => \A q \in Requests : req[q].pc = "insert" => thread[req[q].thread] = None
    /\ provider \in Sql \/ Serial => \A t \in Threads : \A a, b \in born[t] : a = b

\* A thread without an edit, a create or an update of it in flight.
Quiet(t) ==
    \A p \in Requests : InFlight(p) /\ req[p].thread = t =>
        \/ req[p].op \in Deletes \union {"patch", "copy"}
        \/ req[p].op = "edit" /\ req[p].pc = "find"

\* The blobs of the history s are among the names that are left to delete.
Listed(s, todo) == \A i \in DOMAIN s : \E j \in DOMAIN todo : s[i].at = todo[j]

(* What was deleted.                                                       *)
GoneOK ==
    /\ provider \in Sql =>
          /\ \A t \in Threads : thread[t] = None => states[t] = <<>>
          /\ \A q \in Requests : req[q].pc = "copyNext" \/ (req[q].pc = "copyHistory" /\ provider = "sqlite")
                => thread[req[q].target] # None
    /\ \A t \in gone :
          thread[t] = None /\ states[t] = <<>> /\ Quiet(t)
    /\ \A q \in Requests : req[q].pc \in {"list", "purge"} /\ Undisturbed(q) =>
          /\ thread[req[q].thread] = None
          /\ req[q].pc = "purge" => Listed(states[req[q].thread], req[q].todo)

ThreadInv ==
    /\ Shape /\ CallsOK /\ NamesOK /\ OverlapOK /\ TalesOK
    /\ StatesOK /\ KeptOK /\ BornOK /\ GoneOK
-----------------------------------------------------------------------------
(* What a step of a request does to the requests.                          *)

Moved(q) ==
    /\ InFlight(q) /\ req'[q].pc \in Calls \union Ends
    /\ req' \in [Requests -> ReqStates]
    /\ \A p \in Requests : p # q => req'[p] = req[p]
    /\ req'[q].op = req[q].op /\ req'[q].thread = req[q].thread
    /\ req'[q].with = req[q].with /\ req'[q].target = req[q].target
    /\ req'[q].base = req[q].base
    /\ req[q].pc # "find" => req'[q].at = req[q].at
    /\ Past(req[q]) => Past(req'[q])
    /\ UNCHANGED fixed

LEMMA GotoMoves ==
    ASSUME Shape, NEW q \in Requests, InFlight(q), NEW call \in Calls \union Ends,
           Past(req[q]) => call \in {"modify", "write"} \union Ends,
           req' = Goto(q, call), UNCHANGED fixed
    PROVE  /\ Moved(q) /\ req'[q].pc = call
           /\ req'[q].old = req[q].old /\ req'[q].seen = req[q].seen
           /\ req'[q].at = req[q].at /\ req'[q].todo = req[q].todo
<1>1. req \in [Requests -> ReqStates] /\ call \in Pcs
  BY DEF Shape, Pcs
<1>2. req' = [req EXCEPT ![q].pc = call]
  BY DEF Goto
<1>3. req' \in [Requests -> ReqStates]
  <2>1. req[q] \in ReqStates
    BY <1>1
  <2>2. [req[q] EXCEPT !.pc = call] \in ReqStates
    BY <1>1, <2>1 DEF ReqStates
  <2> QED
    BY <1>1, <1>2, <2>2
<1>4. \A p \in Requests : p # q => req'[p] = req[p]
  BY <1>1, <1>2
<1>5. req'[q] = [req[q] EXCEPT !.pc = call] /\ req[q] \in ReqStates
  BY <1>1, <1>2
<1>6. /\ req'[q].pc = call /\ req'[q].op = req[q].op /\ req'[q].thread = req[q].thread
      /\ req'[q].with = req[q].with /\ req'[q].target = req[q].target
      /\ req'[q].base = req[q].base /\ req'[q].old = req[q].old
      /\ req'[q].seen = req[q].seen /\ req'[q].at = req[q].at
      /\ req'[q].todo = req[q].todo
  BY <1>5 DEF ReqStates
<1> QED
  BY <1>3, <1>4, <1>6 DEF Moved, Past
LEMMA SetMoves ==
    ASSUME Shape, NEW q \in Requests, InFlight(q), NEW r \in ReqStates,
           req' = [req EXCEPT ![q] = r], r.pc \in Calls \union Ends,
           r.op = req[q].op, r.thread = req[q].thread, r.with = req[q].with,
           r.target = req[q].target, r.base = req[q].base,
           req[q].pc # "find" => r.at = req[q].at,
           Past(req[q]) => Past(r), UNCHANGED fixed
    PROVE  Moved(q) /\ req'[q] = r
<1>1. req \in [Requests -> ReqStates]
  BY DEF Shape
<1>2. req' \in [Requests -> ReqStates] /\ req'[q] = r
  BY <1>1
<1>3. \A p \in Requests : p # q => req'[p] = req[p]
  BY <1>1
<1> QED
  BY <1>2, <1>3 DEF Moved

\* A record that is stored.
LEMMA PutThreadShape ==
    ASSUME Shape, NEW t \in Threads, NEW record \in Records, PutThread(t, record)
    PROVE  /\ thread' \in [Threads -> Records \union {None}] /\ uploads' \in Nat
           /\ thread'[t] \in Records /\ thread'[t].values = record.values
           /\ \A u \in Threads : u # t => thread'[u] = thread[u]
<1>1. NextTag \in Nat
  BY DEF NextTag, Shape
<1>2. [record EXCEPT !.tag = NextTag] \in Records
      /\ [record EXCEPT !.tag = NextTag].values = record.values
  BY <1>1 DEF Records
<1>3. /\ thread \in [Threads -> Records \union {None}]
      /\ thread' = [thread EXCEPT ![t] = [record EXCEPT !.tag = NextTag]]
      /\ uploads' = NextTag
  BY DEF PutThread, Shape
<1> QED
  BY <1>1, <1>2, <1>3

LEMMA SomeRecord ==
    ASSUME Shape, NEW t \in Threads
    PROVE  thread[t] # None <=> thread[t] \in Records
BY NoneAssumption DEF Shape

\* What an answer tells.
LEMMA AnswerMoves ==
    ASSUME Shape, CallsOK, NEW q \in Requests, InFlight(q), Answer(q), UNCHANGED fixed
    PROVE  /\ Moved(q) /\ PlaceOK(provider, req'[q])
           /\ req'[q].pc = "answered" /\ req'[q].seen = req[q].seen
           /\ req'[q].at = req[q].at
           /\ owed' \in [Threads -> SUBSET Requests]
           /\ born' \in [Threads -> SUBSET Requests]
           /\ gone' = gone
<1>1. req' = Goto(q, "answered")
  BY DEF Answer
<1>2. /\ Moved(q) /\ req'[q].pc = "answered"
      /\ req'[q].old = req[q].old /\ req'[q].seen = req[q].seen
      /\ req'[q].at = req[q].at /\ req'[q].todo = req[q].todo
  BY <1>1, GotoMoves DEF Ends
<1>3. PlaceOK(provider, req[q]) /\ req[q].pc # "idle"
  BY DEF CallsOK, InFlight, Calls
<1>4. PlaceOK(provider, req'[q])
  BY <1>2, <1>3 DEF PlaceOK, Moved
<1>5. req[q].thread \in Threads
  BY <1>3 DEF PlaceOK
<1>6. owed' \in [Threads -> SUBSET Requests] /\ born' \in [Threads -> SUBSET Requests]
  BY <1>5 DEF Answer, Shape
<1> QED
  BY <1>2, <1>4, <1>6 DEF Answer

LEMMA FailsMoves ==
    ASSUME Shape, CallsOK, NEW q \in Requests, InFlight(q), req' = Goto(q, "failed"),
           UNCHANGED fixed
    PROVE  /\ Moved(q) /\ PlaceOK(provider, req'[q])
           /\ req'[q].pc = "failed" /\ req'[q].seen = req[q].seen
           /\ req'[q].at = req[q].at
<1>2. /\ Moved(q) /\ req'[q].pc = "failed"
      /\ req'[q].old = req[q].old /\ req'[q].seen = req[q].seen
      /\ req'[q].at = req[q].at /\ req'[q].todo = req[q].todo
  BY GotoMoves DEF Ends
<1>3. PlaceOK(provider, req[q]) /\ req[q].pc # "idle"
  BY DEF CallsOK, InFlight, Calls
<1>4. PlaceOK(provider, req'[q])
  BY <1>2, <1>3 DEF PlaceOK, Moved
<1> QED
  BY <1>2, <1>4

\* A state of q's thread is named by its request and time.
LEMMA MadeState ==
    ASSUME Shape, NEW q \in Requests
    PROVE  /\ MergedValues(q) \in Seq(Requests)
           /\ [by |-> q, at |-> req[q].at, values |-> MergedValues(q)] \in States
<1>1. req[q].seen \in States \union {None} /\ req[q].at \in Times
  BY DEF Shape, ReqStates
<1>2. MergedValues(q) \in Seq(Requests)
  <2>1. CASE req[q].seen = None
    BY <2>1 DEF MergedValues
  <2>2. CASE req[q].seen # None
    <3>1. req[q].seen.values \in Seq(Requests)
      BY <1>1, <2>2 DEF States
    <3> QED
      BY <2>2, <3>1 DEF MergedValues
  <2> QED
    BY <2>1, <2>2
<1> QED
  BY <1>1, <1>2 DEF States

LEMMA MergedRecord ==
    ASSUME Shape, NEW q \in Requests, NEW record \in Records
    PROVE  Merged(q, record) \in Records
<1>1. MergedValues(q) \in Seq(Requests)
  BY MadeState
<1> QED
  BY <1>1 DEF Merged, Records

LEMMA StateTypes ==
    ASSUME Shape, NEW t \in Threads
    PROVE  /\ states[t] \in Seq(States) /\ Timed(states[t])
           /\ \A i \in DOMAIN states[t] : states[t][i] \in States
<1>1. states[t] \in Seq(States)
  BY DEF Shape
<1>2. \A i \in DOMAIN states[t] : states[t][i] \in States
  BY <1>1
<1>3. \A x \in States : x.at \in Int
  BY DEF States, Times
<1> QED
  BY <1>1, <1>2, <1>3 DEF Timed

LEMMA FindToCreateMoves ==
    ASSUME ThreadInv, NEW q \in Requests, FindToCreate(q)
    PROVE  Moved(q) /\ PlaceOK(provider, req'[q]) /\ Shape'
<1>1. Shape /\ CallsOK /\ InFlight(q) /\ req[q].pc = "find" /\ req[q].op \in Creates /\ UNCHANGED fixed
  BY DEF ThreadInv, FindToCreate, InFlight, Calls
<1>2. CASE Answer(q)
  <2>1. /\ Moved(q) /\ PlaceOK(provider, req'[q])
        /\ owed' \in [Threads -> SUBSET Requests]
        /\ born' \in [Threads -> SUBSET Requests] /\ gone' = gone
    BY <1>1, <1>2, AnswerMoves
  <2> QED
    BY <1>1, <2>1 DEF FindToCreate, Shape, Moved, store, fixed
<1>3. CASE \E call \in {"insert", "failed", "modify"} :
             req' = Goto(q, call) /\ UNCHANGED ghost
             /\ (call = "modify" => req[q].op = "update")
  <2>1. PICK call \in {"insert", "failed", "modify"} :
             req' = Goto(q, call) /\ UNCHANGED ghost
             /\ (call = "modify" => req[q].op = "update")
    BY <1>3
  <2>2. ~Past(req[q]) /\ call \in Calls \union Ends
    BY <1>1 DEF Past, Ends, Calls
  <2>3. /\ Moved(q) /\ req'[q].pc = call
        /\ req'[q].old = req[q].old /\ req'[q].seen = req[q].seen
        /\ req'[q].at = req[q].at /\ req'[q].todo = req[q].todo
    BY <1>1, <2>1, <2>2, GotoMoves
  <2>4. PlaceOK(provider, req[q])
    BY <1>1 DEF CallsOK
  <2>5. PlaceOK(provider, req'[q])
    BY <1>1, <2>1, <2>3, <2>4 DEF PlaceOK, Moved
  <2> QED
    BY <1>1, <2>1, <2>3, <2>5 DEF FindToCreate, Shape, Moved, store, fixed, ghost
<1>4. Answer(q) \/ \E call \in {"insert", "failed", "modify"} :
             req' = Goto(q, call) /\ UNCHANGED ghost
             /\ (call = "modify" => req[q].op = "update")
  BY <1>1 DEF FindToCreate, Creates
<1> QED
  BY <1>2, <1>3, <1>4

LEMMA InsertMoves ==
    ASSUME ThreadInv, NEW q \in Requests, Insert(q)
    PROVE  Moved(q) /\ PlaceOK(provider, req'[q]) /\ Shape'
<1>1. Shape /\ CallsOK /\ InFlight(q) /\ req[q].pc = "insert"
  BY DEF ThreadInv, Insert, InFlight, Calls
<1>2. CASE Fails(q)
  <2>1. Moved(q) /\ PlaceOK(provider, req'[q])
    BY <1>1, <1>2, FailsMoves DEF Fails
  <2> QED
    BY <1>1, <1>2, <2>1 DEF Fails, Shape, Moved, store, fixed, ghost
<1>3. CASE /\ PutThread(req[q].thread, [meta |-> q, values |-> <<>>, tag |-> 0])
           /\ Answer(q) /\ UNCHANGED <<fixed, now, faults, states>>
  <2>1. /\ Moved(q) /\ PlaceOK(provider, req'[q])
        /\ owed' \in [Threads -> SUBSET Requests]
        /\ born' \in [Threads -> SUBSET Requests] /\ gone' = gone
    BY <1>1, <1>3, AnswerMoves
  <2>2. [meta |-> q, values |-> <<>>, tag |-> 0] \in Records
    BY DEF Records
  <2>3. req[q].thread \in Threads
    BY <1>1 DEF CallsOK, PlaceOK
  <2>4. thread' \in [Threads -> Records \union {None}] /\ uploads' \in Nat
    BY <1>1, <1>3, <2>2, <2>3, PutThreadShape
  <2> QED
    BY <1>1, <1>3, <2>1, <2>4 DEF Shape, Moved, fixed
<1> QED
  BY <1>2, <1>3 DEF Insert

LEMMA FindToPatchMoves ==
    ASSUME ThreadInv, NEW q \in Requests, FindToPatch(q)
    PROVE  Moved(q) /\ PlaceOK(provider, req'[q]) /\ Shape'
<1>1. Shape /\ CallsOK /\ InFlight(q) /\ req[q].pc = "find" /\ req[q].op = "patch" /\ UNCHANGED fixed
  BY DEF ThreadInv, FindToPatch, InFlight, Calls
<1>2. PICK call \in {"failed", "modify"} : req' = Goto(q, call)
  BY DEF FindToPatch
<1>3. ~Past(req[q]) /\ call \in Calls \union Ends
  BY <1>1 DEF Past, Ends, Calls
<1>4. /\ Moved(q) /\ req'[q].pc = call
      /\ req'[q].old = req[q].old /\ req'[q].seen = req[q].seen
      /\ req'[q].at = req[q].at /\ req'[q].todo = req[q].todo
  BY <1>1, <1>2, <1>3, GotoMoves
<1>5. PlaceOK(provider, req[q])
  BY <1>1 DEF CallsOK
<1>6. PlaceOK(provider, req'[q])
  BY <1>1, <1>2, <1>4, <1>5 DEF PlaceOK, Moved
<1> QED
  BY <1>1, <1>4, <1>6 DEF FindToPatch, Shape, Moved, store, fixed, ghost

LEMMA ModifyMoves ==
    ASSUME ThreadInv, NEW q \in Requests, Modify(q)
    PROVE  Moved(q) /\ PlaceOK(provider, req'[q]) /\ Shape'
<1>1. /\ Shape /\ CallsOK /\ InFlight(q) /\ req[q].pc = "modify"
      /\ UNCHANGED fixed /\ now' = now /\ faults' = faults
  BY DEF ThreadInv, Modify, InFlight, Calls, fixed
<1>2. PlaceOK(provider, req[q]) /\ req[q].thread \in Threads /\ req[q] \in ReqStates
  BY <1>1 DEF CallsOK, PlaceOK, Shape
<1>3. CASE thread[req[q].thread] = None /\ ModifyMissing(q) /\ UNCHANGED store
  <2>1. CASE Answer(q)
    <3>1. /\ Moved(q) /\ PlaceOK(provider, req'[q])
          /\ owed' \in [Threads -> SUBSET Requests]
          /\ born' \in [Threads -> SUBSET Requests] /\ gone' = gone
      BY <1>1, <2>1, AnswerMoves
    <3> QED
      BY <1>1, <1>3, <3>1 DEF Shape, Moved, store, fixed
  <2>2. CASE req' = Goto(q, "failed") /\ UNCHANGED ghost
    <3>1. Moved(q) /\ PlaceOK(provider, req'[q])
      BY <1>1, <2>2, FailsMoves
    <3> QED
      BY <1>1, <1>3, <2>2, <3>1 DEF Shape, Moved, store, fixed, ghost
  <2> QED
    BY <1>3, <2>1, <2>2 DEF ModifyMissing
<1>4. CASE thread[req[q].thread] # None /\ MemoryUpdate(q)
  <2>1. /\ Moved(q) /\ PlaceOK(provider, req'[q])
        /\ owed' \in [Threads -> SUBSET Requests]
        /\ born' \in [Threads -> SUBSET Requests] /\ gone' = gone
    BY <1>1, <1>4, AnswerMoves DEF MemoryUpdate
  <2>2. Merged(q, thread[req[q].thread]) \in Records
    BY <1>1, <1>2, <1>4, SomeRecord, MergedRecord
  <2>3. thread' \in [Threads -> Records \union {None}] /\ uploads' \in Nat
    BY <1>1, <1>2, <1>4, <2>2, PutThreadShape DEF MemoryUpdate
  <2> QED
    BY <1>1, <1>4, <2>1, <2>3 DEF MemoryUpdate, Shape, Moved, fixed
<1>5. CASE thread[req[q].thread] # None /\ UpdateReads(q)
  <2> DEFINE r == [req[q] EXCEPT !.pc = "write", !.old = thread[req[q].thread]]
  <2>1. thread[req[q].thread] \in Records
    BY <1>1, <1>2, <1>5, SomeRecord
  <2>2. r \in ReqStates
    BY <1>2, <2>1 DEF ReqStates, Pcs, Calls
  <2>3. req' = [req EXCEPT ![q] = r]
    BY <1>5 DEF UpdateReads
  <2>4. /\ r.pc = "write" /\ r.old = thread[req[q].thread]
        /\ r.op = req[q].op /\ r.thread = req[q].thread /\ r.with = req[q].with
        /\ r.target = req[q].target /\ r.base = req[q].base /\ r.at = req[q].at
        /\ r.seen = req[q].seen /\ r.todo = req[q].todo
    BY <1>2 DEF ReqStates
  <2>5. PlaceOK(provider, r)
    BY <1>1, <1>2, <1>5, <2>4 DEF PlaceOK, UpdateReads
  <2> HIDE DEF r
  <2>6. Moved(q) /\ req'[q] = r
    BY <1>1, <2>2, <2>3, <2>4, SetMoves DEF Past, Calls
  <2> QED
    BY <1>1, <1>5, <2>5, <2>6 DEF UpdateReads, Shape, Moved, store, fixed, ghost
<1> QED
  BY <1>3, <1>4, <1>5 DEF Modify

LEMMA WriteMoves ==
    ASSUME ThreadInv, NEW q \in Requests, Write(q)
    PROVE  Moved(q) /\ PlaceOK(provider, req'[q]) /\ Shape'
<1>1. /\ Shape /\ CallsOK /\ InFlight(q) /\ req[q].pc = "write"
      /\ UNCHANGED fixed /\ now' = now /\ faults' = faults /\ states' = states
  BY DEF ThreadInv, Write, InFlight, Calls, fixed
<1>2. PlaceOK(provider, req[q]) /\ req[q].thread \in Threads /\ req[q] \in ReqStates
  BY <1>1 DEF CallsOK, PlaceOK, Shape
<1>3. req[q].old \in Records
  BY <1>1, <1>2, NoneAssumption DEF PlaceOK, ReqStates
<1>4. Merged(q, req[q].old) \in Records
  BY <1>1, <1>3, MergedRecord
<1>5. CASE Answer(q) /\ \/ PutThread(req[q].thread, Merged(q, req[q].old))
                        \/ UNCHANGED <<thread, uploads>>
  <2>1. /\ Moved(q) /\ PlaceOK(provider, req'[q])
        /\ owed' \in [Threads -> SUBSET Requests]
        /\ born' \in [Threads -> SUBSET Requests] /\ gone' = gone
    BY <1>1, <1>5, AnswerMoves
  <2>2. thread' \in [Threads -> Records \union {None}] /\ uploads' \in Nat
    <3>1. CASE PutThread(req[q].thread, Merged(q, req[q].old))
      BY <1>1, <1>2, <1>4, <3>1, PutThreadShape
    <3> QED
      BY <1>1, <1>5, <3>1 DEF Shape
  <2> QED
    BY <1>1, <2>1, <2>2 DEF Shape, Moved, fixed
<1>6. CASE req' = Goto(q, "failed") /\ UNCHANGED <<thread, uploads, ghost>>
  <2>1. Moved(q) /\ PlaceOK(provider, req'[q])
    BY <1>1, <1>6, FailsMoves
  <2> QED
    BY <1>1, <1>6, <2>1 DEF Shape, Moved, fixed, ghost
<1> QED
  BY <1>5, <1>6 DEF Write, SqlUpdateWrites, AzureUpdateWrites

LEMMA FindToEditMoves ==
    ASSUME ThreadInv, NEW q \in Requests, FindToEdit(q)
    PROVE  Moved(q) /\ PlaceOK(provider, req'[q]) /\ Shape'
<1>1. /\ Shape /\ CallsOK /\ InFlight(q) /\ req[q].pc = "find" /\ req[q].op = "edit"
      /\ UNCHANGED <<fixed, now, faults, store, ghost>>
  BY DEF ThreadInv, FindToEdit, InFlight, Calls
<1>2. PlaceOK(provider, req[q]) /\ req[q] \in ReqStates
  BY <1>1 DEF CallsOK, Shape
<1>3. CASE req' = Goto(q, "failed")
  <2>1. Moved(q) /\ PlaceOK(provider, req'[q])
    BY <1>1, <1>3, FailsMoves
  <2> QED
    BY <1>1, <2>1 DEF Shape, Moved, fixed, store, ghost
<1>4. CASE req' = [req EXCEPT ![q].pc = "newest", ![q].at = now]
  <2> DEFINE r == [req[q] EXCEPT !.pc = "newest", !.at = now]
  <2>1. r \in ReqStates
    BY <1>1, <1>2 DEF ReqStates, Pcs, Calls, Shape
  <2>2. req' = [req EXCEPT ![q] = r]
    BY <1>4
  <2>3. /\ r.pc = "newest" /\ r.old = req[q].old
        /\ r.op = req[q].op /\ r.thread = req[q].thread /\ r.with = req[q].with
        /\ r.target = req[q].target /\ r.base = req[q].base
        /\ r.seen = req[q].seen /\ r.todo = req[q].todo
    BY <1>2 DEF ReqStates
  <2>4. PlaceOK(provider, r)
    BY <1>1, <1>2, <2>3 DEF PlaceOK
  <2> HIDE DEF r
  <2>5. Moved(q) /\ req'[q] = r
    BY <1>1, <2>1, <2>2, <2>3, SetMoves DEF Past, Calls, Ends
  <2> QED
    BY <1>1, <2>4, <2>5 DEF Shape, Moved, store, fixed, ghost
<1> QED
  BY <1>3, <1>4 DEF FindToEdit

LEMMA ReadNewestMoves ==
    ASSUME ThreadInv, NEW q \in Requests, ReadNewest(q)
    PROVE  Moved(q) /\ PlaceOK(provider, req'[q]) /\ Shape'
<1>1. /\ Shape /\ CallsOK /\ InFlight(q) /\ req[q].pc = "newest" /\ req[q].op = "edit"
      /\ req[q].thread \in Threads
      /\ UNCHANGED <<fixed, now, faults, store, ghost>>
  BY DEF ThreadInv, ReadNewest, InFlight, Calls, CallsOK, PlaceOK
<1>2. PlaceOK(provider, req[q]) /\ req[q] \in ReqStates
  BY <1>1 DEF CallsOK, Shape
<1> DEFINE s == states[req[q].thread]
<1>3. /\ s \in Seq(States) /\ Timed(s) /\ \A i \in DOMAIN s : s[i] \in States
  BY <1>1, StateTypes
<1>4. CASE /\ provider = "azure" /\ s # <<>>
           /\ req' = [req EXCEPT ![q].pc = "download", ![q].todo = <<Last(StampsByName(s))>>]
  <2>1. PICK p : p = StampsByName(s)
    OBVIOUS
  <2>2. p \in Seq(Ats(s)) /\ p # <<>>
    BY <1>3, <1>4, <2>1, StampsSorted
  <2>3. Ats(s) \subseteq Int
    BY <1>3 DEF Ats, Timed
  <2>4. Last(p) \in Int
    BY <2>2, <2>3 DEF Last
  <2> DEFINE r == [req[q] EXCEPT !.pc = "download", !.todo = <<Last(p)>>]
  <2>5. <<Last(p)>> \in Seq(Int)
    BY <2>4
  <2>6. r \in ReqStates
    BY <1>1, <1>2, <2>5 DEF ReqStates, Pcs, Calls
  <2>7. req' = [req EXCEPT ![q] = r]
    BY <1>4, <2>1
  <2>8. /\ r.pc = "download" /\ r.old = req[q].old /\ r.at = req[q].at
        /\ r.op = req[q].op /\ r.thread = req[q].thread /\ r.with = req[q].with
        /\ r.target = req[q].target /\ r.base = req[q].base
        /\ r.seen = req[q].seen /\ r.todo = <<Last(p)>>
    BY <1>2 DEF ReqStates
  <2>9. PlaceOK(provider, r)
    <3>1. <<Last(p)>> # <<>>
      OBVIOUS
    <3> HIDE DEF r
    <3> QED
      BY <1>1, <1>2, <1>4, <2>5, <2>8, <3>1 DEF PlaceOK
  <2> HIDE DEF r
  <2>10. Moved(q) /\ req'[q] = r
    BY <1>1, <2>6, <2>7, <2>8, SetMoves DEF Past, Calls, Ends
  <2> QED
    BY <1>1, <2>9, <2>10 DEF Shape, Moved, store, fixed, ghost
<1>5. CASE \E n \in Newest(s) : req' = GotoWith(q, "append", n)
  <2>1. PICK n \in Newest(s) : req' = GotoWith(q, "append", n)
    BY <1>5
  <2>2. n \in States \union {None}
    BY <1>3, NewestStored
  <2> DEFINE r == [req[q] EXCEPT !.pc = "append", !.seen = n]
  <2>3. r \in ReqStates
    BY <1>1, <1>2, <2>2 DEF ReqStates, Pcs, Calls
  <2>4. req' = [req EXCEPT ![q] = r]
    BY <2>1 DEF GotoWith
  <2>5. /\ r.pc = "append" /\ r.old = req[q].old /\ r.at = req[q].at
        /\ r.op = req[q].op /\ r.thread = req[q].thread /\ r.with = req[q].with
        /\ r.target = req[q].target /\ r.base = req[q].base
        /\ r.seen = n /\ r.todo = req[q].todo
    BY <1>2 DEF ReqStates
  <2>6. PlaceOK(provider, r)
    BY <1>1, <1>2, <2>5 DEF PlaceOK
  <2> HIDE DEF r
  <2>7. Moved(q) /\ req'[q] = r
    BY <1>1, <2>3, <2>4, <2>5, SetMoves DEF Past, Calls, Ends
  <2> QED
    BY <1>1, <2>6, <2>7 DEF Shape, Moved, store, fixed, ghost
<1> QED
  BY <1>4, <1>5 DEF ReadNewest

\* The blob of a name.
LEMMA BlobStored ==
    ASSUME Shape, NEW t \in Threads, NEW at
    PROVE  \/ Blob(t, at) = None /\ at \notin Ats(states[t])
           \/ /\ at \in Ats(states[t])
              /\ \E i \in DOMAIN states[t] : Blob(t, at) = states[t][i] /\ states[t][i].at = at
<1>1. CASE at \notin Ats(states[t])
  BY <1>1 DEF Blob
<1>2. CASE at \in Ats(states[t])
  <2>1. \E i \in DOMAIN states[t] : states[t][i].at = at
    BY <1>2 DEF Ats
  <2>2. PICK k \in DOMAIN states[t] :
           k = CHOOSE i \in DOMAIN states[t] : states[t][i].at = at
    BY <2>1
  <2>3. states[t][k].at = at
    BY <2>1, <2>2
  <2>4. Blob(t, at) = states[t][k]
    BY <1>2, <2>2 DEF Blob
  <2> QED
    BY <1>2, <2>3, <2>4
<1> QED
  BY <1>1, <1>2

LEMMA DownloadNewestMoves ==
    ASSUME ThreadInv, NEW q \in Requests, DownloadNewest(q)
    PROVE  Moved(q) /\ PlaceOK(provider, req'[q]) /\ Shape'
<1>1. /\ Shape /\ CallsOK /\ InFlight(q) /\ req[q].pc = "download" /\ req[q].op = "edit"
      /\ req[q].thread \in Threads
      /\ UNCHANGED <<fixed, now, faults, store, ghost>>
  BY DEF ThreadInv, DownloadNewest, InFlight, Calls, CallsOK, PlaceOK
<1>2. PlaceOK(provider, req[q]) /\ req[q] \in ReqStates
  BY <1>1 DEF CallsOK, Shape
<1>3. PICK n : n = Blob(req[q].thread, Head(req[q].todo))
  OBVIOUS
<1>4. n \in States \union {None}
  BY <1>1, <1>3, BlobStored, StateTypes
<1> DEFINE r == [req[q] EXCEPT !.pc = "append", !.todo = <<>>, !.seen = n]
<1>5. r \in ReqStates
  <2>1. <<>> \in Seq(States)
    OBVIOUS
  <2> QED
    BY <1>1, <1>2, <1>4, <2>1 DEF ReqStates, Pcs, Calls
<1>6. req' = [req EXCEPT ![q] = r]
  BY <1>3 DEF DownloadNewest
<1>7. /\ r.pc = "append" /\ r.old = req[q].old /\ r.at = req[q].at
      /\ r.op = req[q].op /\ r.thread = req[q].thread /\ r.with = req[q].with
      /\ r.target = req[q].target /\ r.base = req[q].base
      /\ r.seen = n
  BY <1>2 DEF ReqStates
<1>8. PlaceOK(provider, r)
  <2> HIDE DEF r
  <2> QED
    BY <1>1, <1>2, <1>7 DEF PlaceOK
<1> HIDE DEF r
<1>9. Moved(q) /\ req'[q] = r
  BY <1>1, <1>5, <1>6, <1>7, SetMoves DEF Past, Calls, Ends
<1> QED
  BY <1>1, <1>8, <1>9 DEF Shape, Moved, store, fixed, ghost

\* A history with one more state.
LEMMA AddStateShape ==
    ASSUME Shape, StatesOK, NEW t \in Threads, NEW x \in States
    PROVE  AddState(states[t], x) \in Seq(States)
           /\ (provider = "azure" => AzureAddState(states[t], x) \in Seq(States))
<1>1. states[t] \in Seq(States)
  BY StateTypes
<1>2. CASE provider = "azure"
  <2>1. PICK w : w = Without(states[t], x.at)
    OBVIOUS
  <2>2. w \in Seq(States)
    BY <1>1, <1>2, <2>1, WithoutKeeps DEF StatesOK
  <2> QED
    BY <1>2, <2>1, <2>2 DEF AddState, AzureAddState
<1>3. CASE provider # "azure"
  BY <1>1, <1>3 DEF AddState
<1> QED
  BY <1>2, <1>3

LEMMA AppendStateMoves ==
    ASSUME ThreadInv, NEW q \in Requests, AppendState(q)
    PROVE  Moved(q) /\ PlaceOK(provider, req'[q]) /\ Shape'
<1>1. /\ Shape /\ CallsOK /\ StatesOK /\ InFlight(q) /\ req[q].pc = "append"
      /\ req[q].op = "edit" /\ req[q].thread \in Threads
  BY DEF ThreadInv, AppendState, InFlight, Calls, CallsOK, PlaceOK
<1>2. PlaceOK(provider, req[q])
  BY <1>1 DEF CallsOK
<1>3. CASE Fails(q)
  <2>1. Moved(q) /\ PlaceOK(provider, req'[q])
    BY <1>1, <1>3, FailsMoves DEF Fails
  <2> QED
    BY <1>1, <1>3, <2>1 DEF Fails, Shape, Moved, store, fixed, ghost
<1>4. CASE ~(provider \in Sql /\ thread[req[q].thread] = None)
  <2>1. PICK x : x = [by |-> q, at |-> req[q].at, values |-> MergedValues(q)]
    OBVIOUS
  <2>2. x \in States
    BY <1>1, <2>1, MadeState
  <2>3. /\ states' = [states EXCEPT ![req[q].thread] = AddState(states[req[q].thread], x)]
        /\ req' = Goto(q, "modify")
        /\ UNCHANGED <<fixed, now, faults, thread, uploads, ghost>>
    BY <1>4, <2>1 DEF AppendState
  <2>4. AddState(states[req[q].thread], x) \in Seq(States)
    BY <1>1, <2>2, AddStateShape
  <2>5. states' \in [Threads -> Seq(States)]
    BY <1>1, <2>3, <2>4 DEF Shape
  <2>6. /\ Moved(q) /\ req'[q].pc = "modify"
        /\ req'[q].old = req[q].old /\ req'[q].seen = req[q].seen
        /\ req'[q].at = req[q].at /\ req'[q].todo = req[q].todo
    BY <1>1, <2>3, GotoMoves DEF Past, Ends, Calls
  <2>7. PlaceOK(provider, req'[q])
    BY <1>1, <1>2, <2>6 DEF PlaceOK, Moved
  <2> QED
    BY <1>1, <2>3, <2>5, <2>6, <2>7 DEF Shape, Moved, fixed, ghost
<1> QED
  BY <1>3, <1>4 DEF AppendState

LEMMA RemovedMoves ==
    ASSUME Shape, CallsOK, NEW q \in Requests, NEW found, Removed(q, found), UNCHANGED fixed,
           req[q].pc \in {"remove", "list", "purge"}
    PROVE  /\ Moved(q) /\ PlaceOK(provider, req'[q])
           /\ req'[q].pc \in Ends /\ req'[q].seen = req[q].seen
           /\ req'[q].at = req[q].at
           /\ gone' \in SUBSET Threads
<1>1. PICK call \in Ends : call = RemoveAnswer(q, found)
  BY DEF RemoveAnswer, Ends
<1>2. InFlight(q) /\ PlaceOK(provider, req[q]) /\ req[q].thread \in Threads /\ req[q].pc # "idle"
  BY DEF CallsOK, PlaceOK, InFlight, Calls
<1>3. req' = Goto(q, call)
  BY <1>1 DEF Removed
<1>4. /\ Moved(q) /\ req'[q].pc = call
      /\ req'[q].old = req[q].old /\ req'[q].seen = req[q].seen
      /\ req'[q].at = req[q].at /\ req'[q].todo = req[q].todo
  BY <1>2, <1>3, GotoMoves DEF Ends
<1>5. PlaceOK(provider, req'[q])
  BY <1>1, <1>2, <1>4 DEF PlaceOK, Moved, Ends
<1>6. gone' \in SUBSET Threads
  BY <1>2 DEF Removed, Shape
<1> QED
  BY <1>1, <1>4, <1>5, <1>6

LEMMA RemoveThreadMoves ==
    ASSUME ThreadInv, NEW q \in Requests, RemoveThread(q)
    PROVE  Moved(q) /\ PlaceOK(provider, req'[q]) /\ Shape'
<1>1. /\ Shape /\ CallsOK /\ InFlight(q) /\ req[q].pc = "remove"
      /\ req[q].thread \in Threads
      /\ UNCHANGED <<fixed, now, faults, uploads>> /\ Forget(req[q].thread)
  BY DEF ThreadInv, RemoveThread, InFlight, Calls, CallsOK, PlaceOK
<1>2. PlaceOK(provider, req[q]) /\ req[q] \in ReqStates
  BY <1>1 DEF CallsOK, Shape
<1>3. /\ owed' \in [Threads -> SUBSET Requests] /\ born' \in [Threads -> SUBSET Requests]
  BY <1>1 DEF Forget, Shape
<1>4. CASE RemoveAtOnce(q)
  <2>1. /\ thread' = [thread EXCEPT ![req[q].thread] = None]
        /\ states' = [states EXCEPT ![req[q].thread] = <<>>]
        /\ Removed(q, thread[req[q].thread] # None)
    BY <1>4 DEF RemoveAtOnce
  <2>2. Moved(q) /\ PlaceOK(provider, req'[q]) /\ gone' \in SUBSET Threads
    BY <1>1, <2>1, RemovedMoves DEF fixed
  <2>3. <<>> \in Seq(States)
    OBVIOUS
  <2>4. states' \in [Threads -> Seq(States)] /\ thread' \in [Threads -> Records \union {None}]
    BY <1>1, <2>1, <2>3 DEF Shape
  <2> QED
    BY <1>1, <1>3, <2>2, <2>4 DEF Shape, Moved, fixed
<1>5. CASE AzureRemove(q)
  <2>1. PICK found \in BOOLEAN : found = (thread[req[q].thread] # None)
    OBVIOUS
  <2> DEFINE r == [req[q] EXCEPT !.pc = "list", !.found = found]
  <2>2. r \in ReqStates
    BY <1>2 DEF ReqStates, Pcs, Calls
  <2>3. /\ req' = [req EXCEPT ![q] = r] /\ states' = states /\ gone' = gone
        /\ thread' = [thread EXCEPT ![req[q].thread] = None] /\ provider = "azure"
    BY <1>5, <2>1 DEF AzureRemove
  <2>4. /\ r.pc = "list" /\ r.old = req[q].old /\ r.at = req[q].at
        /\ r.op = req[q].op /\ r.thread = req[q].thread /\ r.with = req[q].with
        /\ r.target = req[q].target /\ r.base = req[q].base
        /\ r.seen = req[q].seen /\ r.todo = req[q].todo
    BY <1>2 DEF ReqStates
  <2> HIDE DEF r
  <2>5. PlaceOK(provider, r)
    BY <1>1, <1>2, <2>3, <2>4 DEF PlaceOK
  <2>6. Moved(q) /\ req'[q] = r
    BY <1>1, <2>2, <2>3, <2>4, SetMoves DEF Past, Calls, Ends, fixed
  <2>7. thread' \in [Threads -> Records \union {None}]
    BY <1>1, <2>3 DEF Shape
  <2> QED
    BY <1>1, <1>3, <2>3, <2>5, <2>6, <2>7 DEF Shape, Moved, fixed
<1> QED
  BY <1>4, <1>5 DEF RemoveThread

LEMMA ListHistoryMoves ==
    ASSUME ThreadInv, NEW q \in Requests, ListHistory(q)
    PROVE  Moved(q) /\ PlaceOK(provider, req'[q]) /\ Shape'
<1>1. /\ Shape /\ CallsOK /\ InFlight(q) /\ req[q].pc = "list"
      /\ req[q].thread \in Threads /\ provider = "azure"
      /\ UNCHANGED <<fixed, now, faults, store, owed, born>>
  BY DEF ThreadInv, ListHistory, InFlight, Calls, CallsOK, PlaceOK
<1>2. PlaceOK(provider, req[q]) /\ req[q] \in ReqStates
  BY <1>1 DEF CallsOK, Shape
<1>3. CASE Removed(q, req[q].found)
  <2>1. Moved(q) /\ PlaceOK(provider, req'[q]) /\ gone' \in SUBSET Threads
    BY <1>1, <1>3, RemovedMoves
  <2> QED
    BY <1>1, <2>1 DEF Shape, Moved, fixed, store
<1>4. CASE /\ states[req[q].thread] # <<>> /\ gone' = gone
           /\ req' = [req EXCEPT ![q].pc = "purge",
                                 ![q].todo = StampsByName(states[req[q].thread])]
  <2> DEFINE s == states[req[q].thread]
  <2>1. PICK p : p = StampsByName(s)
    OBVIOUS
  <2>2. s \in Seq(States) /\ Timed(s)
    BY <1>1, StateTypes
  <2>3. p \in Seq(Ats(s)) /\ p # <<>>
    BY <1>4, <2>1, <2>2, StampsSorted
  <2>4. Ats(s) \subseteq Int
    BY <2>2 DEF Ats, Timed
  <2>5. p \in Seq(Int)
    BY <2>3, <2>4
  <2> DEFINE r == [req[q] EXCEPT !.pc = "purge", !.todo = p]
  <2>6. r \in ReqStates
    BY <1>2, <2>5 DEF ReqStates, Pcs, Calls
  <2>7. req' = [req EXCEPT ![q] = r]
    BY <1>4, <2>1
  <2>8. /\ r.pc = "purge" /\ r.old = req[q].old /\ r.at = req[q].at
        /\ r.op = req[q].op /\ r.thread = req[q].thread /\ r.with = req[q].with
        /\ r.target = req[q].target /\ r.base = req[q].base
        /\ r.seen = req[q].seen /\ r.todo = p
    BY <1>2 DEF ReqStates
  <2> HIDE DEF r
  <2>9. PlaceOK(provider, r)
    BY <1>1, <1>2, <2>3, <2>5, <2>8 DEF PlaceOK
  <2>10. Moved(q) /\ req'[q] = r
    BY <1>1, <2>6, <2>7, <2>8, SetMoves DEF Past, Calls, Ends
  <2> QED
    BY <1>1, <1>4, <2>9, <2>10 DEF Shape, Moved, fixed, store
<1> QED
  BY <1>3, <1>4 DEF ListHistory

LEMMA WithoutShape ==
    ASSUME Shape, StatesOK, NEW t \in Threads, NEW at, provider = "azure"
    PROVE  Without(states[t], at) \in Seq(States)
<1>1. PICK w : w = Without(states[t], at)
  OBVIOUS
<1>2. states[t] \in Seq(States) /\ Distinct(states[t])
  BY StateTypes DEF StatesOK
<1> QED
  BY <1>1, <1>2, WithoutKeeps

LEMMA PurgeMoves ==
    ASSUME ThreadInv, NEW q \in Requests, Purge(q)
    PROVE  Moved(q) /\ PlaceOK(provider, req'[q]) /\ Shape'
<1>1. /\ Shape /\ CallsOK /\ StatesOK /\ InFlight(q) /\ req[q].pc = "purge"
      /\ req[q].thread \in Threads /\ provider = "azure"
      /\ UNCHANGED <<fixed, now, faults, thread, uploads, owed, born>>
  BY DEF ThreadInv, Purge, InFlight, Calls, CallsOK, PlaceOK
<1>2. PlaceOK(provider, req[q]) /\ req[q] \in ReqStates
  BY <1>1 DEF CallsOK, Shape
<1>3. PICK at : at = Head(req[q].todo)
  OBVIOUS
<1>4. PICK found \in BOOLEAN : found = (req[q].found \/ at \in Ats(states[req[q].thread]))
  BY <1>2 DEF ReqStates
<1>5. states' \in [Threads -> Seq(States)]
  <2>1. Without(states[req[q].thread], at) \in Seq(States)
    BY <1>1, WithoutShape
  <2>2. states' = [states EXCEPT ![req[q].thread] = Without(states[req[q].thread], at)]
    BY <1>3 DEF Purge
  <2> QED
    BY <1>1, <2>1, <2>2 DEF Shape
<1>6. CASE Len(req[q].todo) = 1
  <2>1. Removed(q, found)
    BY <1>3, <1>4, <1>6 DEF Purge
  <2>2. Moved(q) /\ PlaceOK(provider, req'[q]) /\ gone' \in SUBSET Threads
    BY <1>1, <2>1, RemovedMoves
  <2> QED
    BY <1>1, <1>5, <2>2 DEF Shape, Moved, fixed
<1>7. CASE Len(req[q].todo) # 1
  <2>1. req[q].todo \in Seq(Int) /\ req[q].todo # <<>>
    BY <1>1, <1>2 DEF PlaceOK
  <2>2. PICK rest : rest = Tail(req[q].todo)
    OBVIOUS
  <2>3. rest \in Seq(Int) /\ rest # <<>>
    BY <1>7, <2>1, <2>2, TailOf
  <2> DEFINE r == [req[q] EXCEPT !.todo = rest, !.found = found]
  <2>4. r \in ReqStates
    BY <1>2, <2>3 DEF ReqStates
  <2>5. req' = [req EXCEPT ![q] = r] /\ gone' = gone
    BY <1>3, <1>4, <1>7, <2>2 DEF Purge
  <2>6. /\ r.pc = req[q].pc /\ r.old = req[q].old /\ r.at = req[q].at
        /\ r.op = req[q].op /\ r.thread = req[q].thread /\ r.with = req[q].with
        /\ r.target = req[q].target /\ r.base = req[q].base
        /\ r.seen = req[q].seen /\ r.todo = rest
    BY <1>2 DEF ReqStates
  <2> HIDE DEF r
  <2>7. PlaceOK(provider, r)
    BY <1>1, <1>2, <2>2, <2>3, <2>6 DEF PlaceOK
  <2>8. Moved(q) /\ req'[q] = r
    BY <1>1, <2>4, <2>5, <2>6, SetMoves DEF Past, Calls, Ends
  <2> QED
    BY <1>1, <1>5, <2>5, <2>7, <2>8 DEF Shape, Moved, fixed
<1> QED
  BY <1>6, <1>7

LEMMA FindToCopyMoves ==
    ASSUME ThreadInv, NEW q \in Requests, FindToCopy(q)
    PROVE  Moved(q) /\ PlaceOK(provider, req'[q]) /\ Shape'
<1>1. /\ Shape /\ CallsOK /\ InFlight(q) /\ req[q].pc = "find" /\ req[q].op = "copy"
      /\ UNCHANGED <<fixed, now, faults, store, ghost>>
  BY DEF ThreadInv, FindToCopy, InFlight, Calls
<1>2. PICK call \in {"failed", "copy"} : req' = Goto(q, call)
  BY DEF FindToCopy
<1>3. ~Past(req[q]) /\ call \in Calls \union Ends
  BY <1>1 DEF Past, Ends, Calls
<1>4. /\ Moved(q) /\ req'[q].pc = call
      /\ req'[q].old = req[q].old /\ req'[q].seen = req[q].seen
      /\ req'[q].at = req[q].at /\ req'[q].todo = req[q].todo
  BY <1>1, <1>2, <1>3, GotoMoves
<1>5. PlaceOK(provider, req[q])
  BY <1>1 DEF CallsOK
<1>6. PlaceOK(provider, req'[q])
  BY <1>1, <1>2, <1>4, <1>5 DEF PlaceOK, Moved
<1> QED
  BY <1>1, <1>4, <1>6 DEF Shape, Moved, store, fixed, ghost

\* The answer of a copy.
LEMMA CopiedMoves ==
    ASSUME Shape, CallsOK, NEW q \in Requests, NEW h \in Seq(States), Copied(q, h),
           UNCHANGED fixed,
           req[q].pc \in {"copy", "copyHistory", "copyNext", "copyUpload"}
    PROVE  /\ Moved(q) /\ PlaceOK(provider, req'[q])
           /\ req'[q].pc = "answered" /\ req'[q].seen = req[q].seen
           /\ req'[q].todo = req[q].todo /\ req'[q].copied = Len(h)
           /\ LET source == states[req[q].thread]
              IN  /\ req'[q].missing = ((req[q].base \intersect owed[req[q].thread])
                                          \intersect Bys(source)) \ Bys(h)
                  /\ req'[q].behind <=> (req[q].with = {} /\ Newest(h) # Newest(source))
<1>1. /\ InFlight(q) /\ PlaceOK(provider, req[q]) /\ req[q].thread \in Threads /\ req[q].pc # "idle"
      /\ req[q] \in ReqStates
  BY DEF CallsOK, PlaceOK, InFlight, Calls, Shape
<1>2. PICK missing : missing = ((req[q].base \intersect owed[req[q].thread])
                                   \intersect Bys(states[req[q].thread])) \ Bys(h)
  OBVIOUS
<1>3. PICK behind \in BOOLEAN :
         behind = (req[q].with = {} /\ Newest(h) # Newest(states[req[q].thread]))
  OBVIOUS
<1>4. missing \in SUBSET Requests /\ Len(h) \in Nat
  BY <1>1, <1>2 DEF ReqStates
<1> DEFINE r == [req[q] EXCEPT !.pc = "answered", !.missing = missing,
                               !.copied = Len(h), !.behind = behind]
<1>5. r \in ReqStates
  BY <1>1, <1>4 DEF ReqStates, Pcs, Ends
<1>6. req' = [req EXCEPT ![q] = r]
  BY <1>2, <1>3 DEF Copied
<1>7. /\ r.pc = "answered" /\ r.old = req[q].old /\ r.at = req[q].at
      /\ r.op = req[q].op /\ r.thread = req[q].thread /\ r.with = req[q].with
      /\ r.target = req[q].target /\ r.base = req[q].base
      /\ r.seen = req[q].seen /\ r.todo = req[q].todo
      /\ r.missing = missing /\ r.copied = Len(h) /\ r.behind = behind
  BY <1>1 DEF ReqStates
<1> HIDE DEF r
<1>8. PlaceOK(provider, r)
  BY <1>1, <1>7 DEF PlaceOK
<1>9. Moved(q) /\ req'[q] = r
  BY <1>1, <1>5, <1>6, <1>7, SetMoves DEF Past, Calls, Ends
<1> QED
  BY <1>2, <1>3, <1>7, <1>8, <1>9

LEMMA CopyMoves ==
    ASSUME ThreadInv, NEW q \in Requests, Copy(q)
    PROVE  Moved(q) /\ PlaceOK(provider, req'[q]) /\ Shape'
<1>1. /\ Shape /\ CallsOK /\ InFlight(q) /\ req[q].pc = "copy" /\ req[q].op = "copy"
      /\ req[q].thread \in Threads
      /\ UNCHANGED <<fixed, now, faults, ghost>>
  BY DEF ThreadInv, Copy, InFlight, Calls, CallsOK, PlaceOK
<1>2. PlaceOK(provider, req[q]) /\ req[q] \in ReqStates
  BY <1>1 DEF CallsOK, Shape
<1>3. req[q].target \in Threads
  BY <1>1, <1>2 DEF PlaceOK, ReqStates, Threads
<1>4. CASE req' = Goto(q, "failed") /\ UNCHANGED store
  <2>1. Moved(q) /\ PlaceOK(provider, req'[q])
    BY <1>1, <1>4, FailsMoves
  <2> QED
    BY <1>1, <1>4, <2>1 DEF Shape, Moved, store, fixed, ghost
<1>5. CASE thread[req[q].thread] # None /\ MemoryCopyThread(q)
  <2>1. /\ PutThread(req[q].target, thread[req[q].thread])
        /\ states' = [states EXCEPT ![req[q].target] = states[req[q].thread]]
        /\ Copied(q, states[req[q].thread])
    BY <1>5 DEF MemoryCopyThread
  <2>2. states[req[q].thread] \in Seq(States) /\ thread[req[q].thread] \in Records
    BY <1>1, <1>5, StateTypes, SomeRecord
  <2>3. Moved(q) /\ PlaceOK(provider, req'[q])
    BY <1>1, <2>1, <2>2, CopiedMoves
  <2>4. thread' \in [Threads -> Records \union {None}] /\ uploads' \in Nat
    BY <1>1, <1>3, <2>1, <2>2, PutThreadShape
  <2>5. states' \in [Threads -> Seq(States)]
    BY <1>1, <2>1, <2>2 DEF Shape
  <2> QED
    BY <1>1, <2>3, <2>4, <2>5 DEF Shape, Moved, fixed, ghost
<1>6. CASE thread[req[q].thread] # None /\ CopyReads(q)
  <2>1. PICK call \in {"copyHistory", "copyInsert"} :
           call = IF provider = "sqlserver" THEN "copyHistory" ELSE "copyInsert"
    OBVIOUS
  <2> DEFINE r == [req[q] EXCEPT !.pc = call, !.old = thread[req[q].thread]]
  <2>2. thread[req[q].thread] \in Records
    BY <1>1, <1>6, SomeRecord
  <2>3. r \in ReqStates
    BY <1>2, <2>2 DEF ReqStates, Pcs, Calls
  <2>4. req' = [req EXCEPT ![q] = r] /\ UNCHANGED store /\ provider # "memory"
    BY <1>6, <2>1 DEF CopyReads
  <2>5. /\ r.pc = call /\ r.old = thread[req[q].thread] /\ r.at = req[q].at
        /\ r.op = req[q].op /\ r.thread = req[q].thread /\ r.with = req[q].with
        /\ r.target = req[q].target /\ r.base = req[q].base
        /\ r.seen = req[q].seen /\ r.todo = req[q].todo
    BY <1>2 DEF ReqStates
  <2> HIDE DEF r
  <2>6. provider \in {"sqlite", "azure", "sqlserver"}
    BY <1>1, <2>4 DEF Shape, Providers, Sql
  <2>7. PlaceOK(provider, r)
    BY <1>1, <1>2, <1>6, <2>1, <2>4, <2>5, <2>6 DEF PlaceOK
  <2>8. Moved(q) /\ req'[q] = r
    BY <1>1, <2>1, <2>3, <2>4, <2>5, SetMoves DEF Past, Calls, Ends
  <2> QED
    BY <1>1, <2>4, <2>7, <2>8 DEF Shape, Moved, fixed, ghost, store
<1> QED
  BY <1>4, <1>5, <1>6 DEF Copy

LEMMA CopyInsertMoves ==
    ASSUME ThreadInv, NEW q \in Requests, CopyInsert(q)
    PROVE  Moved(q) /\ PlaceOK(provider, req'[q]) /\ Shape'
<1>1. /\ Shape /\ CallsOK /\ InFlight(q) /\ req[q].pc = "copyInsert" /\ req[q].op = "copy"
      /\ PutThread(req[q].target, req[q].old) /\ req' = Goto(q, "copyHistory")
      /\ UNCHANGED <<fixed, now, faults, states, ghost>>
  BY DEF ThreadInv, CopyInsert, InFlight, Calls, CallsOK, PlaceOK
<1>2. PlaceOK(provider, req[q]) /\ req[q] \in ReqStates
  BY <1>1 DEF CallsOK, Shape
<1>3. req[q].target \in Threads /\ req[q].old \in Records
  BY <1>1, <1>2 DEF PlaceOK, ReqStates, Threads
<1>4. /\ Moved(q) /\ req'[q].pc = "copyHistory"
      /\ req'[q].old = req[q].old /\ req'[q].seen = req[q].seen
      /\ req'[q].at = req[q].at /\ req'[q].todo = req[q].todo
  BY <1>1, GotoMoves DEF Past, Ends, Calls
<1>5. PlaceOK(provider, req'[q])
  BY <1>1, <1>2, <1>4 DEF PlaceOK, Moved
<1>6. thread' \in [Threads -> Records \union {None}] /\ uploads' \in Nat
  BY <1>1, <1>3, PutThreadShape
<1> QED
  BY <1>1, <1>4, <1>5, <1>6 DEF Shape, Moved, fixed, ghost

\* What is left to copy.
LEMMA CopySourceShape ==
    ASSUME Shape, NEW t \in Threads, NEW source, source = CopySource(states[t])
    PROVE  /\ provider \in Sql => source \in Seq(States)
           /\ provider \notin Sql => source \in Seq(Int)
           /\ provider = "sqlserver" => source = ByTime(states[t])
<1>1. states[t] \in Seq(States) /\ Timed(states[t])
  BY StateTypes
<1>2. PICK b : b = ByTime(states[t])
  OBVIOUS
<1>3. b \in Seq(States)
  BY <1>1, <1>2, ByTimeKeeps
<1>4. CASE provider = "sqlite"
  <2>1. source = LastOf(b, HistoryLimit)
    BY <1>2, <1>4 DEF CopySource, SqliteCopySource
  <2>2. source \in Seq(States)
    BY <1>3, <2>1, LastOfKeeps, ConstantsAssumption
  <2> QED
    BY <1>4, <2>2 DEF Sql
<1>5. CASE provider = "sqlserver"
  BY <1>2, <1>3, <1>5 DEF CopySource, Sql
<1>6. CASE provider \notin Sql
  <2>1. source = StampsByName(states[t])
    BY <1>6 DEF CopySource, Sql
  <2>2. source \in Seq(Ats(states[t]))
    BY <1>1, <2>1, StampsSorted
  <2>3. Ats(states[t]) \subseteq Int
    BY <1>1 DEF Ats, Timed
  <2>4. source \in Seq(Int)
    BY <2>2, <2>3
  <2> QED
    BY <1>6, <2>4 DEF Sql
<1> QED
  BY <1>4, <1>5, <1>6 DEF Sql

LEMMA CopyHistoryMoves ==
    ASSUME ThreadInv, NEW q \in Requests, CopyHistory(q)
    PROVE  Moved(q) /\ PlaceOK(provider, req'[q]) /\ Shape'
<1>1. /\ Shape /\ CallsOK /\ InFlight(q) /\ req[q].pc = "copyHistory" /\ req[q].op = "copy"
      /\ req[q].thread \in Threads /\ provider # "memory"
      /\ UNCHANGED <<fixed, now, faults, ghost>>
  BY DEF ThreadInv, CopyHistory, InFlight, Calls, CallsOK, PlaceOK
<1>2. PlaceOK(provider, req[q]) /\ req[q] \in ReqStates
  BY <1>1 DEF CallsOK, Shape
<1>3. req[q].target \in Threads /\ req[q].old \in Records
  BY <1>1, <1>2 DEF PlaceOK, ReqStates, Threads
<1>4. PICK source : source = CopySource(states[req[q].thread])
  OBVIOUS
<1>5. /\ provider \in Sql => source \in Seq(States)
      /\ provider \notin Sql => source \in Seq(Int)
  BY <1>1, <1>4, CopySourceShape
<1>6. CASE provider = "sqlserver"
  <2>1. /\ PutThread(req[q].target, req[q].old)
        /\ states' = [states EXCEPT ![req[q].target] = source]
        /\ Copied(q, source)
    BY <1>4, <1>6 DEF CopyHistory, SqlServerCopyCommit
  <2>2. source \in Seq(States)
    BY <1>5, <1>6 DEF Sql
  <2>3. Moved(q) /\ PlaceOK(provider, req'[q])
    BY <1>1, <2>1, <2>2, CopiedMoves
  <2>4. thread' \in [Threads -> Records \union {None}] /\ uploads' \in Nat
    BY <1>1, <1>3, <2>1, PutThreadShape
  <2>5. states' \in [Threads -> Seq(States)]
    BY <1>1, <2>1, <2>2 DEF Shape
  <2> QED
    BY <1>1, <2>3, <2>4, <2>5 DEF Shape, Moved, fixed, ghost
<1>7. CASE provider # "sqlserver" /\ source = <<>>
  <2>1. Copied(q, <<>>) /\ UNCHANGED store
    BY <1>4, <1>7 DEF CopyHistory
  <2>2. <<>> \in Seq(States)
    OBVIOUS
  <2>3. Moved(q) /\ PlaceOK(provider, req'[q])
    BY <1>1, <2>1, <2>2, CopiedMoves
  <2> QED
    BY <1>1, <2>1, <2>3 DEF Shape, Moved, store, fixed, ghost
<1>8. CASE provider # "sqlserver" /\ source # <<>>
  <2> DEFINE r == [req[q] EXCEPT !.pc = "copyNext", !.todo = source]
  <2>1. r \in ReqStates
    BY <1>2, <1>5 DEF ReqStates, Pcs, Calls
  <2>2. req' = [req EXCEPT ![q] = r] /\ UNCHANGED store
    BY <1>4, <1>8 DEF CopyHistory
  <2>3. /\ r.pc = "copyNext" /\ r.old = req[q].old /\ r.at = req[q].at
        /\ r.op = req[q].op /\ r.thread = req[q].thread /\ r.with = req[q].with
        /\ r.target = req[q].target /\ r.base = req[q].base
        /\ r.seen = req[q].seen /\ r.todo = source
    BY <1>2 DEF ReqStates
  <2> HIDE DEF r
  <2>4. provider \in {"sqlite", "azure"}
    BY <1>1, <1>8 DEF Shape, Providers, Sql
  <2>5. PlaceOK(provider, r)
    BY <1>1, <1>2, <1>5, <1>8, <2>3, <2>4 DEF PlaceOK, Sql
  <2>6. Moved(q) /\ req'[q] = r
    BY <1>1, <2>1, <2>2, <2>3, SetMoves DEF Past, Calls, Ends
  <2> QED
    BY <1>1, <2>2, <2>5, <2>6 DEF Shape, Moved, fixed, ghost, store
<1> QED
  BY <1>6, <1>7, <1>8

\* A copy that is done with one state.
LEMMA CopyAdvancesMoves ==
    ASSUME Shape, CallsOK, NEW q \in Requests, NEW h \in Seq(States), CopyAdvances(q, h),
           UNCHANGED fixed, req[q].pc \in {"copyNext", "copyUpload"}
    PROVE  /\ Moved(q) /\ PlaceOK(provider, req'[q])
           /\ \/ Len(req[q].todo) = 1 /\ Copied(q, h) /\ req'[q].pc = "answered"
                 /\ req'[q].seen = req[q].seen
              \/ Len(req[q].todo) # 1 /\ req'[q].pc = "copyNext" /\ req'[q].seen = None
                 /\ req'[q].todo = Tail(req[q].todo)
<1>1. /\ InFlight(q) /\ PlaceOK(provider, req[q]) /\ req[q].op = "copy" /\ req[q] \in ReqStates
      /\ req[q].todo # <<>>
  BY DEF CallsOK, PlaceOK, InFlight, Calls, Shape
<1>2. CASE Len(req[q].todo) = 1
  BY <1>2, CopiedMoves DEF CopyAdvances
<1>3. CASE Len(req[q].todo) # 1
  <2>1. PICK rest : rest = Tail(req[q].todo)
    OBVIOUS
  <2>2. \/ provider = "sqlite" /\ req[q].todo \in Seq(States)
        \/ provider = "azure" /\ req[q].todo \in Seq(Int)
    BY <1>1 DEF PlaceOK
  <2>3. /\ rest # <<>>
        /\ \/ provider = "sqlite" /\ rest \in Seq(States)
           \/ provider = "azure" /\ rest \in Seq(Int)
    BY <1>1, <1>3, <2>1, <2>2, TailOf
  <2> DEFINE r == [req[q] EXCEPT !.pc = "copyNext", !.todo = rest, !.seen = None]
  <2>4. r \in ReqStates
    BY <1>1, <2>3 DEF ReqStates, Pcs, Calls
  <2>5. req' = [req EXCEPT ![q] = r]
    BY <1>3, <2>1 DEF CopyAdvances
  <2>6. /\ r.pc = "copyNext" /\ r.old = req[q].old /\ r.at = req[q].at
        /\ r.op = req[q].op /\ r.thread = req[q].thread /\ r.with = req[q].with
        /\ r.target = req[q].target /\ r.base = req[q].base
        /\ r.seen = None /\ r.todo = rest
    BY <1>1 DEF ReqStates
  <2> HIDE DEF r
  <2>7. PlaceOK(provider, r)
    BY <1>1, <2>3, <2>6 DEF PlaceOK
  <2>8. Moved(q) /\ req'[q] = r
    BY <1>1, <2>4, <2>5, <2>6, SetMoves DEF Past, Calls, Ends
  <2> QED
    BY <1>3, <2>1, <2>6, <2>7, <2>8
<1> QED
  BY <1>2, <1>3

LEMMA CopyNextMoves ==
    ASSUME ThreadInv, NEW q \in Requests, CopyNext(q)
    PROVE  Moved(q) /\ PlaceOK(provider, req'[q]) /\ Shape'
<1>1. /\ Shape /\ CallsOK /\ InFlight(q) /\ req[q].pc = "copyNext" /\ req[q].op = "copy"
      /\ req[q].thread \in Threads /\ req[q].todo # <<>>
      /\ UNCHANGED <<fixed, now, faults, thread, uploads, ghost>>
  BY DEF ThreadInv, CopyNext, InFlight, Calls, CallsOK, PlaceOK
<1>2. PlaceOK(provider, req[q]) /\ req[q] \in ReqStates
  BY <1>1 DEF CallsOK, Shape
<1>3. req[q].target \in Threads
  BY <1>1, <1>2 DEF PlaceOK, ReqStates, Threads
<1>4. CASE SqliteCopyNext(q)
  <2>1. PICK h : h = Append(states[req[q].target], Head(req[q].todo))
    OBVIOUS
  <2>2. /\ provider = "sqlite" /\ states' = [states EXCEPT ![req[q].target] = h]
        /\ CopyAdvances(q, h)
    BY <1>4, <2>1 DEF SqliteCopyNext
  <2>3. req[q].todo \in Seq(States)
    BY <1>1, <1>2, <2>2 DEF PlaceOK
  <2>4. Head(req[q].todo) \in States
    BY <1>1, <2>3, TailOf
  <2>5. h \in Seq(States)
    BY <1>1, <1>3, <2>1, <2>4, StateTypes
  <2>6. Moved(q) /\ PlaceOK(provider, req'[q])
    BY <1>1, <2>2, <2>5, CopyAdvancesMoves
  <2>7. states' \in [Threads -> Seq(States)]
    BY <1>1, <2>2, <2>5 DEF Shape
  <2> QED
    BY <1>1, <2>6, <2>7 DEF Shape, Moved, fixed, ghost
<1>5. CASE AzureCopyNext(q)
  <2>1. PICK blob : blob = Blob(req[q].thread, Head(req[q].todo))
    OBVIOUS
  <2>2. provider = "azure" /\ UNCHANGED states
    BY <1>5 DEF AzureCopyNext
  <2>3. CASE blob = None
    <3>1. CopyAdvances(q, states[req[q].target])
      BY <1>5, <2>1, <2>3 DEF AzureCopyNext
    <3>2. states[req[q].target] \in Seq(States)
      BY <1>1, <1>3, StateTypes
    <3>3. Moved(q) /\ PlaceOK(provider, req'[q])
      BY <1>1, <3>1, <3>2, CopyAdvancesMoves
    <3> QED
      BY <1>1, <2>2, <3>3 DEF Shape, Moved, fixed, ghost
  <2>4. CASE blob # None
    <3>1. blob \in States
      BY <1>1, <2>1, <2>4, BlobStored, StateTypes
    <3> DEFINE r == [req[q] EXCEPT !.pc = "copyUpload", !.seen = blob]
    <3>2. r \in ReqStates
      BY <1>2, <3>1 DEF ReqStates, Pcs, Calls
    <3>3. req' = [req EXCEPT ![q] = r]
      BY <1>5, <2>1, <2>4 DEF AzureCopyNext, GotoWith
    <3>4. /\ r.pc = "copyUpload" /\ r.old = req[q].old /\ r.at = req[q].at
          /\ r.op = req[q].op /\ r.thread = req[q].thread /\ r.with = req[q].with
          /\ r.target = req[q].target /\ r.base = req[q].base
          /\ r.seen = blob /\ r.todo = req[q].todo
      BY <1>2 DEF ReqStates
    <3> HIDE DEF r
    <3>5. PlaceOK(provider, r)
      BY <1>1, <1>2, <2>2, <2>4, <3>4 DEF PlaceOK
    <3>6. Moved(q) /\ req'[q] = r
      BY <1>1, <3>2, <3>3, <3>4, SetMoves DEF Past, Calls, Ends
    <3> QED
      BY <1>1, <2>2, <3>5, <3>6 DEF Shape, Moved, fixed, ghost
  <2> QED
    BY <2>3, <2>4
<1> QED
  BY <1>4, <1>5 DEF CopyNext

LEMMA CopyUploadMoves ==
    ASSUME ThreadInv, NEW q \in Requests, CopyUpload(q)
    PROVE  Moved(q) /\ PlaceOK(provider, req'[q]) /\ Shape'
<1>1. /\ Shape /\ CallsOK /\ StatesOK /\ InFlight(q) /\ req[q].pc = "copyUpload"
      /\ req[q].op = "copy" /\ provider = "azure" /\ req[q].seen # None
      /\ UNCHANGED <<fixed, now, faults, thread, uploads, ghost>>
  BY DEF ThreadInv, CopyUpload, InFlight, Calls, CallsOK, PlaceOK
<1>2. PlaceOK(provider, req[q]) /\ req[q] \in ReqStates
  BY <1>1 DEF CallsOK, Shape
<1>3. req[q].target \in Threads /\ req[q].seen \in States
  BY <1>1, <1>2 DEF PlaceOK, ReqStates, Threads
<1>4. PICK h : h = AzureAddState(states[req[q].target], req[q].seen)
  OBVIOUS
<1>5. h \in Seq(States)
  BY <1>1, <1>3, <1>4, AddStateShape
<1>6. states' = [states EXCEPT ![req[q].target] = h] /\ CopyAdvances(q, h)
  BY <1>4 DEF CopyUpload
<1>7. Moved(q) /\ PlaceOK(provider, req'[q])
  BY <1>1, <1>5, <1>6, CopyAdvancesMoves
<1>8. states' \in [Threads -> Seq(States)]
  BY <1>1, <1>5, <1>6 DEF Shape
<1> QED
  BY <1>1, <1>7, <1>8 DEF Shape, Moved, fixed, ghost

LEMMA CallFailsMoves ==
    ASSUME ThreadInv, NEW q \in Requests, CallFails(q)
    PROVE  Moved(q) /\ PlaceOK(provider, req'[q]) /\ Shape'
<1>1. /\ Shape /\ CallsOK /\ InFlight(q) /\ req' = Goto(q, "failed")
      /\ faults < MaxFaults /\ faults' = faults + 1
      /\ UNCHANGED <<fixed, now, store, ghost>>
  BY DEF ThreadInv, CallFails
<1>2. Moved(q) /\ PlaceOK(provider, req'[q])
  BY <1>1, FailsMoves
<1>3. faults' \in 0 .. MaxFaults
  BY <1>1, ConstantsAssumption DEF Shape
<1> QED
  BY <1>1, <1>2, <1>3 DEF Shape, Moved, fixed, ghost, store

LEMMA StepMoves ==
    ASSUME ThreadInv, NEW q \in Requests, Step(q) \/ CallFails(q)
    PROVE  Moved(q) /\ PlaceOK(provider, req'[q]) /\ Shape'
BY FindToCreateMoves, InsertMoves, FindToPatchMoves, ModifyMoves, WriteMoves, FindToEditMoves,
   ReadNewestMoves, DownloadNewestMoves, AppendStateMoves, RemoveThreadMoves, ListHistoryMoves,
   PurgeMoves, FindToCopyMoves, CopyMoves, CopyInsertMoves, CopyHistoryMoves, CopyNextMoves,
   CopyUploadMoves, CallFailsMoves DEF Step

-----------------------------------------------------------------------------
(* The parts of the invariant that look at the requests only.              *)

LEMMA CallsKept ==
    ASSUME ThreadInv, NEW q \in Requests, Moved(q), PlaceOK(provider, req'[q])
    PROVE  CallsOK'
<1>1. \A p \in Requests : PlaceOK(provider, req'[p])
  <2> SUFFICES ASSUME NEW p \in Requests
               PROVE  PlaceOK(provider, req'[p])
    OBVIOUS
  <2>1. CASE p = q
    BY <2>1
  <2>2. CASE p # q
    <3>1. req'[p] = req[p]
      BY <2>2 DEF Moved
    <3> QED
      BY <3>1 DEF ThreadInv, CallsOK
  <2> QED
    BY <2>1, <2>2
<1>2. provider' = provider
  BY DEF Moved, fixed
<1> QED
  BY <1>1, <1>2 DEF CallsOK

LEMMA NamesKept ==
    ASSUME ThreadInv, NEW q \in Requests, Moved(q)
    PROVE  NamesOK' /\ Minted' = Minted
<1>1. \A p \in Requests : /\ req'[p].op = req[p].op /\ req'[p].thread = req[p].thread
                          /\ req'[p].target = req[p].target
  BY DEF Moved
<1>2. \A p \in Requests : req[p].pc = "answered" => req'[p].pc = "answered"
  BY DEF Moved, InFlight, Calls
<1>3. Minted' = Minted
  BY <1>1 DEF Minted
<1>4. NamesOK
  BY DEF ThreadInv
<1> QED
  BY <1>1, <1>2, <1>3, <1>4 DEF NamesOK

LEMMA OverlapKept ==
    ASSUME ThreadInv, NEW q \in Requests, Moved(q)
    PROVE  OverlapOK'
<1>1. \A p \in Requests : req'[p].with = req[p].with /\ req'[p].thread = req[p].thread
  BY DEF Moved
<1>2. \A p \in Requests : InFlight(p)' => InFlight(p)
  BY DEF Moved, InFlight
<1>3. OverlapOK /\ (Serial' <=> Serial)
  BY DEF ThreadInv, Moved, Serial, fixed
<1>4. \A p \in Requests : req[p].pc # "idle" => req'[p].pc # "idle"
  BY DEF Moved, Calls, Ends
<1>5. \A p \in Requests : req[p].with \subseteq Requests
  BY DEF ThreadInv, Shape, ReqStates
<1>6. \A p \in Requests : p \notin req'[p].with /\ \A r \in req'[p].with : req'[r].pc # "idle"
  BY <1>1, <1>3, <1>4, <1>5 DEF OverlapOK
<1> QED
  BY <1>1, <1>2, <1>3, <1>6 DEF OverlapOK

LEMMA StateOfStays ==
    ASSUME NEW q \in Requests, Moved(q), NEW x, StateOf(req, x)
    PROVE  StateOf(req', x)
BY DEF StateOf, Moved, Past, Ends

LEMMA PastMoved ==
    ASSUME NEW q \in Requests, Moved(q), NEW p \in Requests
    PROVE  /\ InFlight(p)' => InFlight(p)
           /\ req[p].pc \in Ends => req'[p] = req[p]
           /\ req'[p].op = req[p].op /\ req'[p].thread = req[p].thread
           /\ req'[p].with = req[p].with /\ req'[p].target = req[p].target
           /\ req'[p].base = req[p].base
           /\ Owing(p)' <=> Owing(p)
           /\ Undisturbed(p)' <=> Undisturbed(p)
<1>1. \A r \in Requests : req'[r].op = req[r].op /\ req'[r].with = req[r].with
  BY DEF Moved
<1>2. req[p].with \subseteq Requests /\ req'[p].with = req[p].with
  BY <1>1 DEF Moved, ReqStates
<1>3. (Owing(p)' <=> Owing(p)) /\ (Undisturbed(p)' <=> Undisturbed(p))
  BY <1>1, <1>2 DEF Owing, Undisturbed
<1>4. req[p].pc \in Ends => p # q
  BY DEF Moved, InFlight, Ends, Calls
<1> QED
  BY <1>1, <1>3, <1>4 DEF Moved, InFlight

-----------------------------------------------------------------------------
(* Every state that is stored, read or about to be copied is that of an    *)
(* edit.                                                                   *)

LEMMA StatesFrame ==
    ASSUME ThreadInv, NEW q \in Requests, Moved(q),
           \A t \in Threads : \A i \in DOMAIN states'[t] :
              StateOf(req, states'[t][i]) \/ StateOf(req', states'[t][i]),
           provider = "azure" => \A t \in Threads : Distinct(states'[t]),
           req'[q].seen # None => StateOf(req, req'[q].seen),
           req'[q].pc = "copyNext" /\ provider = "sqlite" =>
              \A i \in DOMAIN req'[q].todo : StateOf(req, req'[q].todo[i])
    PROVE  StatesOK'
<1>1. \A x : StateOf(req, x) => StateOf(req', x)
  BY StateOfStays
<1>2. \A t \in Threads : \A i \in DOMAIN states'[t] : StateOf(req', states'[t][i])
  BY <1>1
<1>3. provider' = provider
  BY DEF Moved, fixed
<1>4. \A p \in Requests :
          /\ req'[p].seen # None => StateOf(req', req'[p].seen)
          /\ req'[p].pc = "copyNext" /\ provider = "sqlite" =>
                \A i \in DOMAIN req'[p].todo : StateOf(req', req'[p].todo[i])
  <2> SUFFICES ASSUME NEW p \in Requests
               PROVE  /\ req'[p].seen # None => StateOf(req', req'[p].seen)
                      /\ req'[p].pc = "copyNext" /\ provider = "sqlite" =>
                            \A i \in DOMAIN req'[p].todo : StateOf(req', req'[p].todo[i])
    OBVIOUS
  <2>1. CASE p = q
    BY <1>1, <2>1
  <2>2. CASE p # q
    <3>1. req'[p] = req[p]
      BY <2>2 DEF Moved
    <3> QED
      BY <1>1, <3>1 DEF ThreadInv, StatesOK
  <2> QED
    BY <2>1, <2>2
<1> QED
  BY <1>2, <1>3, <1>4 DEF StatesOK

\* What is stored stays as it is.
LEMMA StatesFrameQuiet ==
    ASSUME ThreadInv, NEW q \in Requests, Moved(q), states' = states,
           req'[q].seen # None => StateOf(req, req'[q].seen),
           req'[q].pc = "copyNext" /\ provider = "sqlite" =>
              \A i \in DOMAIN req'[q].todo : StateOf(req, req'[q].todo[i])
    PROVE  StatesOK'
<1>1. StatesOK
  BY DEF ThreadInv
<1>2. \A t \in Threads : \A i \in DOMAIN states'[t] : StateOf(req, states'[t][i])
  BY <1>1 DEF StatesOK
<1>3. provider = "azure" => \A t \in Threads : Distinct(states'[t])
  BY <1>1 DEF StatesOK
<1> QED
  BY <1>2, <1>3, StatesFrame

\* One history changes.
LEMMA StatesFrameOne ==
    ASSUME ThreadInv, NEW q \in Requests, Moved(q), NEW t \in Threads, NEW h,
           states' = [states EXCEPT ![t] = h],
           \A i \in DOMAIN h : StateOf(req, h[i]) \/ StateOf(req', h[i]),
           provider = "azure" => Distinct(h),
           req'[q].seen # None => StateOf(req, req'[q].seen),
           req'[q].pc = "copyNext" /\ provider = "sqlite" =>
              \A i \in DOMAIN req'[q].todo : StateOf(req, req'[q].todo[i])
    PROVE  StatesOK'
<1>1. StatesOK /\ DOMAIN states = Threads
  BY DEF ThreadInv, Shape
<1>2. states'[t] = h /\ \A u \in Threads : u # t => states'[u] = states[u]
  BY <1>1
<1>3. \A u \in Threads : \A i \in DOMAIN states'[u] :
          StateOf(req, states'[u][i]) \/ StateOf(req', states'[u][i])
  <2> SUFFICES ASSUME NEW u \in Threads
               PROVE  \A i \in DOMAIN states'[u] :
                         StateOf(req, states'[u][i]) \/ StateOf(req', states'[u][i])
    OBVIOUS
  <2> QED
    BY <1>1, <1>2 DEF StatesOK
<1>4. provider = "azure" => \A u \in Threads : Distinct(states'[u])
  BY <1>1, <1>2 DEF StatesOK
<1> QED
  BY <1>3, <1>4, StatesFrame

LEMMA GotoSame ==
    ASSUME Shape, NEW q \in Requests, NEW call, req' = Goto(q, call)
    PROVE  /\ req'[q].pc = call /\ req'[q].seen = req[q].seen /\ req'[q].at = req[q].at
           /\ req'[q].todo = req[q].todo /\ req'[q].old = req[q].old
BY DEF Goto, Shape, ReqStates

LEMMA CopiedSame ==
    ASSUME Shape, NEW q \in Requests, NEW h, Copied(q, h)
    PROVE  req'[q].pc = "answered" /\ req'[q].seen = req[q].seen /\ req'[q].at = req[q].at
           /\ req'[q].todo = req[q].todo
<1>1. req[q] \in ReqStates /\ q \in DOMAIN req
  BY DEF Shape
<1> QED
  BY <1>1 DEF Copied, ReqStates

\* The steps that store no state and read none.
LEMMA SeenKept ==
    ASSUME ThreadInv, NEW q \in Requests, Moved(q), states' = states,
           req'[q].seen = req[q].seen, req'[q].pc # "copyNext"
    PROVE  StatesOK'
<1>1. req'[q].seen # None => StateOf(req, req'[q].seen)
  BY DEF ThreadInv, StatesOK
<1> QED
  BY <1>1, StatesFrameQuiet

LEMMA EasyStates ==
    ASSUME ThreadInv, NEW q \in Requests,
           \/ FindToCreate(q) \/ Insert(q) \/ FindToPatch(q) \/ Modify(q) \/ Write(q)
           \/ FindToEdit(q) \/ ListHistory(q) \/ FindToCopy(q) \/ CopyInsert(q) \/ CallFails(q)
    PROVE  StatesOK'
<1>1. Moved(q) /\ Shape /\ req[q] \in ReqStates
  BY StepMoves DEF Step, ThreadInv, Shape
<1>2. states' = states
  BY DEF FindToCreate, Insert, Fails, FindToPatch, Modify, MemoryUpdate, UpdateReads, Write,
         FindToEdit, ListHistory, FindToCopy, CopyInsert, CallFails, store
<1>3. CASE \E call \in {"insert", "failed", "modify", "answered", "copy", "copyHistory"} :
               req' = Goto(q, call)
  <2>1. PICK call \in {"insert", "failed", "modify", "answered", "copy", "copyHistory"} :
               req' = Goto(q, call)
    BY <1>3
  <2>2. req'[q].seen = req[q].seen /\ req'[q].pc = call
    BY <1>1, <2>1, GotoSame
  <2> QED
    BY <1>1, <1>2, <2>2, SeenKept
<1>4. CASE UpdateReads(q)
  <2>1. req'[q].seen = req[q].seen /\ req'[q].pc = "write"
    BY <1>1, <1>4 DEF UpdateReads, ReqStates, Shape
  <2> QED
    BY <1>1, <1>2, <2>1, SeenKept
<1>5. CASE FindToEdit(q) /\ req' # Goto(q, "failed")
  <2>1. req'[q].seen = req[q].seen /\ req'[q].pc = "newest"
    BY <1>1, <1>5 DEF FindToEdit, ReqStates, Shape
  <2> QED
    BY <1>1, <1>2, <2>1, SeenKept
<1>6. CASE ListHistory(q) /\ ~Removed(q, req[q].found)
  <2>1. req'[q].seen = req[q].seen /\ req'[q].pc = "purge"
    BY <1>1, <1>6 DEF ListHistory, ReqStates, Shape
  <2> QED
    BY <1>1, <1>2, <2>1, SeenKept
<1> QED
  BY <1>3, <1>4, <1>5, <1>6
     DEF FindToCreate, Insert, Fails, FindToPatch, Modify, MemoryUpdate, Write, SqlUpdateWrites,
         AzureUpdateWrites, FindToEdit, ListHistory, FindToCopy, CopyInsert, CallFails, Answer,
         ModifyMissing, Removed, RemoveAnswer

LEMMA StoredState ==
    ASSUME ThreadInv, NEW t \in Threads
    PROVE  /\ \A i \in DOMAIN states[t] : StateOf(req, states[t][i])
           /\ provider = "azure" => Distinct(states[t])
BY DEF ThreadInv, StatesOK

LEMMA ReadNewestStates ==
    ASSUME ThreadInv, NEW q \in Requests, ReadNewest(q)
    PROVE  StatesOK'
<1>1. /\ Moved(q) /\ Shape /\ req[q] \in ReqStates /\ states' = states
      /\ req[q].thread \in Threads
  BY StepMoves DEF Step, ThreadInv, Shape, ReadNewest, store, CallsOK, PlaceOK
<1> DEFINE s == states[req[q].thread]
<1>2. s \in Seq(States) /\ Timed(s) /\ \A i \in DOMAIN s : StateOf(req, s[i])
  BY <1>1, StateTypes, StoredState
<1>3. CASE req' = [req EXCEPT ![q].pc = "download", ![q].todo = <<Last(StampsByName(s))>>]
  <2>1. req'[q].seen = req[q].seen /\ req'[q].pc = "download"
    BY <1>1, <1>3 DEF ReqStates, Shape
  <2> QED
    BY <1>1, <2>1, SeenKept
<1>4. CASE \E n \in Newest(s) : req' = GotoWith(q, "append", n)
  <2>1. PICK n \in Newest(s) : req' = GotoWith(q, "append", n)
    BY <1>4
  <2>2. n # None => StateOf(req, n)
    BY <1>2, NewestStored
  <2>3. req'[q].seen = n /\ req'[q].pc = "append"
    BY <1>1, <2>1 DEF GotoWith, ReqStates, Shape
  <2> QED
    BY <1>1, <2>2, <2>3, StatesFrameQuiet
<1> QED
  BY <1>3, <1>4 DEF ReadNewest

LEMMA DownloadNewestStates ==
    ASSUME ThreadInv, NEW q \in Requests, DownloadNewest(q)
    PROVE  StatesOK'
<1>1. /\ Moved(q) /\ Shape /\ req[q] \in ReqStates /\ states' = states
      /\ req[q].thread \in Threads
  BY StepMoves DEF Step, ThreadInv, Shape, DownloadNewest, store, CallsOK, PlaceOK
<1>2. PICK n : n = Blob(req[q].thread, Head(req[q].todo))
  OBVIOUS
<1>3. n # None => StateOf(req, n)
  BY <1>1, <1>2, BlobStored, StoredState
<1>4. req'[q].seen = n /\ req'[q].pc = "append"
  BY <1>1, <1>2 DEF DownloadNewest, ReqStates, Shape
<1> QED
  BY <1>1, <1>3, <1>4, StatesFrameQuiet

\* A blob that is added to a history.
LEMMA AzureAddStateKeeps ==
    ASSUME NEW T, NEW s \in Seq(T), Distinct(s), NEW x \in T, NEW h, h = AzureAddState(s, x)
    PROVE  /\ h \in Seq(T) /\ Distinct(h) /\ h # <<>>
           /\ \A i \in DOMAIN h : h[i] = x \/ \E j \in DOMAIN s : h[i] = s[j] /\ s[j].at # x.at
           /\ \E i \in DOMAIN h : h[i] = x
           /\ \A j \in DOMAIN s : s[j].at # x.at => \E i \in DOMAIN h : h[i] = s[j]
<1>1. PICK w : w = Without(s, x.at)
  OBVIOUS
<1>2. /\ w \in Seq(T)
      /\ \A i \in DOMAIN w : \E j \in DOMAIN s : w[i] = s[j] /\ s[j].at # x.at
      /\ \A j \in DOMAIN s : s[j].at # x.at => \E i \in DOMAIN w : w[i] = s[j]
      /\ Distinct(w)
  BY <1>1, WithoutKeeps
<1>3. h = Append(w, x)
  BY <1>1 DEF AzureAddState
<1>4. /\ h \in Seq(T) /\ Len(h) = Len(w) + 1 /\ Len(w) \in Nat
      /\ DOMAIN h = 1 .. Len(w) + 1 /\ DOMAIN w = 1 .. Len(w)
  BY <1>2, <1>3
<1>5. h[Len(w) + 1] = x /\ \A i \in DOMAIN w : h[i] = w[i]
  BY <1>2, <1>3
<1>6. \A i \in DOMAIN h : i = Len(w) + 1 \/ i \in DOMAIN w
  BY <1>4
<1>7. \A i \in DOMAIN w : w[i].at # x.at /\ i # Len(w) + 1
  BY <1>2, <1>4
<1>8. Distinct(h)
  <2> SUFFICES ASSUME NEW i \in DOMAIN h, NEW j \in DOMAIN h, h[i].at = h[j].at
               PROVE  i = j
    BY DEF Distinct
  <2> QED
    BY <1>2, <1>5, <1>6, <1>7 DEF Distinct
<1>9. \A i \in DOMAIN h : h[i] = x \/ \E j \in DOMAIN s : h[i] = s[j] /\ s[j].at # x.at
  BY <1>2, <1>5, <1>6
<1>10. \A i \in DOMAIN w : i \in DOMAIN h
  BY <1>4
<1>11. \E i \in DOMAIN h : h[i] = x
  BY <1>4, <1>5
<1>12. \A j \in DOMAIN s : s[j].at # x.at => \E i \in DOMAIN h : h[i] = s[j]
  BY <1>2, <1>5, <1>10
<1> QED
  BY <1>4, <1>8, <1>9, <1>11, <1>12

\* A state that is added at the end.
LEMMA AppendKeeps ==
    ASSUME NEW T, NEW s \in Seq(T), NEW x \in T, NEW h, h = Append(s, x)
    PROVE  /\ h \in Seq(T) /\ Len(h) = Len(s) + 1 /\ h[Len(h)] = x
           /\ \A i \in DOMAIN h : h[i] = x \/ \E j \in DOMAIN s : h[i] = s[j]
           /\ \E i \in DOMAIN h : h[i] = x
           /\ \A j \in DOMAIN s : j \in DOMAIN h /\ h[j] = s[j]
<1>1. /\ h \in Seq(T) /\ Len(h) = Len(s) + 1 /\ Len(s) \in Nat
      /\ DOMAIN h = 1 .. Len(s) + 1 /\ DOMAIN s = 1 .. Len(s)
  OBVIOUS
<1>2. h[Len(s) + 1] = x /\ \A i \in DOMAIN s : h[i] = s[i]
  OBVIOUS
<1>3. \A i \in DOMAIN h : i = Len(s) + 1 \/ i \in DOMAIN s
  BY <1>1
<1>4. \A j \in DOMAIN s : j \in DOMAIN h
  BY <1>1
<1>5. Len(s) + 1 \in DOMAIN h
  BY <1>1
<1> QED
  BY <1>1, <1>2, <1>3, <1>4, <1>5

LEMMA AppendStateStates ==
    ASSUME ThreadInv, NEW q \in Requests, AppendState(q)
    PROVE  StatesOK'
<1>1. /\ Moved(q) /\ Shape /\ req[q] \in ReqStates
      /\ req[q].thread \in Threads /\ req[q].op = "edit"
  BY StepMoves DEF Step, ThreadInv, Shape, AppendState, CallsOK, PlaceOK
<1>2. CASE Fails(q)
  <2>1. req'[q].seen = req[q].seen /\ req'[q].pc = "failed" /\ states' = states
    BY <1>1, <1>2, GotoSame DEF Fails, store
  <2> QED
    BY <1>1, <2>1, SeenKept
<1>3. CASE ~(provider \in Sql /\ thread[req[q].thread] = None)
  <2>1. PICK x : x = [by |-> q, at |-> req[q].at, values |-> MergedValues(q)]
    OBVIOUS
  <2>2. x \in States /\ x.by = q /\ x.at = req[q].at
    BY <1>1, <2>1, MadeState
  <2>3. PICK h : h = AddState(states[req[q].thread], x)
    OBVIOUS
  <2>4. /\ states' = [states EXCEPT ![req[q].thread] = h]
        /\ req' = Goto(q, "modify")
    BY <1>3, <2>1, <2>3 DEF AppendState
  <2>5. /\ req'[q].pc = "modify" /\ req'[q].at = req[q].at /\ req'[q].op = "edit"
        /\ req'[q].seen = req[q].seen
    BY <1>1, <2>4, GotoSame DEF Moved
  <2>6. StateOf(req', x)
    BY <2>2, <2>5 DEF StateOf, Past
  <2>7. states[req[q].thread] \in Seq(States)
    BY <1>1, StateTypes
  <2>8. /\ \A i \in DOMAIN h : h[i] = x \/ \E j \in DOMAIN states[req[q].thread] :
                                             h[i] = states[req[q].thread][j]
        /\ provider = "azure" => Distinct(h)
    <3>1. CASE provider = "azure"
      <4>1. h = AzureAddState(states[req[q].thread], x) /\ Distinct(states[req[q].thread])
        BY <1>1, <2>3, <3>1, StoredState DEF AddState
      <4>2. PICK s \in Seq(States) : s = states[req[q].thread]
        BY <2>7
      <4>3. h = AzureAddState(s, x) /\ Distinct(s) /\ x \in States
        BY <2>2, <4>1, <4>2
      <4>4. Distinct(h) /\ \A i \in DOMAIN h : h[i] = x \/ \E j \in DOMAIN s : h[i] = s[j]
        BY <4>3, AzureAddStateKeeps
      <4> QED
        BY <4>2, <4>4
    <3>2. CASE provider # "azure"
      <4>1. h = Append(states[req[q].thread], x)
        BY <2>3, <3>2 DEF AddState
      <4> QED
        BY <2>2, <2>7, <3>2, <4>1, AppendKeeps
    <3> QED
      BY <3>1, <3>2
  <2>9. \A i \in DOMAIN h : StateOf(req, h[i]) \/ StateOf(req', h[i])
    BY <1>1, <2>6, <2>8, StoredState
  <2>10. req'[q].seen # None => StateOf(req, req'[q].seen)
    BY <2>5 DEF ThreadInv, StatesOK
  <2> QED
    BY <1>1, <2>4, <2>5, <2>8, <2>9, <2>10, StatesFrameOne
<1> QED
  BY <1>2, <1>3 DEF AppendState

LEMMA RemovedSame ==
    ASSUME Shape, NEW q \in Requests, NEW found, Removed(q, found)
    PROVE  req'[q].pc \in Ends /\ req'[q].seen = req[q].seen /\ req'[q].at = req[q].at
           /\ req'[q].todo = req[q].todo
BY GotoSame DEF Removed, RemoveAnswer, Ends

LEMMA RemoveThreadStates ==
    ASSUME ThreadInv, NEW q \in Requests, RemoveThread(q)
    PROVE  StatesOK'
<1>1. /\ Moved(q) /\ Shape /\ req[q] \in ReqStates
      /\ req[q].thread \in Threads
  BY StepMoves DEF Step, ThreadInv, Shape, RemoveThread, CallsOK, PlaceOK
<1>2. req[q].seen # None => StateOf(req, req[q].seen)
  BY DEF ThreadInv, StatesOK
<1>3. CASE RemoveAtOnce(q)
  <2>1. /\ states' = [states EXCEPT ![req[q].thread] = <<>>] /\ provider # "azure"
        /\ Removed(q, thread[req[q].thread] # None)
    BY <1>3 DEF RemoveAtOnce
  <2>2. req'[q].pc \in Ends /\ req'[q].seen = req[q].seen
    BY <1>1, <2>1, RemovedSame
  <2>3. req'[q].pc # "copyNext"
    BY <2>2 DEF Ends
  <2>4. PICK h : h = <<>> /\ DOMAIN h = {}
    OBVIOUS
  <2> QED
    BY <1>1, <1>2, <2>1, <2>2, <2>3, <2>4, StatesFrameOne
<1>4. CASE AzureRemove(q)
  <2>1. states' = states /\ req'[q].pc = "list" /\ req'[q].seen = req[q].seen
    BY <1>1, <1>4 DEF AzureRemove, ReqStates, Shape
  <2> QED
    BY <1>1, <2>1, SeenKept
<1> QED
  BY <1>3, <1>4 DEF RemoveThread

LEMMA PurgeStates ==
    ASSUME ThreadInv, NEW q \in Requests, Purge(q)
    PROVE  StatesOK'
<1>1. /\ Moved(q) /\ Shape /\ req[q] \in ReqStates
      /\ req[q].thread \in Threads /\ provider = "azure"
  BY StepMoves DEF Step, ThreadInv, Shape, Purge, CallsOK, PlaceOK
<1>2. req[q].seen # None => StateOf(req, req[q].seen)
  BY DEF ThreadInv, StatesOK
<1>3. PICK w : w = Without(states[req[q].thread], Head(req[q].todo))
  OBVIOUS
<1>4. states' = [states EXCEPT ![req[q].thread] = w]
  BY <1>3 DEF Purge
<1>5. /\ Distinct(w)
      /\ \A i \in DOMAIN w : \E j \in DOMAIN states[req[q].thread] : w[i] = states[req[q].thread][j]
  BY <1>1, <1>3, WithoutKeeps, StateTypes, StoredState
<1>6. \A i \in DOMAIN w : StateOf(req, w[i])
  BY <1>1, <1>5, StoredState
<1>7. req'[q].seen = req[q].seen /\ req'[q].pc # "copyNext"
  <2>1. CASE \E found : Removed(q, found)
    BY <1>1, <2>1, RemovedSame DEF Ends
  <2>2. CASE ~\E found : Removed(q, found)
    <3>1. PICK found \in BOOLEAN : found = (req[q].found \/ Head(req[q].todo) \in Ats(states[req[q].thread]))
      BY <1>1 DEF ReqStates
    <3>2. req' = [req EXCEPT ![q].todo = Tail(@), ![q].found = found] /\ req[q].pc = "purge"
      BY <2>2, <3>1 DEF Purge
    <3> QED
      BY <1>1, <3>2 DEF ReqStates, Shape
  <2> QED
    BY <2>1, <2>2
<1> QED
  BY <1>1, <1>2, <1>4, <1>5, <1>6, <1>7, StatesFrameOne

LEMMA CopyStates ==
    ASSUME ThreadInv, NEW q \in Requests, Copy(q)
    PROVE  StatesOK'
<1>1. /\ Moved(q) /\ Shape /\ req[q] \in ReqStates
      /\ req[q].thread \in Threads /\ req[q].target \in Threads
  BY StepMoves DEF Step, ThreadInv, Shape, Copy, CallsOK, PlaceOK, ReqStates, Threads
<1>2. req[q].seen # None => StateOf(req, req[q].seen)
  BY DEF ThreadInv, StatesOK
<1>3. CASE req' = Goto(q, "failed") /\ UNCHANGED store
  <2>1. req'[q].seen = req[q].seen /\ req'[q].pc = "failed" /\ states' = states
    BY <1>1, <1>3, GotoSame DEF store
  <2> QED
    BY <1>1, <2>1, SeenKept
<1>4. CASE MemoryCopyThread(q)
  <2>1. PICK h : h = states[req[q].thread]
    OBVIOUS
  <2>2. states' = [states EXCEPT ![req[q].target] = h] /\ Copied(q, h) /\ provider = "memory"
    BY <1>4, <2>1 DEF MemoryCopyThread
  <2>3. req'[q].seen = req[q].seen /\ req'[q].pc = "answered"
    BY <1>1, <2>2, CopiedSame
  <2>4. \A i \in DOMAIN h : StateOf(req, h[i])
    BY <1>1, <2>1, StoredState
  <2> QED
    BY <1>1, <1>2, <2>2, <2>3, <2>4, StatesFrameOne
<1>5. CASE CopyReads(q)
  <2>1. states' = states /\ req'[q].pc # "copyNext" /\ req'[q].seen = req[q].seen
    BY <1>1, <1>5 DEF CopyReads, ReqStates, Shape, store
  <2> QED
    BY <1>1, <2>1, SeenKept
<1> QED
  BY <1>3, <1>4, <1>5 DEF Copy

\* What is left to copy of a SQL thread are states of edits.
LEMMA CopySourceStates ==
    ASSUME ThreadInv, NEW t \in Threads, NEW source, source = CopySource(states[t]),
           provider \in Sql
    PROVE  /\ \A i \in DOMAIN source : \E j \in DOMAIN states[t] : source[i] = states[t][j]
           /\ \A i \in DOMAIN source : StateOf(req, source[i])
<1>1. states[t] \in Seq(States) /\ Timed(states[t])
  BY StateTypes DEF ThreadInv
<1>2. PICK b : b = ByTime(states[t])
  OBVIOUS
<1>3. /\ b \in Seq(States)
      /\ \A i \in DOMAIN b : \E j \in DOMAIN states[t] : b[i] = states[t][j]
  BY <1>1, <1>2, ByTimeKeeps
<1>4. \A i \in DOMAIN source : \E k \in DOMAIN b : source[i] = b[k]
  <2>1. CASE provider = "sqlite"
    <3>1. source = LastOf(b, HistoryLimit) /\ HistoryLimit \in Nat
      BY <1>2, <2>1, ConstantsAssumption DEF CopySource, SqliteCopySource
    <3>2. /\ source \in Seq(States) /\ Len(source) <= Len(b)
          /\ \A i \in 1 .. Len(source) : source[i] = b[Len(b) - Len(source) + i]
      BY <1>3, <3>1, LastOfKeeps
    <3>3. /\ Len(b) \in Nat /\ Len(source) \in Nat /\ DOMAIN b = 1 .. Len(b)
          /\ DOMAIN source = 1 .. Len(source)
      BY <1>3, <3>2
    <3>4. \A i \in DOMAIN source : Len(b) - Len(source) + i \in DOMAIN b
      BY <3>2, <3>3
    <3> QED
      BY <3>2, <3>3, <3>4
  <2>2. CASE provider = "sqlserver"
    BY <1>2, <2>2 DEF CopySource
  <2> QED
    BY <2>1, <2>2 DEF Sql
<1>5. \A i \in DOMAIN source : \E j \in DOMAIN states[t] : source[i] = states[t][j]
  BY <1>3, <1>4
<1> QED
  BY <1>5, StoredState

LEMMA CopyHistoryStates ==
    ASSUME ThreadInv, NEW q \in Requests, CopyHistory(q)
    PROVE  StatesOK'
<1>1. /\ Moved(q) /\ Shape /\ req[q] \in ReqStates /\ provider # "memory"
      /\ req[q].thread \in Threads /\ req[q].target \in Threads
  BY StepMoves DEF Step, ThreadInv, Shape, CopyHistory, CallsOK, PlaceOK, ReqStates, Threads
<1>2. req[q].seen # None => StateOf(req, req[q].seen)
  BY DEF ThreadInv, StatesOK
<1>3. PICK source : source = CopySource(states[req[q].thread])
  OBVIOUS
<1>4. provider \in Sql => \A i \in DOMAIN source : StateOf(req, source[i])
  BY <1>1, <1>3, CopySourceStates
<1>5. CASE provider = "sqlserver"
  <2>1. /\ states' = [states EXCEPT ![req[q].target] = source]
        /\ Copied(q, source)
    BY <1>3, <1>5 DEF CopyHistory, SqlServerCopyCommit
  <2>2. req'[q].seen = req[q].seen /\ req'[q].pc = "answered"
    BY <1>1, <2>1, CopiedSame
  <2> QED
    BY <1>1, <1>2, <1>4, <1>5, <2>1, <2>2, StatesFrameOne DEF Sql
<1>6. CASE provider # "sqlserver" /\ source = <<>>
  <2>1. Copied(q, <<>>) /\ states' = states
    BY <1>3, <1>6 DEF CopyHistory, store
  <2>2. req'[q].seen = req[q].seen /\ req'[q].pc = "answered"
    BY <1>1, <2>1, CopiedSame
  <2> QED
    BY <1>1, <2>1, <2>2, SeenKept
<1>7. CASE provider # "sqlserver" /\ source # <<>>
  <2>1. req' = [req EXCEPT ![q].pc = "copyNext", ![q].todo = source] /\ states' = states
    BY <1>3, <1>7 DEF CopyHistory, store
  <2>2. req'[q].seen = req[q].seen /\ req'[q].todo = source
    BY <1>1, <2>1 DEF ReqStates, Shape
  <2> QED
    BY <1>1, <1>2, <1>4, <2>1, <2>2, StatesFrameQuiet DEF Sql
<1> QED
  BY <1>5, <1>6, <1>7

\* What is left to copy after one state is part of what was.
LEMMA AdvanceTodo ==
    ASSUME ThreadInv, NEW q \in Requests, NEW h \in Seq(States), CopyAdvances(q, h),
           UNCHANGED fixed, req[q].pc \in {"copyNext", "copyUpload"}
    PROVE  /\ req'[q].seen # None => StateOf(req, req'[q].seen)
           /\ req'[q].pc = "copyNext" /\ provider = "sqlite" =>
                 \A i \in DOMAIN req'[q].todo : StateOf(req, req'[q].todo[i])
<1>1. Shape /\ CallsOK /\ StatesOK /\ PlaceOK(provider, req[q])
  BY DEF ThreadInv, CallsOK
<1>2. CASE Len(req[q].todo) = 1 /\ req'[q].pc = "answered" /\ req'[q].seen = req[q].seen
  BY <1>1, <1>2 DEF StatesOK
<1>3. CASE Len(req[q].todo) # 1 /\ req'[q].seen = None /\ req'[q].todo = Tail(req[q].todo)
  <2>1. CASE provider = "sqlite"
    <3>1. PICK todo : todo = req[q].todo
      OBVIOUS
    <3>2. todo \in Seq(States) /\ todo # <<>> /\ req[q].pc = "copyNext"
      BY <1>1, <2>1, <3>1 DEF PlaceOK
    <3>3. \A i \in DOMAIN todo : StateOf(req, todo[i])
      BY <1>1, <2>1, <3>1, <3>2 DEF StatesOK
    <3>4. PICK rest : rest = Tail(todo)
      OBVIOUS
    <3>5. /\ Len(todo) \in Nat \ {0} /\ rest \in Seq(States) /\ Len(rest) = Len(todo) - 1
          /\ \A i \in 1 .. Len(todo) - 1 : rest[i] = todo[i + 1]
      BY <3>2, <3>4, TailOf
    <3>6. \A i \in DOMAIN rest : i + 1 \in DOMAIN todo /\ rest[i] = todo[i + 1]
      BY <3>2, <3>5
    <3> QED
      BY <1>3, <3>1, <3>3, <3>4, <3>6
  <2> QED
    BY <1>3, <2>1
<1> QED
  BY <1>1, <1>2, <1>3, CopyAdvancesMoves

LEMMA CopyNextStates ==
    ASSUME ThreadInv, NEW q \in Requests, CopyNext(q)
    PROVE  StatesOK'
<1>1. /\ Moved(q) /\ Shape /\ req[q] \in ReqStates /\ UNCHANGED fixed /\ CallsOK
      /\ req[q].thread \in Threads /\ req[q].target \in Threads
      /\ req[q].pc = "copyNext" /\ req[q].todo # <<>>
  BY StepMoves DEF Step, ThreadInv, Shape, CopyNext, CallsOK, PlaceOK, ReqStates, Threads
<1>2. CASE SqliteCopyNext(q)
  <2>1. PICK x : x = Head(req[q].todo)
    OBVIOUS
  <2>2. PICK h : h = Append(states[req[q].target], x)
    OBVIOUS
  <2>3. /\ provider = "sqlite" /\ states' = [states EXCEPT ![req[q].target] = h]
        /\ CopyAdvances(q, h)
    BY <1>2, <2>1, <2>2 DEF SqliteCopyNext
  <2>4. req[q].todo \in Seq(States)
    BY <1>1, <2>3 DEF PlaceOK, CallsOK
  <2>5. x \in States /\ x = req[q].todo[1] /\ 1 \in DOMAIN req[q].todo
    BY <1>1, <2>1, <2>4, TailOf
  <2>6. StateOf(req, x)
    BY <1>1, <2>3, <2>5 DEF ThreadInv, StatesOK
  <2>7. states[req[q].target] \in Seq(States)
    BY <1>1, StateTypes
  <2>8. /\ h \in Seq(States)
        /\ \A i \in DOMAIN h : h[i] = x \/ \E j \in DOMAIN states[req[q].target] :
                                             h[i] = states[req[q].target][j]
    BY <2>2, <2>5, <2>7, AppendKeeps
  <2>9. \A i \in DOMAIN h : StateOf(req, h[i])
    BY <1>1, <2>6, <2>8, StoredState
  <2> QED
    BY <1>1, <2>3, <2>8, <2>9, AdvanceTodo, StatesFrameOne
<1>3. CASE AzureCopyNext(q)
  <2>1. PICK blob : blob = Blob(req[q].thread, Head(req[q].todo))
    OBVIOUS
  <2>2. provider = "azure" /\ states' = states
    BY <1>3 DEF AzureCopyNext
  <2>3. CASE blob = None
    <3>1. CopyAdvances(q, states[req[q].target])
      BY <1>3, <2>1, <2>3 DEF AzureCopyNext
    <3>2. states[req[q].target] \in Seq(States)
      BY <1>1, StateTypes
    <3> QED
      BY <1>1, <2>2, <3>1, <3>2, AdvanceTodo, StatesFrameQuiet
  <2>4. CASE blob # None
    <3>1. StateOf(req, blob)
      BY <1>1, <2>1, <2>4, BlobStored, StoredState
    <3>2. req' = GotoWith(q, "copyUpload", blob)
      BY <1>3, <2>1, <2>4 DEF AzureCopyNext
    <3>3. req'[q].seen = blob /\ req'[q].pc = "copyUpload"
      BY <1>1, <3>2 DEF GotoWith, ReqStates, Shape
    <3> QED
      BY <1>1, <2>2, <3>1, <3>3, StatesFrameQuiet
  <2> QED
    BY <2>3, <2>4
<1> QED
  BY <1>2, <1>3 DEF CopyNext

LEMMA CopyUploadStates ==
    ASSUME ThreadInv, NEW q \in Requests, CopyUpload(q)
    PROVE  StatesOK'
<1>1. /\ Moved(q) /\ Shape /\ req[q] \in ReqStates /\ UNCHANGED fixed /\ CallsOK
      /\ req[q].target \in Threads /\ provider = "azure"
      /\ req[q].pc = "copyUpload" /\ req[q].seen # None
  BY StepMoves DEF Step, ThreadInv, Shape, CopyUpload, CallsOK, PlaceOK, ReqStates, Threads
<1>2. PICK h : h = AzureAddState(states[req[q].target], req[q].seen)
  OBVIOUS
<1>3. states' = [states EXCEPT ![req[q].target] = h] /\ CopyAdvances(q, h)
  BY <1>2 DEF CopyUpload
<1>4. PICK x : x = req[q].seen
  OBVIOUS
<1>5. x \in States /\ StateOf(req, x)
  BY <1>1, <1>4 DEF ReqStates, ThreadInv, StatesOK
<1>6. PICK s \in Seq(States) : s = states[req[q].target]
  BY <1>1, StateTypes
<1>7. Distinct(s) /\ \A i \in DOMAIN s : StateOf(req, s[i])
  BY <1>1, <1>6, StoredState
<1>8. /\ h \in Seq(States) /\ Distinct(h)
      /\ \A i \in DOMAIN h : h[i] = x \/ \E j \in DOMAIN s : h[i] = s[j]
  BY <1>2, <1>4, <1>5, <1>6, <1>7, AzureAddStateKeeps
<1>9. \A i \in DOMAIN h : StateOf(req, h[i])
  BY <1>5, <1>7, <1>8
<1> QED
  BY <1>1, <1>3, <1>8, <1>9, AdvanceTodo, StatesFrameOne

LEMMA StatesKept ==
    ASSUME ThreadInv, NEW q \in Requests, Step(q) \/ CallFails(q)
    PROVE  StatesOK'
BY EasyStates, ReadNewestStates, DownloadNewestStates, AppendStateStates, RemoveThreadStates,
   PurgeStates, CopyStates, CopyHistoryStates, CopyNextStates, CopyUploadStates DEF Step

-----------------------------------------------------------------------------
(* Which call comes after which.                                           *)

LEMMA Landing ==
    ASSUME ThreadInv, NEW q \in Requests
    PROVE  /\ FindToCreate(q)   => req'[q].pc \in {"answered", "insert", "failed", "modify"}
           /\ Insert(q)         => req'[q].pc \in Ends
           /\ FindToPatch(q)    => req'[q].pc \in {"failed", "modify"}
           /\ Modify(q)         => req'[q].pc \in Ends \union {"write"}
           /\ Write(q)          => req'[q].pc \in Ends
           /\ FindToEdit(q)     => req'[q].pc \in {"failed", "newest"}
           /\ ReadNewest(q)     => req'[q].pc \in {"download", "append"}
           /\ DownloadNewest(q) => req'[q].pc = "append"
           /\ AppendState(q)    => req'[q].pc \in {"failed", "modify"}
           /\ RemoveThread(q)   => req'[q].pc \in Ends \union {"list"}
           /\ ListHistory(q)    => req'[q].pc \in Ends \union {"purge"}
           /\ Purge(q)          => req'[q].pc \in Ends \union {"purge"}
           /\ FindToCopy(q)     => req'[q].pc \in {"failed", "copy"}
           /\ Copy(q)           => req'[q].pc \in Ends \union {"copyHistory", "copyInsert"}
           /\ CopyInsert(q)     => req'[q].pc = "copyHistory"
           /\ CopyHistory(q)    => req'[q].pc \in {"answered", "copyNext"}
           /\ CopyNext(q)       => req'[q].pc \in {"answered", "copyNext", "copyUpload"}
           /\ CopyUpload(q)     => req'[q].pc \in {"answered", "copyNext"}
           /\ CallFails(q)      => req'[q].pc = "failed"
<1>1. Shape /\ req \in [Requests -> ReqStates] /\ req[q] \in ReqStates
  BY DEF ThreadInv, Shape
<1>2. \A call : req' = Goto(q, call) => req'[q].pc = call
  BY <1>1, GotoSame
<1>3. \A call, s : req' = GotoWith(q, call, s) => req'[q].pc = call
  BY <1>1 DEF GotoWith, ReqStates
<1>4. Answer(q) => req'[q].pc = "answered"
  BY <1>2 DEF Answer
<1>5. \A found : Removed(q, found) => req'[q].pc \in Ends
  BY <1>2 DEF Removed, RemoveAnswer, Ends
<1>6. \A h : Copied(q, h) => req'[q].pc = "answered"
  BY <1>1, CopiedSame
<1>7. \A h : CopyAdvances(q, h) => req'[q].pc \in {"answered", "copyNext"}
  BY <1>1, <1>6 DEF CopyAdvances, ReqStates
<1>8. FindToCreate(q) => req'[q].pc \in {"answered", "insert", "failed", "modify"}
  BY <1>2, <1>4 DEF FindToCreate
<1>9. Insert(q) => req'[q].pc \in Ends
  BY <1>2, <1>4 DEF Insert, Fails, Ends
<1>10. FindToPatch(q) => req'[q].pc \in {"failed", "modify"}
  BY <1>2 DEF FindToPatch
<1>11. Modify(q) => req'[q].pc \in Ends \union {"write"}
  <2>1. UpdateReads(q) => req'[q].pc = "write"
    BY <1>1 DEF UpdateReads, ReqStates
  <2> QED
    BY <1>2, <1>4, <2>1 DEF Modify, ModifyMissing, MemoryUpdate, Ends
<1>12. Write(q) => req'[q].pc \in Ends
  BY <1>2, <1>4 DEF Write, SqlUpdateWrites, AzureUpdateWrites, Ends
<1>13. FindToEdit(q) => req'[q].pc \in {"failed", "newest"}
  BY <1>1, <1>2 DEF FindToEdit, ReqStates
<1>14. ReadNewest(q) => req'[q].pc \in {"download", "append"}
  BY <1>1, <1>3 DEF ReadNewest, ReqStates
<1>15. DownloadNewest(q) => req'[q].pc = "append"
  BY <1>1 DEF DownloadNewest, ReqStates
<1>16. AppendState(q) => req'[q].pc \in {"failed", "modify"}
  BY <1>2 DEF AppendState, Fails
<1>17. RemoveThread(q) => req'[q].pc \in Ends \union {"list"}
  <2>1. AzureRemove(q) => req'[q].pc = "list"
    BY <1>1 DEF AzureRemove, ReqStates
  <2> QED
    BY <1>5, <2>1 DEF RemoveThread, RemoveAtOnce
<1>18. ListHistory(q) => req'[q].pc \in Ends \union {"purge"}
  BY <1>1, <1>5 DEF ListHistory, ReqStates
<1>19. Purge(q) => req'[q].pc \in Ends \union {"purge"}
  <2> SUFFICES ASSUME Purge(q)
               PROVE  req'[q].pc \in Ends \union {"purge"}
    OBVIOUS
  <2>1. PICK found \in BOOLEAN : found = (req[q].found \/ Head(req[q].todo) \in Ats(states[req[q].thread]))
    BY <1>1 DEF ReqStates
  <2>2. \/ Removed(q, found)
        \/ req' = [req EXCEPT ![q].todo = Tail(@), ![q].found = found] /\ req[q].pc = "purge"
    BY <2>1 DEF Purge
  <2> QED
    BY <1>1, <1>5, <2>2 DEF ReqStates
<1>20. FindToCopy(q) => req'[q].pc \in {"failed", "copy"}
  BY <1>2 DEF FindToCopy
<1>21. Copy(q) => req'[q].pc \in Ends \union {"copyHistory", "copyInsert"}
  <2>1. CopyReads(q) => req'[q].pc \in {"copyHistory", "copyInsert"}
    BY <1>1 DEF CopyReads, ReqStates
  <2> QED
    BY <1>2, <1>6, <2>1 DEF Copy, MemoryCopyThread, Ends
<1>22. CopyInsert(q) => req'[q].pc = "copyHistory"
  BY <1>2 DEF CopyInsert
<1>23. CopyHistory(q) => req'[q].pc \in {"answered", "copyNext"}
  BY <1>1, <1>6 DEF CopyHistory, SqlServerCopyCommit, ReqStates
<1>24. CopyNext(q) => req'[q].pc \in {"answered", "copyNext", "copyUpload"}
  BY <1>3, <1>7 DEF CopyNext, SqliteCopyNext, AzureCopyNext
<1>25. CopyUpload(q) => req'[q].pc \in {"answered", "copyNext"}
  BY <1>7 DEF CopyUpload
<1>26. CallFails(q) => req'[q].pc = "failed"
  BY <1>2 DEF CallFails
<1> QED
  BY <1>8, <1>9, <1>10, <1>11, <1>12, <1>13, <1>14, <1>15, <1>16, <1>17, <1>18, <1>19,
     <1>20, <1>21, <1>22, <1>23, <1>24, <1>25, <1>26

\* What a step tells the clients.
LEMMA GhostStep ==
    ASSUME ThreadInv, NEW q \in Requests, Step(q) \/ CallFails(q)
    PROVE  \/ UNCHANGED ghost
           \/ Answer(q) /\ req[q].pc \in {"find", "insert", "modify", "write"}
                /\ (req[q].pc = "find" => req[q].op \in Creates)
           \/ RemoveThread(q)
           \/ /\ UNCHANGED <<owed, born>> /\ req[q].pc \in {"list", "purge"}
              /\ \E found : Removed(q, found)
BY DEF Step, CallFails, FindToCreate, Insert, Fails, FindToPatch, Modify, ModifyMissing, MemoryUpdate,
       UpdateReads, Write, SqlUpdateWrites, AzureUpdateWrites, FindToEdit, ReadNewest,
       DownloadNewest, AppendState, ListHistory, Purge, FindToCopy, Copy, CopyInsert, CopyHistory,
       CopyNext, CopyUpload, ghost

LEMMA TalesKept ==
    ASSUME ThreadInv, NEW q \in Requests, Step(q) \/ CallFails(q)
    PROVE  TalesOK'
<1>1. Moved(q) /\ Shape /\ TalesOK
  BY StepMoves DEF ThreadInv
<1>2. req[q].thread \in Threads
  BY <1>1 DEF ThreadInv, CallsOK, PlaceOK, Moved, InFlight, Calls
<1>3. \A p \in Requests : /\ req'[p].op = req[p].op /\ req'[p].thread = req[p].thread
                          /\ req[p].pc = "answered" => req'[p].pc = "answered"
  BY <1>1, PastMoved DEF Ends
<1>5. CASE Answer(q) /\ req[q].pc \in {"find", "insert", "modify", "write"}
  <2>1. req'[q].pc = "answered" /\ gone' = gone
    BY <1>1, <1>5, GotoSame DEF Answer
  <2>2. \A t \in Threads : \A e \in owed'[t] :
           e \in owed[t] \/ (e = q /\ t = req[q].thread /\ req[q].op = "edit")
    BY <1>1, <1>2, <1>5 DEF Answer, Shape
  <2>3. \A t \in Threads : \A b \in born'[t] :
           b \in born[t] \/ (b = q /\ t = req[q].thread)
    BY <1>1, <1>2, <1>5 DEF Answer, Shape
  <2>4. \A t \in Threads : owed[t] \subseteq Requests
    BY <1>1 DEF Shape
  <2> QED
    BY <1>1, <1>3, <2>1, <2>2, <2>3, <2>4 DEF TalesOK
<1>6. \A t \in gone' : t \in gone \/ t = req[q].thread
  BY GhostStep DEF Answer, ghost, RemoveThread, RemoveAtOnce, AzureRemove, Removed
<1>7. CASE RemoveThread(q)
  <2>1. \A t \in Threads : owed'[t] \subseteq owed[t] /\ born'[t] \subseteq born[t]
    BY <1>1, <1>2, <1>7 DEF RemoveThread, Forget, Shape
  <2>2. \A t \in Threads : owed[t] \subseteq Requests
    BY <1>1 DEF Shape
  <2> QED
    BY <1>1, <1>3, <1>6, <2>1, <2>2 DEF TalesOK
<1>8. CASE UNCHANGED <<owed, born>>
  <2>1. \A t \in Threads : owed[t] \subseteq Requests
    BY <1>1 DEF Shape
  <2> QED
    BY <1>1, <1>3, <1>6, <1>8, <2>1 DEF TalesOK
<1> QED
  BY <1>5, <1>7, <1>8, GhostStep DEF ghost

-----------------------------------------------------------------------------
(* Which threads there are.                                                *)

LEMMA ThreadStep ==
    ASSUME ThreadInv, NEW q \in Requests, Step(q) \/ CallFails(q)
    PROVE  \/ thread' = thread
           \/ /\ req[q].pc = "insert" /\ provider \in Sql => thread[req[q].thread] = None
              /\ req[q].pc = "insert" \/ thread[req[q].thread] # None
              /\ req[q].pc \in {"insert", "modify", "write"}
              /\ thread' = [thread EXCEPT ![req[q].thread] = thread'[req[q].thread]]
              /\ thread'[req[q].thread] # None
           \/ /\ req[q].pc \in {"copy", "copyInsert", "copyHistory"}
              /\ thread' = [thread EXCEPT ![req[q].target] = thread'[req[q].target]]
              /\ thread'[req[q].target] # None
           \/ RemoveThread(q) /\ thread' = [thread EXCEPT ![req[q].thread] = None]
<1>1. /\ Shape /\ req[q] \in ReqStates /\ InFlight(q) /\ PlaceOK(provider, req[q])
      /\ req[q].thread \in Threads
  BY StepMoves DEF ThreadInv, Shape, Moved, CallsOK, PlaceOK, InFlight, Calls
<1>2. \A t \in Threads : \A record \in Records :
         PutThread(t, record) => /\ thread' = [thread EXCEPT ![t] = thread'[t]]
                                 /\ thread'[t] # None
  <2> SUFFICES ASSUME NEW t \in Threads, NEW record \in Records, PutThread(t, record)
               PROVE  thread' = [thread EXCEPT ![t] = thread'[t]] /\ thread'[t] # None
    OBVIOUS
  <2>1. thread'[t] # None
    BY <1>1, PutThreadShape, NoneAssumption
  <2>2. thread' = [thread EXCEPT ![t] = thread'[t]]
    BY <1>1 DEF PutThread, Shape
  <2> QED
    BY <2>1, <2>2
<1>3. req[q].op = "copy" => req[q].target \in Threads
  BY <1>1 DEF PlaceOK, ReqStates, Threads
<1>4. CASE Insert(q)
  <2>1. [meta |-> q, values |-> <<>>, tag |-> 0] \in Records
    BY DEF Records
  <2> QED
    BY <1>1, <1>2, <1>4, <2>1 DEF Insert, Fails, store
<1>5. CASE Modify(q)
  <2>1. thread[req[q].thread] # None => Merged(q, thread[req[q].thread]) \in Records
    BY <1>1, SomeRecord, MergedRecord
  <2> QED
    BY <1>1, <1>2, <1>5, <2>1 DEF Modify, MemoryUpdate, UpdateReads, store
<1>6. CASE Write(q)
  <2>1. req[q].old \in Records
    BY <1>1, <1>6, NoneAssumption DEF PlaceOK, ReqStates, Write
  <2>2. Merged(q, req[q].old) \in Records
    BY <1>1, <2>1, MergedRecord
  <2> QED
    BY <1>1, <1>2, <1>6, <2>2 DEF Write, SqlUpdateWrites, AzureUpdateWrites
<1>7. CASE Copy(q)
  <2>1. req[q].op = "copy"
    BY <1>1, <1>7 DEF Copy, PlaceOK
  <2>2. thread[req[q].thread] # None => thread[req[q].thread] \in Records
    BY <1>1, SomeRecord
  <2> QED
    BY <1>1, <1>2, <1>3, <1>7, <2>1, <2>2 DEF Copy, MemoryCopyThread, CopyReads, store
<1>8. CASE CopyInsert(q) \/ CopyHistory(q)
  <2>1. req[q].op = "copy" /\ req[q].old \in Records
        /\ req[q].pc \in {"copyInsert", "copyHistory"}
    BY <1>1, <1>8, NoneAssumption DEF CopyInsert, CopyHistory, PlaceOK, ReqStates
  <2>2. thread' = thread \/ PutThread(req[q].target, req[q].old)
    BY <1>8 DEF CopyInsert, CopyHistory, SqlServerCopyCommit, store
  <2> QED
    BY <1>2, <1>3, <2>1, <2>2
<1>9. CASE RemoveThread(q)
  BY <1>9 DEF RemoveThread, RemoveAtOnce, AzureRemove
<1>10. CASE \/ FindToCreate(q) \/ FindToPatch(q) \/ FindToEdit(q) \/ ReadNewest(q)
            \/ DownloadNewest(q) \/ AppendState(q) \/ ListHistory(q) \/ Purge(q)
            \/ FindToCopy(q) \/ CopyNext(q) \/ CopyUpload(q) \/ CallFails(q)
  BY <1>10 DEF FindToCreate, FindToPatch, FindToEdit, ReadNewest, DownloadNewest, AppendState,
               Fails, ListHistory, Purge, FindToCopy, CopyNext, CopyUpload, CallFails, store
<1> QED
  BY <1>4, <1>5, <1>6, <1>7, <1>8, <1>9, <1>10 DEF Step

\* Only a delete removes a thread.
LEMMA ThreadStays ==
    ASSUME ThreadInv, NEW q \in Requests, Step(q) \/ CallFails(q), NEW t \in Threads,
           thread[t] # None, RemoveThread(q) => t # req[q].thread
    PROVE  thread'[t] # None
<1>1. thread \in [Threads -> Records \union {None}]
  BY DEF ThreadInv, Shape
<1> QED
  BY <1>1, ThreadStep

LEMMA BornKept ==
    ASSUME ThreadInv, NEW q \in Requests, Step(q) \/ CallFails(q)
    PROVE  BornOK'
<1>1. Moved(q) /\ Shape /\ BornOK /\ OverlapOK
  BY StepMoves DEF ThreadInv
<1>2. req[q].thread \in Threads
  BY <1>1 DEF ThreadInv, CallsOK, PlaceOK, Moved, InFlight, Calls
<1>3. (provider' = provider) /\ (Serial' <=> Serial)
  BY <1>1 DEF Moved, fixed, Serial
<1>4. \A t \in Threads : \A b \in born'[t] :
         \/ b \in born[t] /\ (RemoveThread(q) => t # req[q].thread)
         \/ b = q /\ t = req[q].thread /\ req[q].pc = "insert" /\ Answer(q)
  BY <1>1, <1>2, GhostStep DEF Answer, ghost, RemoveThread, Forget, Shape
<1>5. \A t \in Threads : born'[t] # {} => thread'[t] # None
  <2> SUFFICES ASSUME NEW t \in Threads, NEW b \in born'[t]
               PROVE  thread'[t] # None
    BY <1>1 DEF Shape
  <2>1. CASE b \in born[t] /\ (RemoveThread(q) => t # req[q].thread)
    BY <1>1, <2>1, ThreadStays DEF BornOK
  <2>2. CASE b = q /\ t = req[q].thread /\ req[q].pc = "insert" /\ Answer(q)
    <3>1. Insert(q)
      <4>1. req'[q].pc = "answered"
        BY <1>1, <2>2, GotoSame DEF Answer
      <4> QED
        BY <2>2, <4>1, Landing
           DEF Step, FindToCreate, FindToPatch, Modify, Write, FindToEdit, ReadNewest,
               DownloadNewest, AppendState, RemoveThread, ListHistory, Purge, FindToCopy, Copy,
               CopyInsert, CopyHistory, CopyNext, CopyUpload
    <3>2. thread[t] # None \/ PutThread(t, [meta |-> q, values |-> <<>>, tag |-> 0])
      <4>1. ~Fails(q)
        <5>1. req'[q].pc = "answered"
          BY <1>1, <2>2, GotoSame DEF Answer
        <5>2. Fails(q) => req'[q].pc = "failed"
          BY <1>1, GotoSame DEF Fails
        <5> QED
          BY <5>1, <5>2
      <4> QED
        BY <2>2, <3>1, <4>1 DEF Insert
    <3>3. [meta |-> q, values |-> <<>>, tag |-> 0] \in Records
      BY DEF Records
    <3>4. CASE PutThread(t, [meta |-> q, values |-> <<>>, tag |-> 0])
      BY <1>1, <3>3, <3>4, PutThreadShape, NoneAssumption
    <3>5. CASE thread[t] # None
      <4>1. ~RemoveThread(q)
        BY <2>2 DEF RemoveThread
      <4> QED
        BY <3>5, <4>1, ThreadStays
    <3> QED
      BY <3>2, <3>4, <3>5
  <2> QED
    BY <1>4, <2>1, <2>2
<1>6. Serial => \A p \in Requests : req'[p].pc = "insert" => thread'[req'[p].thread] = None
  <2> SUFFICES ASSUME Serial, NEW p \in Requests, req'[p].pc = "insert"
               PROVE  thread'[req'[p].thread] = None
    OBVIOUS
  <2>1. InFlight(p) /\ p = q
    <3>1. InFlight(p)
      BY <1>1, PastMoved DEF InFlight, Calls
    <3> QED
      BY <1>1, <3>1 DEF OverlapOK, Moved
  <2>2. FindToCreate(q)
    BY <2>1, Landing DEF Step, Ends
  <2>3. req'[q].pc # "answered"
    BY <2>1
  <2>4. thread[req[q].thread] = None /\ thread' = thread
    <3>1. ~Answer(q)
      BY <1>1, <2>3, GotoSame DEF Answer
    <3>2. \A call : req' = Goto(q, call) => call = "insert"
      BY <1>1, <2>1, GotoSame
    <3> QED
      BY <2>2, <3>1, <3>2 DEF FindToCreate, store
  <2> QED
    BY <1>1, <2>1, <2>4 DEF Moved
<1>7. provider \in Sql \/ Serial => \A t \in Threads : \A a, b \in born'[t] : a = b
  <2> SUFFICES ASSUME provider \in Sql \/ Serial, NEW t \in Threads,
                      NEW a \in born'[t], NEW b \in born'[t]
               PROVE  a = b
    OBVIOUS
  <2>1. CASE req[q].pc = "insert" /\ Answer(q) /\ t = req[q].thread
    <3>1. thread[t] = None
      <4>1. CASE Serial
        BY <1>1, <2>1, <4>1 DEF BornOK
      <4>2. CASE provider \in Sql
        <5>1. req'[q].pc = "answered" /\ req[q].pc # "find"
          BY <1>1, <2>1, GotoSame DEF Answer
        <5>2. Insert(q)
          BY <2>1, <5>1, Landing
             DEF Step, FindToCreate, FindToPatch, Modify, Write, FindToEdit, ReadNewest,
                 DownloadNewest, AppendState, RemoveThread, ListHistory, Purge, FindToCopy, Copy,
                 CopyInsert, CopyHistory, CopyNext, CopyUpload
        <5>3. Fails(q) => req'[q].pc = "failed"
          BY <1>1, GotoSame DEF Fails
        <5> QED
          BY <2>1, <4>2, <5>1, <5>2, <5>3 DEF Insert
      <4> QED
        BY <4>1, <4>2
    <3>2. born[t] = {}
      BY <1>1, <3>1 DEF BornOK
    <3> QED
      BY <1>4, <3>2
  <2>2. CASE ~(req[q].pc = "insert" /\ Answer(q) /\ t = req[q].thread)
    BY <1>1, <1>4, <2>2 DEF BornOK
  <2> QED
    BY <2>1, <2>2
<1> QED
  BY <1>3, <1>5, <1>6, <1>7 DEF BornOK

-----------------------------------------------------------------------------
(* Which states there are.                                                 *)

\* The state that q, which is done with an edit, added.
Added(q, h) ==
    \E x \in States : x.by = q /\ x.at = req[q].at /\ h = AddState(states[req[q].thread], x)

LEMMA AppendAdds ==
    ASSUME ThreadInv, NEW q \in Requests, AppendState(q)
    PROVE  \/ Fails(q)
           \/ /\ req'[q].pc = "modify"
              /\ provider \in Sql => thread[req[q].thread] # None
              /\ states' = [states EXCEPT ![req[q].thread] = states'[req[q].thread]]
              /\ Added(q, states'[req[q].thread])
<1>1. /\ Shape /\ req[q] \in ReqStates /\ PlaceOK(provider, req[q])
      /\ req[q].thread \in Threads /\ states \in [Threads -> Seq(States)]
  BY DEF ThreadInv, Shape, CallsOK, PlaceOK, AppendState
<1>2. CASE ~(provider \in Sql /\ thread[req[q].thread] = None)
  <2>1. PICK x : x = [by |-> q, at |-> req[q].at, values |-> MergedValues(q)]
    OBVIOUS
  <2>2. x \in States /\ x.by = q /\ x.at = req[q].at
    BY <1>1, <2>1, MadeState DEF AppendState, PlaceOK
  <2>3. PICK h : h = AddState(states[req[q].thread], x)
    OBVIOUS
  <2>4. /\ states' = [states EXCEPT ![req[q].thread] = h]
        /\ req' = Goto(q, "modify")
    BY <1>2, <2>1, <2>3 DEF AppendState
  <2>5. states'[req[q].thread] = h /\ req'[q].pc = "modify"
    BY <1>1, <2>4, GotoSame
  <2>6. Added(q, h)
    BY <2>2, <2>3 DEF Added
  <2> QED
    BY <1>2, <2>4, <2>5, <2>6
<1> QED
  BY <1>2 DEF AppendState

LEMMA StatesStep ==
    ASSUME ThreadInv, NEW q \in Requests, Step(q) \/ CallFails(q)
    PROVE  \/ states' = states
           \/ /\ AppendState(q) /\ req'[q].pc = "modify"
              /\ provider \in Sql => thread[req[q].thread] # None
              /\ states' = [states EXCEPT ![req[q].thread] = states'[req[q].thread]]
              /\ Added(q, states'[req[q].thread])
           \/ /\ RemoveThread(q) /\ provider # "azure"
              /\ states' = [states EXCEPT ![req[q].thread] = <<>>]
           \/ /\ Purge(q) /\ provider = "azure"
              /\ states' = [states EXCEPT ![req[q].thread] =
                                Without(states[req[q].thread], Head(req[q].todo))]
           \/ /\ req[q].pc \in {"copy", "copyHistory", "copyNext", "copyUpload"}
              /\ states' = [states EXCEPT ![req[q].target] = states'[req[q].target]]
<1>1. /\ Moved(q) /\ Shape /\ req[q] \in ReqStates /\ PlaceOK(provider, req[q])
      /\ req[q].thread \in Threads
      /\ req[q].op = "copy" => req[q].target \in Threads
      /\ states \in [Threads -> Seq(States)]
  BY StepMoves DEF ThreadInv, Shape, CallsOK, PlaceOK, ReqStates, Threads, Moved, InFlight, Calls
<1>2. CASE AppendState(q)
  BY <1>2, AppendAdds DEF Fails, store
<1>3. CASE RemoveThread(q)
  BY <1>3 DEF RemoveThread, RemoveAtOnce, AzureRemove
<1>4. CASE Purge(q)
  BY <1>1, <1>4 DEF Purge, PlaceOK
<1>5. CASE req[q].pc \in {"copy", "copyHistory", "copyNext", "copyUpload"}
  <2>1. req[q].op = "copy"
    BY <1>1, <1>5 DEF PlaceOK
  <2>2. \A h : states' = [states EXCEPT ![req[q].target] = h] =>
                  states' = [states EXCEPT ![req[q].target] = states'[req[q].target]]
    BY <1>1, <2>1
  <2>3. states' = states \/ \E h : states' = [states EXCEPT ![req[q].target] = h]
    BY <1>5 DEF Step, CallFails, FindToCreate, Insert, FindToPatch, Modify, Write, FindToEdit,
                ReadNewest, DownloadNewest, AppendState, RemoveThread, ListHistory, Purge,
                FindToCopy, Copy, MemoryCopyThread, CopyReads, CopyInsert, CopyHistory,
                SqlServerCopyCommit, CopyNext, SqliteCopyNext, AzureCopyNext, CopyUpload, store
  <2> QED
    BY <1>5, <2>2, <2>3
<1>6. CASE ~(\/ AppendState(q) \/ RemoveThread(q) \/ Purge(q)
             \/ req[q].pc \in {"copy", "copyHistory", "copyNext", "copyUpload"})
  BY <1>6 DEF Step, CallFails, FindToCreate, Insert, Fails, FindToPatch, Modify, MemoryUpdate,
              UpdateReads, Write, FindToEdit, ReadNewest, DownloadNewest, ListHistory, FindToCopy,
              Copy, CopyInsert, CopyHistory, CopyNext, CopyUpload, store
<1> QED
  BY <1>2, <1>3, <1>4, <1>5, <1>6

\* What is added to a history is in it, and what was in it stays or gives
\* way to a state of its millisecond.
LEMMA AddedKeeps ==
    ASSUME ThreadInv, NEW q \in Requests, req[q].thread \in Threads, NEW h, Added(q, h)
    PROVE  /\ h \in Seq(States) /\ h # <<>> /\ q \in Bys(h)
           /\ \A e \in Bys(states[req[q].thread]) :
                 e \in Bys(h) \/ (provider = "azure" /\ req[e].at \in Ats(h))
           /\ Ats(states[req[q].thread]) \subseteq Ats(h)
<1>1. PICK x \in States : x.by = q /\ x.at = req[q].at /\ h = AddState(states[req[q].thread], x)
  BY DEF Added
<1>2. PICK s \in Seq(States) : s = states[req[q].thread]
  BY StateTypes DEF ThreadInv
<1>3. \A i \in DOMAIN s : s[i].at = req[s[i].by].at
  BY <1>2 DEF ThreadInv, StatesOK, StateOf
<1>4. CASE provider = "azure"
  <2>1. h = AzureAddState(s, x) /\ Distinct(s)
    BY <1>1, <1>2, <1>4 DEF AddState, ThreadInv, StatesOK
  <2>2. /\ h \in Seq(States) /\ h # <<>>
        /\ \E i \in DOMAIN h : h[i] = x
        /\ \A j \in DOMAIN s : s[j].at # x.at => \E i \in DOMAIN h : h[i] = s[j]
    <3>1. s \in Seq(States) /\ Distinct(s) /\ x \in States /\ h = AzureAddState(s, x)
      BY <1>1, <1>2, <2>1
    <3>2. h \in Seq(States) /\ h # <<>>
      BY <3>1, AzureAddStateKeeps
    <3>3. \E i \in DOMAIN h : h[i] = x
      BY <3>1, AzureAddStateKeeps
    <3>4. \A j \in DOMAIN s : s[j].at # x.at => \E i \in DOMAIN h : h[i] = s[j]
      BY <3>1, AzureAddStateKeeps
    <3> QED
      BY <3>2, <3>3, <3>4
  <2>3. x.by \in Bys(h) /\ x.at \in Ats(h)
    BY <2>2 DEF Bys, Ats
  <2>4. \A j \in DOMAIN s : s[j].at \in Ats(h) /\ (s[j].by \in Bys(h) \/ s[j].at = x.at)
    BY <2>2, <2>3 DEF Bys, Ats
  <2> QED
    BY <1>1, <1>2, <1>3, <1>4, <2>2, <2>3, <2>4 DEF Bys, Ats
<1>5. CASE provider # "azure"
  <2>1. h = Append(s, x)
    BY <1>1, <1>2, <1>5 DEF AddState
  <2>2. /\ h \in Seq(States) /\ Len(h) = Len(s) + 1
        /\ \E i \in DOMAIN h : h[i] = x
        /\ \A j \in DOMAIN s : j \in DOMAIN h /\ h[j] = s[j]
    BY <2>1, AppendKeeps
  <2>3. h # <<>> /\ x.by \in Bys(h)
    BY <2>2 DEF Bys
  <2>4. \A j \in DOMAIN s : s[j].by \in Bys(h) /\ s[j].at \in Ats(h)
    BY <2>2 DEF Bys, Ats
  <2> QED
    BY <1>1, <1>2, <2>2, <2>3, <2>4 DEF Bys, Ats
<1> QED
  BY <1>4, <1>5

-----------------------------------------------------------------------------
(* What the clients were told is stored.                                   *)

\* An edit that storage owes to the clients, or will when it is answered.
Due(e, t) ==
    \/ e \in owed[t]
    \/ /\ req[e].op = "edit" /\ req[e].pc \in {"modify", "write"} /\ Owing(e)
       /\ req[e].thread = t

\* A delete of t is not about to remove what is due.
LEMMA DueAlone ==
    ASSUME ThreadInv, NEW q \in Requests, NEW t \in Threads, NEW e \in Requests, Due(e, t),
           req[q].thread = t, req[q].op \in Deletes, InFlight(q)
    PROVE  e \in owed[t] /\ req[q].pc = "remove"
<1>1. ~(req[e].op = "edit" /\ req[e].pc \in {"modify", "write"} /\ Owing(e) /\ req[e].thread = t)
  <2> SUFFICES ASSUME req[e].op = "edit", req[e].pc \in {"modify", "write"}, Owing(e),
                      req[e].thread = t
               PROVE  FALSE
    OBVIOUS
  <2>1. e # q
    BY DEF Deletes
  <2>2. q \in req[e].with
    BY <2>1 DEF ThreadInv, OverlapOK, InFlight, Calls
  <2> QED
    BY <2>2 DEF Owing
<1>2. e \in owed[t]
  BY <1>1 DEF Due
<1>3. req[q].pc \notin {"list", "purge"}
  BY <1>2 DEF ThreadInv, KeptOK
<1>4. PlaceOK(provider, req[q])
  BY DEF ThreadInv, CallsOK
<1> QED
  BY <1>2, <1>3, <1>4 DEF PlaceOK, InFlight, Calls, Creates, Deletes

\* A thread that is being copied to has no edit.
LEMMA DueElsewhere ==
    ASSUME ThreadInv, NEW q \in Requests, req[q].op = "copy", InFlight(q),
           NEW t \in Threads, NEW e \in Requests, Due(e, t)
    PROVE  t # req[q].target
<1>1. req[e].thread = t
  BY DEF Due, ThreadInv, TalesOK
<1>2. req[q].pc # "answered"
  BY DEF InFlight, Calls
<1> QED
  BY <1>1, <1>2 DEF ThreadInv, NamesOK

LEMMA DueHeld ==
    ASSUME ThreadInv, NEW q \in Requests, Step(q) \/ CallFails(q),
           NEW t \in Threads, NEW e \in Requests, Due(e, t),
           RemoveThread(q) => t # req[q].thread
    PROVE  Held(e, t)'
<1>1. /\ Moved(q) /\ InFlight(q) /\ Shape /\ PlaceOK(provider, req[q]) /\ req[q].thread \in Threads
      /\ states \in [Threads -> Seq(States)]
  BY StepMoves DEF ThreadInv, Shape, CallsOK, PlaceOK, Moved, InFlight, Calls
<1>2. Held(e, t) /\ req[e].op = "edit" /\ req[e].pc # "find"
  BY DEF ThreadInv, KeptOK, Due, TalesOK
<1>3. req'[e].at = req[e].at /\ provider' = provider
  BY <1>1, <1>2 DEF Moved, fixed
<1>4. CASE states'[t] = states[t]
  BY <1>2, <1>3, <1>4 DEF Held
<1>5. CASE t = req[q].thread /\ Added(q, states'[t])
  <2>1. PICK h : h = states'[t]
    OBVIOUS
  <2>2. Added(q, h) /\ t = req[q].thread
    BY <1>5, <2>1
  <2>3. /\ \A b \in Bys(states[t]) : b \in Bys(h) \/ (provider = "azure" /\ req[b].at \in Ats(h))
        /\ Ats(states[t]) \subseteq Ats(h)
    BY <1>1, <2>2, AddedKeeps
  <2>4. e \in Bys(h) \/ (provider = "azure" /\ req[e].at \in Ats(h))
    BY <1>2, <2>3 DEF Held
  <2> QED
    BY <1>3, <2>1, <2>4 DEF Held
<1>6. CASE t = req[q].thread /\ (RemoveThread(q) \/ Purge(q))
  <2>1. ~RemoveThread(q) /\ req[q].pc = "purge"
    BY <1>6 DEF Purge
  <2>2. req[q].op \in Deletes
    BY <1>1, <2>1 DEF PlaceOK
  <2> QED
    BY <1>1, <1>6, <2>1, <2>2, DueAlone
<1>7. CASE t = req[q].target /\ req[q].pc \in {"copy", "copyHistory", "copyNext", "copyUpload"}
  BY <1>1, <1>7, DueElsewhere DEF PlaceOK
<1> QED
  BY <1>1, <1>4, <1>5, <1>6, <1>7, StatesStep

LEMMA KeptKept ==
    ASSUME ThreadInv, NEW q \in Requests, Step(q) \/ CallFails(q)
    PROVE  KeptOK'
<1>1. /\ Moved(q) /\ InFlight(q) /\ Shape /\ PlaceOK(provider, req[q]) /\ req[q].thread \in Threads
      /\ states \in [Threads -> Seq(States)]
  BY StepMoves DEF ThreadInv, Shape, CallsOK, PlaceOK, Moved, InFlight, Calls
<1>2. \A t \in Threads : \A e \in owed'[t] :
         \/ e \in owed[t] /\ (RemoveThread(q) => t # req[q].thread)
         \/ /\ e = q /\ t = req[q].thread /\ Answer(q) /\ req[q].op = "edit" /\ Owing(q)
            /\ req[q].pc \in {"find", "insert", "modify", "write"}
            /\ req[q].pc = "find" => req[q].op \in Creates
  BY <1>1, GhostStep DEF Answer, ghost, RemoveThread, Forget, Shape
<1>3. \A t \in Threads : \A e \in owed'[t] :
         e \in Requests /\ Due(e, t) /\ (RemoveThread(q) => t # req[q].thread)
  <2> SUFFICES ASSUME NEW t \in Threads, NEW e \in owed'[t]
               PROVE  e \in Requests /\ Due(e, t) /\ (RemoveThread(q) => t # req[q].thread)
    OBVIOUS
  <2>1. CASE e \in owed[t] /\ (RemoveThread(q) => t # req[q].thread)
    BY <1>1, <2>1 DEF Due, Shape
  <2>2. CASE /\ e = q /\ t = req[q].thread /\ Answer(q) /\ req[q].op = "edit" /\ Owing(q)
             /\ req[q].pc \in {"find", "insert", "modify", "write"}
             /\ req[q].pc = "find" => req[q].op \in Creates
    <3>1. req[q].pc \in {"modify", "write"}
      BY <1>1, <2>2 DEF PlaceOK, Creates
    <3> QED
      BY <2>2, <3>1 DEF Due, RemoveThread
  <2> QED
    BY <1>2, <2>1, <2>2
<1>4. \A t \in Threads : \A e \in owed'[t] : Held(e, t)'
  BY <1>3, DueHeld
<1>5. \A e \in Requests :
          req'[e].op = "edit" /\ req'[e].pc \in {"modify", "write"} /\ Owing(e)' =>
              Held(e, req[e].thread)' /\ req'[e].thread = req[e].thread
  <2> SUFFICES ASSUME NEW e \in Requests, req'[e].op = "edit", req'[e].pc \in {"modify", "write"},
                      Owing(e)'
               PROVE  Held(e, req[e].thread)' /\ req'[e].thread = req[e].thread
    OBVIOUS
  <2>1. req[e].op = "edit" /\ Owing(e) /\ req'[e].thread = req[e].thread
    BY <1>1, PastMoved
  <2>2. CASE req[e].pc \in {"modify", "write"}
    <3>1. Due(e, req[e].thread)
      BY <2>1, <2>2 DEF Due
    <3>2. req[e].thread \in Threads
      BY <2>2 DEF ThreadInv, CallsOK, PlaceOK
    <3>3. RemoveThread(q) => req[e].thread # req[q].thread
      <4> SUFFICES ASSUME RemoveThread(q), req[e].thread = req[q].thread
                   PROVE  FALSE
        OBVIOUS
      <4>1. req[q].op \in Deletes
        BY <1>1 DEF RemoveThread, PlaceOK
      <4>2. e \in owed[req[e].thread]
        BY <1>1, <3>1, <3>2, <4>1, DueAlone
      <4>3. req[e].pc = "answered"
        BY <3>2, <4>2 DEF ThreadInv, TalesOK
      <4> QED
        BY <2>2, <4>3
    <3> QED
      BY <2>1, <3>1, <3>2, <3>3, DueHeld
  <2>3. CASE req[e].pc \notin {"modify", "write"}
    <3>1. e = q
      BY <1>1, <2>3 DEF Moved
    <3>2. AppendState(q)
      <4>1. ~FindToCreate(q) /\ ~FindToPatch(q)
        BY <2>1, <3>1 DEF FindToCreate, FindToPatch, Creates
      <4>2. ~Modify(q) /\ ~Write(q)
        BY <2>3, <3>1 DEF Modify, Write
      <4> QED
        BY <3>1, <4>1, <4>2, Landing DEF Step, Ends
    <3>3. req[q].pc = "append"
      BY <3>2 DEF AppendState
    <3>4. ~Fails(q)
      <4>1. Fails(q) => req'[q].pc = "failed"
        BY <1>1, GotoSame DEF Fails
      <4> QED
        BY <3>1, <4>1
    <3>5. /\ states' = [states EXCEPT ![req[q].thread] = states'[req[q].thread]]
          /\ Added(q, states'[req[q].thread])
      BY <3>2, <3>4, AppendAdds
    <3>6. PICK h : h = states'[req[q].thread]
      OBVIOUS
    <3>7. q \in Bys(h)
      BY <1>1, <3>5, <3>6, AddedKeeps
    <3> QED
      BY <2>1, <3>1, <3>6, <3>7 DEF Held
  <2> QED
    BY <2>2, <2>3
<1>6. \A p \in Requests : req'[p].pc \in {"list", "purge"} => owed'[req[p].thread] = {}
  <2> SUFFICES ASSUME NEW p \in Requests, req'[p].pc \in {"list", "purge"}
               PROVE  owed'[req[p].thread] = {}
    OBVIOUS
  <2>1. CASE req[p].pc \in {"list", "purge"}
    <3>1. req[p].thread \in Threads /\ req[p].op \in Deletes /\ InFlight(p)
          /\ owed[req[p].thread] = {}
      BY <2>1 DEF ThreadInv, CallsOK, PlaceOK, KeptOK, InFlight, Calls
    <3> SUFFICES ASSUME NEW e \in owed'[req[p].thread]
                 PROVE  FALSE
      BY <1>3, <3>1
    <3>2. Due(e, req[p].thread) /\ e \in Requests
      BY <1>3, <3>1
    <3> QED
      BY <3>1, <3>2, DueAlone
  <2>2. CASE req[p].pc \notin {"list", "purge"}
    <3>1. p = q
      BY <1>1, <2>2 DEF Moved
    <3>2. RemoveThread(q)
      BY <2>2, <3>1, Landing DEF Step, ListHistory, Purge, Ends
    <3> QED
      BY <1>1, <3>1, <3>2 DEF RemoveThread, Forget, Shape
  <2> QED
    BY <2>1, <2>2
<1> QED
  BY <1>4, <1>5, <1>6, <1>1, PastMoved DEF KeptOK, Held

-----------------------------------------------------------------------------
(* What was deleted stays deleted.                                         *)

\* A row that a copy inserted is there before its history.
LEMMA CopyIsThere ==
    ASSUME ThreadInv, NEW q \in Requests, Step(q) \/ CallFails(q), provider \in Sql,
           req[q].op = "copy"
    PROVE  /\ states' # states => thread'[req[q].target] # None
           /\ req'[q].pc = "copyNext" \/ (req'[q].pc = "copyHistory" /\ provider = "sqlite") =>
                 thread'[req[q].target] # None
<1>1. /\ Shape /\ InFlight(q) /\ req[q].target \in Threads /\ PlaceOK(provider, req[q])
      /\ req[q] \in ReqStates
  BY StepMoves DEF ThreadInv, Shape, CallsOK, PlaceOK, ReqStates, Threads, Moved
<1>2. provider # "memory" /\ provider # "azure"
  BY DEF Sql
<1>3. \A record \in Records : PutThread(req[q].target, record) => thread'[req[q].target] # None
  BY <1>1, PutThreadShape, NoneAssumption
<1>4. req[q].pc \in {"copyInsert", "copyHistory"} => req[q].old \in Records
  BY <1>1, NoneAssumption DEF PlaceOK, ReqStates
<1>5. CASE CopyInsert(q)
  BY <1>3, <1>4, <1>5 DEF CopyInsert
<1>6. CASE CopyHistory(q)
  <2>1. CASE provider = "sqlserver"
    BY <1>3, <1>4, <1>6, <2>1 DEF CopyHistory, SqlServerCopyCommit
  <2>2. CASE provider = "sqlite"
    <3>1. thread[req[q].target] # None
      BY <1>6, <2>2 DEF CopyHistory, ThreadInv, GoneOK, Sql
    <3> QED
      BY <1>6, <2>2, <3>1 DEF CopyHistory, store
  <2> QED
    BY <2>1, <2>2 DEF Sql
<1>7. CASE CopyNext(q)
  <2>1. thread[req[q].target] # None
    BY <1>7 DEF CopyNext, ThreadInv, GoneOK
  <2> QED
    BY <1>7, <2>1 DEF CopyNext
<1>8. CASE Copy(q)
  <2>1. CASE req' = Goto(q, "failed") /\ UNCHANGED store
    BY <1>1, <2>1, GotoSame DEF store
  <2>2. CASE CopyReads(q)
    <3>1. /\ req' = [req EXCEPT ![q].pc = IF provider = "sqlserver" THEN "copyHistory" ELSE "copyInsert",
                                ![q].old = thread[req[q].thread]]
          /\ states' = states
      BY <2>2 DEF CopyReads, store
    <3>2. req'[q].pc = IF provider = "sqlserver" THEN "copyHistory" ELSE "copyInsert"
      BY <1>1, <3>1 DEF Shape, ReqStates
    <3> QED
      BY <3>1, <3>2
  <2> QED
    BY <1>2, <1>8, <2>1, <2>2 DEF Copy, MemoryCopyThread
<1>9. CASE FindToCopy(q) \/ CallFails(q)
  <2>1. req'[q].pc \in {"failed", "copy"}
    BY <1>9, Landing
  <2> QED
    BY <1>9, <2>1 DEF FindToCopy, CallFails, store
<1> QED
  BY <1>1, <1>2, <1>5, <1>6, <1>7, <1>8, <1>9
     DEF Step, PlaceOK, FindToCreate, Insert, FindToPatch, Modify, Write, FindToEdit, ReadNewest,
         DownloadNewest, AppendState, RemoveThread, ListHistory, Purge, CopyUpload, Creates, Deletes

\* No step removes the thread that another request copies to.
LEMMA NotTheTarget ==
    ASSUME ThreadInv, NEW q \in Requests, NEW p \in Requests, req[p].op = "copy", InFlight(p)
    PROVE  req[q].thread # req[p].target
BY DEF ThreadInv, NamesOK, InFlight, Calls

LEMMA NothingOutlives ==
    ASSUME ThreadInv, NEW q \in Requests, Step(q) \/ CallFails(q), provider \in Sql
    PROVE  /\ \A t \in Threads : thread'[t] = None => states'[t] = <<>>
           /\ \A p \in Requests :
                 req'[p].pc = "copyNext" \/ (req'[p].pc = "copyHistory" /\ provider = "sqlite")
                    => thread'[req'[p].target] # None
<1>1. /\ Moved(q) /\ InFlight(q) /\ Shape /\ PlaceOK(provider, req[q]) /\ req[q].thread \in Threads
      /\ states \in [Threads -> Seq(States)] /\ provider # "azure"
  BY StepMoves DEF ThreadInv, Shape, CallsOK, PlaceOK, Moved, InFlight, Calls, Sql
<1>2. ASSUME NEW t \in Threads, thread'[t] = None
      PROVE  states'[t] = <<>>
  <2>1. CASE RemoveThread(q) /\ t = req[q].thread
    BY <1>1, <2>1 DEF RemoveThread, RemoveAtOnce, AzureRemove
  <2>2. CASE ~(RemoveThread(q) /\ t = req[q].thread)
    <3>1. thread[t] = None /\ states[t] = <<>>
      BY <1>2, <2>2, ThreadStays DEF ThreadInv, GoneOK
    <3>2. CASE req[q].pc \in {"copy", "copyHistory", "copyNext", "copyUpload"}
      <4>1. req[q].op = "copy"
        BY <1>1, <3>2 DEF PlaceOK
      <4>2. states' # states => t # req[q].target
        BY <1>2, <4>1, CopyIsThere
      <4> QED
        BY <1>1, <3>1, <3>2, <4>2, StatesStep DEF AppendState, RemoveThread, Purge
    <3>3. CASE req[q].pc \notin {"copy", "copyHistory", "copyNext", "copyUpload"}
      BY <1>1, <2>2, <3>1, <3>3, StatesStep
    <3> QED
      BY <3>2, <3>3
  <2> QED
    BY <2>1, <2>2
<1>3. ASSUME NEW p \in Requests,
             req'[p].pc = "copyNext" \/ (req'[p].pc = "copyHistory" /\ provider = "sqlite")
      PROVE  thread'[req'[p].target] # None
  <2>1. PlaceOK(provider, req'[p])
    <3>1. CallsOK' /\ provider' = provider
      BY <1>1, StepMoves, CallsKept DEF Moved, fixed
    <3> QED
      BY <3>1 DEF CallsOK
  <2>2. req[p].op = "copy" /\ req'[p].target = req[p].target /\ InFlight(p)
    BY <1>1, <1>3, <2>1, PastMoved DEF PlaceOK, InFlight, Calls
  <2>3. CASE p = q
    BY <1>3, <2>2, <2>3, CopyIsThere
  <2>4. CASE p # q
    <3>1. req'[p] = req[p]
      BY <1>1, <2>4 DEF Moved
    <3>2. thread[req[p].target] # None
      BY <1>3, <3>1 DEF ThreadInv, GoneOK
    <3>3. req[p].target \in Threads /\ req[q].thread # req[p].target
      BY <2>2, NotTheTarget DEF ThreadInv, CallsOK, PlaceOK, Shape, ReqStates, Threads
    <3> QED
      BY <2>2, <3>2, <3>3, ThreadStays
  <2> QED
    BY <2>3, <2>4
<1> QED
  BY <1>2, <1>3

\* Nothing brings such a thread back.
LEMMA QuietStep ==
    ASSUME ThreadInv, NEW q \in Requests, Step(q) \/ CallFails(q), NEW t \in Threads,
           thread[t] = None, Quiet(t), \E r \in Requests : req[r].thread = t
    PROVE  /\ thread'[t] = None /\ Quiet(t)'
           /\ \/ states'[t] = states[t]
              \/ t = req[q].thread /\ RemoveThread(q) /\ states'[t] = <<>>
              \/ t = req[q].thread /\ Purge(q) /\ states'[t] = Without(states[t], Head(req[q].todo))
<1>1. /\ Moved(q) /\ InFlight(q) /\ Shape /\ PlaceOK(provider, req[q]) /\ req[q].thread \in Threads
      /\ states \in [Threads -> Seq(States)]
      /\ thread \in [Threads -> Records \union {None}]
  BY StepMoves DEF ThreadInv, Shape, CallsOK, PlaceOK, Moved, InFlight, Calls
<1>2. req[q].op = "copy" => req[q].target # t
  BY <1>1, NotTheTarget
<1>3. t = req[q].thread => req[q].pc \notin {"insert", "append"}
  BY <1>1 DEF PlaceOK, Quiet, Creates, Deletes
<1>4. thread'[t] = None
  BY <1>1, <1>2, <1>3, ThreadStep DEF PlaceOK
<1>5. \/ states'[t] = states[t]
      \/ t = req[q].thread /\ RemoveThread(q) /\ states'[t] = <<>>
      \/ t = req[q].thread /\ Purge(q) /\ states'[t] = Without(states[t], Head(req[q].todo))
  <2>1. CASE req[q].pc \in {"copy", "copyHistory", "copyNext", "copyUpload"}
    <3>1. req[q].op = "copy"
      BY <1>1, <2>1 DEF PlaceOK
    <3> QED
      BY <1>1, <1>2, <2>1, <3>1, StatesStep DEF AppendState, RemoveThread, Purge
  <2>2. CASE AppendState(q)
    <3>1. t # req[q].thread
      BY <1>3, <2>2 DEF AppendState
    <3> QED
      BY <1>1, <2>2, <3>1, StatesStep DEF AppendState, RemoveThread, Purge
  <2> QED
    BY <1>1, <2>1, <2>2, StatesStep
<1>6. ASSUME NEW p \in Requests, InFlight(p)', req'[p].thread = t
      PROVE  \/ req'[p].op \in Deletes \union {"patch", "copy"}
             \/ req'[p].op = "edit" /\ req'[p].pc = "find"
  <2>1. InFlight(p) /\ req[p].thread = t /\ req'[p].op = req[p].op
    BY <1>1, <1>6, PastMoved
  <2>2. CASE p = q /\ req[p].op = "edit"
    <3>1. req[q].pc = "find"
      BY <2>1, <2>2 DEF Quiet, Deletes
    <3>2. FindToEdit(q) \/ CallFails(q)
      BY <2>2, <3>1 DEF Step, FindToCreate, Insert, FindToPatch, Modify, Write, ReadNewest,
                        DownloadNewest, AppendState, RemoveThread, ListHistory, Purge, FindToCopy,
                        Copy, CopyInsert, CopyHistory, CopyNext, CopyUpload, Creates
    <3>3. req' = Goto(q, "failed")
      BY <2>1, <2>2, <3>2 DEF FindToEdit, CallFails
    <3>4. req'[q].pc = "failed"
      BY <1>1, <3>3, GotoSame
    <3> QED
      BY <1>6, <2>2, <3>4 DEF InFlight, Calls
  <2>3. CASE p # q \/ req[p].op # "edit"
    BY <1>1, <2>1, <2>3 DEF Quiet, Moved
  <2> QED
    BY <2>2, <2>3
<1>7. Quiet(t)'
  BY <1>6 DEF Quiet
<1> QED
  BY <1>4, <1>5, <1>7

\* A delete that nothing disturbs leaves nobody who could bring its thread
\* back.
LEMMA UndisturbedQuiet ==
    ASSUME ThreadInv, NEW q \in Requests, InFlight(q), req[q].op \in Deletes, Undisturbed(q)
    PROVE  Quiet(req[q].thread)
<1> SUFFICES ASSUME NEW p \in Requests, InFlight(p), req[p].thread = req[q].thread, p # q
             PROVE  req[p].op \in Deletes \union {"patch", "copy"}
  BY DEF Quiet
<1>1. p \in req[q].with
  BY DEF ThreadInv, OverlapOK
<1> QED
  BY <1>1 DEF Undisturbed

LEMMA EmptyWithout ==
    ASSUME NEW at
    PROVE  Without(<<>>, at) = <<>>
<1>1. PICK s : s = <<>> /\ DOMAIN s = {}
  OBVIOUS
<1>2. Ats(s) = {}
  BY <1>1 DEF Ats
<1> QED
  BY <1>1, <1>2 DEF Without

\* The deletion of the blob of the first name that is left.
LEMMA ListedTail ==
    ASSUME NEW T, NEW s \in Seq(T), Distinct(s), NEW todo \in Seq(Int), todo # <<>>,
           Listed(s, todo), NEW w, w = Without(s, Head(todo))
    PROVE  /\ Len(todo) = 1 => w = <<>>
           /\ Len(todo) # 1 => Listed(w, Tail(todo))
<1>1. PICK rest : rest = Tail(todo)
  OBVIOUS
<1>2. /\ Len(todo) \in Nat \ {0} /\ Head(todo) = todo[1] /\ rest \in Seq(Int)
      /\ Len(rest) = Len(todo) - 1 /\ DOMAIN todo = 1 .. Len(todo) /\ DOMAIN rest = 1 .. Len(rest)
      /\ \A i \in 1 .. Len(todo) - 1 : rest[i] = todo[i + 1]
  BY <1>1, TailOf
<1>3. /\ w \in Seq(T)
      /\ \A i \in DOMAIN w : \E j \in DOMAIN s : w[i] = s[j] /\ s[j].at # Head(todo)
  BY WithoutKeeps
<1>4. \A i \in DOMAIN w : \E j \in DOMAIN todo : w[i].at = todo[j] /\ j # 1
  <2> SUFFICES ASSUME NEW i \in DOMAIN w
               PROVE  \E j \in DOMAIN todo : w[i].at = todo[j] /\ j # 1
    OBVIOUS
  <2>1. PICK j \in DOMAIN s : w[i] = s[j] /\ s[j].at # Head(todo)
    BY <1>3
  <2>2. PICK k \in DOMAIN todo : s[j].at = todo[k]
    BY <2>1 DEF Listed
  <2>3. k # 1
    BY <1>2, <2>1, <2>2
  <2> QED
    BY <2>1, <2>2, <2>3
<1>5. \A j \in DOMAIN todo : j # 1 => j - 1 \in DOMAIN rest /\ rest[j - 1] = todo[j]
  <2> SUFFICES ASSUME NEW j \in DOMAIN todo, j # 1
               PROVE  j - 1 \in DOMAIN rest /\ rest[j - 1] = todo[j]
    OBVIOUS
  <2>1. j \in Nat /\ j - 1 \in 1 .. Len(todo) - 1 /\ (j - 1) + 1 = j
    BY <1>2
  <2> QED
    BY <1>2, <2>1
<1>6. Listed(w, rest)
  BY <1>4, <1>5 DEF Listed
<1>7. Len(todo) = 1 => w = <<>>
  <2> SUFFICES ASSUME Len(todo) = 1
               PROVE  w = <<>>
    OBVIOUS
  <2>1. \A j \in DOMAIN todo : j = 1
    BY <1>2
  <2>2. DOMAIN w = {}
    BY <1>4, <2>1
  <2> QED
    BY <1>3, <2>2
<1> QED
  BY <1>1, <1>6, <1>7

LEMMA NewlyGone ==
    ASSUME ThreadInv, NEW q \in Requests, Step(q) \/ CallFails(q), NEW t \in gone', t \notin gone
    PROVE  /\ t = req[q].thread /\ Undisturbed(q) /\ req'[q].pc = "answered"
           /\ req[q].op \in Deletes /\ t \in Threads
           /\ thread'[t] = None /\ states'[t] = <<>>
<1>1. /\ Moved(q) /\ InFlight(q) /\ Shape /\ PlaceOK(provider, req[q]) /\ req[q].thread \in Threads
      /\ states \in [Threads -> Seq(States)] /\ thread \in [Threads -> Records \union {None}]
      /\ req[q] \in ReqStates
  BY StepMoves DEF ThreadInv, Shape, CallsOK, PlaceOK, Moved, InFlight, Calls
<1>2. \E found : Removed(q, found)
  BY GhostStep DEF ghost, Answer, RemoveThread, RemoveAtOnce, AzureRemove
<1>3. t = req[q].thread /\ Undisturbed(q) /\ req'[q].pc = "answered"
  BY <1>1, <1>2, GotoSame DEF Removed
<1>4. RemoveThread(q) \/ ListHistory(q) \/ Purge(q)
  BY GhostStep DEF ghost, Answer, Step, CallFails, FindToCreate, Insert, FindToPatch, Modify, Write,
                   FindToEdit, ReadNewest, DownloadNewest, AppendState, FindToCopy, Copy, CopyInsert,
                   CopyHistory, CopyNext, CopyUpload
<1>5. req[q].op \in Deletes
  BY <1>1, <1>4 DEF RemoveThread, ListHistory, Purge, PlaceOK
<1>6. CASE RemoveThread(q)
  <2>1. ~AzureRemove(q)
    BY <1>3 DEF AzureRemove
  <2> QED
    BY <1>1, <1>3, <1>5, <1>6, <2>1 DEF RemoveThread, RemoveAtOnce
<1>7. CASE ListHistory(q)
  <2>1. thread[t] = None
    BY <1>3, <1>7 DEF ListHistory, ThreadInv, GoneOK
  <2>2. states[t] = <<>>
    <3>1. states[t] # <<>> => gone' = gone
      BY <1>3, <1>7 DEF ListHistory
    <3> QED
      BY <3>1
  <2> QED
    BY <1>1, <1>3, <1>5, <1>7, <2>1, <2>2 DEF ListHistory, store
<1>8. CASE Purge(q)
  <2>1. thread[t] = None /\ Listed(states[t], req[q].todo)
    BY <1>3, <1>8 DEF Purge, ThreadInv, GoneOK
  <2>2. Len(req[q].todo) = 1
    BY <1>8 DEF Purge
  <2>3. req[q].todo \in Seq(Int) /\ req[q].todo # <<>> /\ provider = "azure"
    BY <1>1, <1>8 DEF Purge, PlaceOK
  <2>4. PICK s \in Seq(States) : s = states[t]
    BY <1>1, <1>3
  <2>5. PICK w : w = Without(s, Head(req[q].todo))
    OBVIOUS
  <2>6. Distinct(s)
    BY <1>1, <1>3, <2>3, <2>4 DEF ThreadInv, StatesOK
  <2>7. w = <<>>
    BY <2>1, <2>2, <2>3, <2>4, <2>5, <2>6, ListedTail
  <2> QED
    BY <1>1, <1>3, <1>5, <1>8, <2>1, <2>4, <2>5, <2>7 DEF Purge
<1> QED
  BY <1>4, <1>6, <1>7, <1>8

LEMMA PurgeCovered ==
    ASSUME ThreadInv, NEW q \in Requests, Step(q) \/ CallFails(q), NEW p \in Requests,
           req'[p].pc \in {"list", "purge"}, Undisturbed(p)'
    PROVE  /\ thread'[req'[p].thread] = None
           /\ req'[p].pc = "purge" => Listed(states'[req'[p].thread], req'[p].todo)
<1>1. /\ Moved(q) /\ InFlight(q) /\ Shape /\ PlaceOK(provider, req[q]) /\ req[q].thread \in Threads
      /\ states \in [Threads -> Seq(States)] /\ thread \in [Threads -> Records \union {None}]
      /\ req[q] \in ReqStates
  BY StepMoves DEF ThreadInv, Shape, CallsOK, PlaceOK, Moved, InFlight, Calls
<1>2. Undisturbed(p) /\ req'[p].thread = req[p].thread /\ InFlight(p) /\ req'[p].op = req[p].op
  BY <1>1, PastMoved DEF InFlight, Calls
<1>3. PlaceOK(provider, req'[p]) /\ PlaceOK(provider, req[p])
  <2>1. CallsOK' /\ provider' = provider
    BY <1>1, StepMoves, CallsKept DEF Moved, fixed
  <2> QED
    BY <2>1 DEF CallsOK, ThreadInv
<1>4. req[p].op \in Deletes /\ req[p].thread \in Threads /\ provider = "azure"
  BY <1>2, <1>3 DEF PlaceOK, InFlight, Calls
<1>5. PICK t \in Threads : t = req[p].thread
  BY <1>4
<1>6. Quiet(t)
  BY <1>2, <1>4, <1>5, UndisturbedQuiet
<1>7. CASE req[p].pc \in {"list", "purge"}
  <2>1. thread[t] = None /\ (req[p].pc = "purge" => Listed(states[t], req[p].todo))
    BY <1>2, <1>5, <1>7 DEF ThreadInv, GoneOK
  <2>2. thread'[t] = None
    BY <1>5, <1>6, <2>1, QuietStep
  <2>3. ~(RemoveThread(q) /\ states' # states)
    BY <1>4 DEF RemoveThread, RemoveAtOnce, AzureRemove
  <2>4. \/ states'[t] = states[t]
        \/ t = req[q].thread /\ Purge(q) /\ states'[t] = Without(states[t], Head(req[q].todo))
    BY <1>5, <1>6, <2>1, <2>3, QuietStep
  <2>5. CASE p # q /\ req'[p].pc = "purge"
    <3>1. req'[p] = req[p]
      BY <1>1, <2>5 DEF Moved
    <3>2. CASE states'[t] = states[t]
      BY <1>2, <1>5, <2>1, <2>2, <2>5, <3>1, <3>2
    <3>3. CASE states'[t] = Without(states[t], Head(req[q].todo))
      <4>1. PICK s \in Seq(States) : s = states[t]
        BY <1>1
      <4>2. PICK w : w = Without(s, Head(req[q].todo))
        OBVIOUS
      <4>3. Distinct(s)
        BY <1>4, <4>1 DEF ThreadInv, StatesOK
      <4>4. \A i \in DOMAIN w : \E j \in DOMAIN s : w[i] = s[j]
        BY <4>2, <4>3, WithoutKeeps
      <4>5. Listed(w, req[p].todo)
        BY <2>1, <2>5, <3>1, <4>1, <4>4 DEF Listed
      <4> QED
        BY <1>2, <1>5, <2>2, <3>1, <3>3, <4>1, <4>2, <4>5
    <3> QED
      BY <2>4, <3>2, <3>3
  <2>6. CASE p = q /\ req'[p].pc = "purge"
    <3>1. CASE req[q].pc = "list"
      <4>1. ListHistory(q)
        BY <2>6, <3>1, Landing DEF Step, Purge, Ends
      <4>2. ~\E found : Removed(q, found)
        BY <1>1, <2>6, RemovedSame DEF Ends
      <4>3. /\ req' = [req EXCEPT ![q].pc = "purge", ![q].todo = StampsByName(states[t])]
            /\ states' = states
        BY <1>5, <2>6, <4>1, <4>2 DEF ListHistory, store
      <4>4. PICK s \in Seq(States) : s = states[t]
        BY <1>1
      <4>5. PICK names : names = StampsByName(s)
        OBVIOUS
      <4>6. Timed(s)
        BY <1>1, <4>4, StateTypes
      <4>7. \A a \in Ats(s) : \E i \in DOMAIN names : names[i] = a
        BY <4>4, <4>5, <4>6, StampsSorted
      <4>8. Listed(s, names)
        BY <4>7 DEF Listed, Ats
      <4>9. req'[q].todo = names
        BY <1>1, <4>3, <4>4, <4>5 DEF Shape, ReqStates
      <4> QED
        BY <1>2, <1>5, <2>2, <2>6, <4>3, <4>4, <4>8, <4>9
    <3>2. CASE req[q].pc = "purge"
      <4>1. Purge(q)
        BY <2>6, <3>2, Landing DEF Step, CallFails, FindToCreate, Insert, FindToPatch, Modify, Write,
             FindToEdit, ReadNewest, DownloadNewest, AppendState, RemoveThread, ListHistory,
             FindToCopy, Copy, CopyInsert, CopyHistory, CopyNext, CopyUpload
      <4>2. ~\E found : Removed(q, found)
        BY <1>1, <2>6, RemovedSame DEF Ends
      <4>3. PICK found \in BOOLEAN : found = (req[q].found \/ Head(req[q].todo) \in Ats(states[req[q].thread]))
        BY <1>1 DEF ReqStates
      <4>4. /\ req' = [req EXCEPT ![q].todo = Tail(@), ![q].found = found] /\ Len(req[q].todo) # 1
            /\ states' = [states EXCEPT ![t] = Without(states[t], Head(req[q].todo))]
        BY <1>5, <2>6, <4>1, <4>2, <4>3 DEF Purge
      <4>5. req'[q].todo = Tail(req[q].todo)
        BY <1>1, <4>4 DEF Shape, ReqStates
      <4>6. req[q].todo \in Seq(Int) /\ req[q].todo # <<>>
        BY <1>1, <3>2 DEF PlaceOK
      <4>7. PICK s \in Seq(States) : s = states[t]
        BY <1>1
      <4>8. PICK w : w = Without(s, Head(req[q].todo))
        OBVIOUS
      <4>9. Distinct(s) /\ Listed(s, req[q].todo)
        BY <1>4, <2>1, <2>6, <3>2, <4>7 DEF ThreadInv, StatesOK
      <4>10. Listed(w, Tail(req[q].todo))
        BY <4>4, <4>6, <4>7, <4>8, <4>9, ListedTail
      <4> QED
        BY <1>1, <1>2, <1>5, <2>2, <2>6, <4>4, <4>5, <4>7, <4>8, <4>10
    <3> QED
      BY <1>7, <2>6, <3>1, <3>2
  <2> QED
    BY <1>2, <1>5, <2>2, <2>5, <2>6
<1>8. CASE req[p].pc \notin {"list", "purge"}
  <2>1. p = q
    BY <1>1, <1>8 DEF Moved
  <2>2. RemoveThread(q)
    BY <1>8, <2>1, Landing DEF Step, ListHistory, Purge, Ends
  <2>3. thread'[t] = None
    BY <1>1, <1>5, <2>1, <2>2 DEF RemoveThread, RemoveAtOnce, AzureRemove
  <2>4. req'[p].pc # "purge"
    BY <2>1, <2>2, Landing DEF Ends
  <2> QED
    BY <1>2, <1>5, <2>3, <2>4
<1> QED
  BY <1>7, <1>8

LEMMA GoneKept ==
    ASSUME ThreadInv, NEW q \in Requests, Step(q) \/ CallFails(q)
    PROVE  GoneOK'
<1>1. Moved(q) /\ provider' = provider /\ Shape'
  BY StepMoves DEF Moved, fixed
<1>2. ASSUME NEW t \in gone'
      PROVE  thread'[t] = None /\ states'[t] = <<>> /\ Quiet(t)'
  <2>1. CASE t \in gone
    <3>1. /\ t \in Threads /\ thread[t] = None /\ Quiet(t) /\ states[t] = <<>>
          /\ \E r \in Requests : req[r].thread = t
      BY <2>1 DEF ThreadInv, GoneOK, TalesOK, Shape
    <3> QED
      BY <3>1, QuietStep, EmptyWithout
  <2>2. CASE t \notin gone
    <3>1. /\ t = req[q].thread /\ Undisturbed(q) /\ req'[q].pc = "answered"
          /\ req[q].op \in Deletes /\ t \in Threads
          /\ thread'[t] = None /\ states'[t] = <<>>
      BY <2>2, NewlyGone
    <3>2. Quiet(t)
      BY <1>1, <3>1, UndisturbedQuiet DEF Moved
    <3>3. Quiet(t)'
      <4> SUFFICES ASSUME NEW p \in Requests, InFlight(p)', req'[p].thread = t
                   PROVE  \/ req'[p].op \in Deletes \union {"patch", "copy"}
                          \/ req'[p].op = "edit" /\ req'[p].pc = "find"
        BY DEF Quiet
      <4>1. p # q
        BY <3>1 DEF InFlight, Calls
      <4>2. req'[p] = req[p]
        BY <1>1, <4>1 DEF Moved
      <4> QED
        BY <3>2, <4>2 DEF Quiet, InFlight
    <3> QED
      BY <3>1, <3>3
  <2> QED
    BY <2>1, <2>2
<1> QED
  BY <1>1, <1>2, NothingOutlives, PurgeCovered DEF GoneOK

-----------------------------------------------------------------------------
(* A client calls.                                                         *)

\* What q asks, and who overlaps whom.
Begun(q, op, t) ==
    /\ req[q].pc = "idle" /\ req'[q].op = op /\ req'[q].thread = t
    /\ req'[q].pc = IF op \in Deletes THEN "remove" ELSE "find"
    /\ req'[q].old = None /\ req'[q].seen = None /\ req'[q].at = 0
    /\ req'[q].with = {r \in Requests : InFlight(r) /\ req[r].thread = t}
    /\ req'[q].target \in IF op = "copy" THEN CopyIds \ Minted ELSE {None}

\* Another request only learns of q.
Told(p, q, t) ==
    /\ req'[p].op = req[p].op /\ req'[p].thread = req[p].thread /\ req'[p].pc = req[p].pc
    /\ req'[p].old = req[p].old /\ req'[p].seen = req[p].seen /\ req'[p].at = req[p].at
    /\ req'[p].todo = req[p].todo /\ req'[p].target = req[p].target
    /\ req'[p].with = req[p].with \union (IF InFlight(p) /\ req[p].thread = t THEN {q} ELSE {})
    /\ req[p].pc = "idle" => req'[p] = req[p]

LEMMA BeginFacts ==
    ASSUME ThreadInv, NEW q \in Requests, NEW op \in Ops, NEW t \in Threads, Begin(q, op, t)
    PROVE  /\ req' \in [Requests -> ReqStates] /\ Begun(q, op, t)
           /\ \A p \in Requests : p # q => Told(p, q, t)
           /\ UNCHANGED <<fixed, now, faults, store, owed, born>>
           /\ gone' \subseteq gone /\ (op \in Creates => t \notin gone')
           /\ Serial => Idle
           /\ t \in ClientIds \/ \E a \in Requests : req[a].pc = "answered" /\ req[a].target = t
<1>1. /\ Shape /\ req \in [Requests -> ReqStates] /\ owed \in [Threads -> SUBSET Requests]
      /\ req[q].pc = "idle"
  BY DEF ThreadInv, Shape, Begin
<1>2. PICK target \in IF op = "copy" THEN CopyIds \ Minted ELSE {None} :
          req' = [p \in Requests |->
                    IF p = q
                    THEN [NoRequest EXCEPT
                            !.op = op, !.thread = t, !.target = target,
                            !.pc = IF op \in Deletes THEN "remove" ELSE "find",
                            !.base = IF op = "copy" THEN owed[t] ELSE {},
                            !.with = {r \in Requests : InFlight(r) /\ req[r].thread = t}]
                    ELSE IF InFlight(p) /\ req[p].thread = t
                    THEN [req[p] EXCEPT !.with = @ \union {q}]
                    ELSE req[p]]
  BY DEF Begin
<1>3. PICK call \in Pcs : call = IF op \in Deletes THEN "remove" ELSE "find"
  BY DEF Pcs, Calls
<1>4. PICK base \in SUBSET Requests : base = IF op = "copy" THEN owed[t] ELSE {}
  BY <1>1
<1>5. PICK with \in SUBSET Requests : with = {r \in Requests : InFlight(r) /\ req[r].thread = t}
  OBVIOUS
<1>6. target \in CopyIds \union {None}
  OBVIOUS
<1> DEFINE r == [NoRequest EXCEPT !.op = op, !.thread = t, !.target = target, !.pc = call,
                                  !.base = base, !.with = with]
<1>7. req'[q] = r
  BY <1>2, <1>3, <1>4, <1>5
<1>8. /\ r.op = op /\ r.thread = t /\ r.pc = call /\ r.old = None /\ r.seen = None
      /\ r.with = with /\ r.target = target /\ r.at = 0
  BY DEF NoRequest
<1>9. r \in ReqStates
  <2>1. 0 \in Times /\ 0 \in Nat /\ <<>> \in Seq(States) \union Seq(Int)
    BY ConstantsAssumption DEF Times
  <2> QED
    BY <1>6, <2>1 DEF NoRequest, ReqStates
<1> HIDE DEF r
<1>10. Begun(q, op, t)
  BY <1>1, <1>3, <1>5, <1>7, <1>8 DEF Begun
<1>11. ASSUME NEW p \in Requests, p # q
       PROVE  req'[p] \in ReqStates /\ Told(p, q, t)
  <2>1. req[p] \in ReqStates /\ req[p].with \union {q} \in SUBSET Requests
    BY <1>1 DEF ReqStates
  <2>2. CASE InFlight(p) /\ req[p].thread = t
    <3>1. req'[p] = [req[p] EXCEPT !.with = req[p].with \union {q}]
      BY <1>2, <1>11, <2>2
    <3>2. req[p].pc # "idle"
      BY <2>2 DEF InFlight, Calls
    <3> QED
      BY <2>1, <2>2, <3>1, <3>2 DEF ReqStates, Told
  <2>3. CASE ~(InFlight(p) /\ req[p].thread = t)
    <3>1. req'[p] = req[p]
      BY <1>2, <1>11, <2>3
    <3>2. req'[p].with = req[p].with \union (IF InFlight(p) /\ req[p].thread = t THEN {q} ELSE {})
      BY <2>3, <3>1
    <3> QED
      BY <2>1, <3>1, <3>2 DEF Told
  <2> QED
    BY <2>2, <2>3
<1>12. req' \in [Requests -> ReqStates]
  <2>1. \A p \in Requests : req'[p] \in ReqStates
    BY <1>7, <1>9, <1>11
  <2>2. req' = [p \in Requests |-> req'[p]]
    BY <1>2
  <2> QED
    BY <2>1, <2>2
<1>13. t \in ClientIds \/ \E a \in Requests : req[a].pc = "answered" /\ req[a].target = t
  BY DEF Begin, Known
<1> QED
  BY <1>10, <1>11, <1>12, <1>13 DEF Begin

LEMMA BeginKeeps ==
    ASSUME ThreadInv, NEW q \in Requests, NEW op \in Ops, NEW t \in Threads, Begin(q, op, t)
    PROVE  ThreadInv'
<1>1. /\ req' \in [Requests -> ReqStates] /\ Begun(q, op, t)
      /\ \A p \in Requests : p # q => Told(p, q, t)
      /\ UNCHANGED <<fixed, now, faults, store, owed, born>>
      /\ gone' \subseteq gone /\ (op \in Creates => t \notin gone')
      /\ Serial => Idle
      /\ t \in ClientIds \/ \E a \in Requests : req[a].pc = "answered" /\ req[a].target = t
  BY BeginFacts
<1>2. Shape /\ (Serial' <=> Serial) /\ provider' = provider /\ thread' = thread /\ states' = states
  BY <1>1 DEF ThreadInv, fixed, store, Serial
<1>3. req[q] = NoRequest
  BY <1>1 DEF Begun, ThreadInv, CallsOK, PlaceOK
<1>4. req[q].thread = None /\ req[q].target = None /\ req[q].op = "none" /\ req[q].pc = "idle"
  BY <1>3 DEF NoRequest
<1>5. t # None /\ None \notin CopyIds /\ None \notin ClientIds
      /\ (\A c \in CopyIds : c \notin ClientIds)
  BY ConstantsAssumption DEF Threads
<1>6. \A p \in Requests : req[p] \in ReqStates /\ req[p].with \subseteq Requests
  BY <1>2 DEF Shape, ReqStates
<1>7. Shape'
  BY <1>1, <1>2 DEF Shape, fixed, store
<1>8. CallsOK'
  <2> SUFFICES ASSUME NEW p \in Requests
               PROVE  PlaceOK(provider, req'[p])
    BY <1>2 DEF CallsOK
  <2>1. CASE p = q
    BY <1>1, <1>5, <2>1 DEF Begun, PlaceOK, Deletes
  <2>2. CASE p # q
    <3>1. Told(p, q, t) /\ PlaceOK(provider, req[p])
      BY <1>1, <2>2 DEF ThreadInv, CallsOK
    <3> QED
      BY <3>1 DEF Told, PlaceOK
  <2> QED
    BY <2>1, <2>2
<1>9. \A p \in Requests : req[p].op = "copy" => req[p].target \in CopyIds
  BY <1>6 DEF ThreadInv, CallsOK, PlaceOK, ReqStates
<1>10. \A p \in Requests : req[p].thread # t \/ p # q
  BY <1>4, <1>5
<1>11. NamesOK'
  <2>1. \A p \in Requests : p # q => req'[p].target \in Minted' /\ req'[p].target = req[p].target
                                     /\ req'[p].op = req[p].op /\ req'[p].thread = req[p].thread
                                     /\ req'[p].pc = req[p].pc
    BY <1>1 DEF Minted, Told
  <2>2. \A m \in Minted : m \in Minted' \union {None}
    BY <1>4, <2>1 DEF Minted
  <2>3. t \in ClientIds \union Minted'
    BY <1>1, <1>4, <2>1
  <2>4. \A p \in Requests : req'[p].thread \in ClientIds \union Minted' \union {None}
    <3> SUFFICES ASSUME NEW p \in Requests
                 PROVE  req'[p].thread \in ClientIds \union Minted' \union {None}
      OBVIOUS
    <3>1. CASE p = q
      BY <1>1, <2>3, <3>1 DEF Begun
    <3>2. CASE p # q
      BY <2>1, <2>2, <3>2 DEF ThreadInv, NamesOK
    <3> QED
      BY <3>1, <3>2
  <2>5. /\ req'[q].op = op /\ req'[q].thread = t
        /\ op = "copy" => req'[q].target \in CopyIds /\ req'[q].target \notin Minted
        /\ op # "copy" => req'[q].target = None
    BY <1>1 DEF Begun
  <2>6. ASSUME NEW c \in Requests, NEW p \in Requests, req'[c].op = "copy",
               req'[p].target = req'[c].target
        PROVE  p = c
    <3>1. CASE c = q
      BY <2>1, <2>5, <2>6, <3>1 DEF Minted
    <3>2. CASE c # q /\ p = q
      BY <1>5, <1>9, <2>1, <2>5, <2>6, <3>2 DEF Minted
    <3>3. CASE c # q /\ p # q
      BY <2>1, <2>6, <3>3 DEF ThreadInv, NamesOK
    <3> QED
      BY <3>1, <3>2, <3>3
  <2>7. ASSUME NEW c \in Requests, NEW p \in Requests, req'[c].op = "copy",
               req'[c].pc # "answered"
        PROVE  req'[p].thread # req'[c].target
    <3>1. CASE c = q /\ p = q
      BY <1>1, <1>5, <2>5, <2>7, <3>1 DEF Minted
    <3>2. CASE c = q /\ p # q
      <4>1. req'[p].thread \in ClientIds \union Minted \union {None}
        BY <2>1, <3>2 DEF ThreadInv, NamesOK
      <4> QED
        BY <1>5, <2>5, <2>7, <3>2, <4>1
    <3>3. CASE c # q /\ p = q
      <4>1. req[c].op = "copy" /\ req[c].pc # "answered" /\ req'[c].target = req[c].target
            /\ req[c].target \in CopyIds
        BY <1>9, <2>1, <2>7, <3>3
      <4>2. CASE t \in ClientIds
        BY <1>5, <2>5, <3>3, <4>1, <4>2
      <4>3. ASSUME NEW a \in Requests, req[a].pc = "answered", req[a].target = t
            PROVE  req'[p].thread # req'[c].target
        BY <2>5, <3>3, <4>1, <4>3 DEF ThreadInv, NamesOK
      <4> QED
        BY <1>1, <4>2, <4>3
    <3>4. CASE c # q /\ p # q
      BY <2>1, <2>7, <3>4 DEF ThreadInv, NamesOK
    <3> QED
      BY <3>1, <3>2, <3>3, <3>4
  <2> QED
    BY <2>4, <2>6, <2>7 DEF NamesOK
<1>12. \A p \in Requests : p # q => (InFlight(p)' <=> InFlight(p))
  BY <1>1 DEF Told, InFlight
<1>13. \A p \in Requests : q \notin req[p].with
  BY <1>4 DEF ThreadInv, OverlapOK
<1>14. \A p \in Requests : p # q =>
          /\ \A r \in req[p].with : r \in req'[p].with /\ r # q /\ req'[r].op = req[r].op
          /\ (Owing(p)' => Owing(p)) /\ (Undisturbed(p)' => Undisturbed(p))
  <2> SUFFICES ASSUME NEW p \in Requests, p # q
               PROVE  /\ \A r \in req[p].with : r \in req'[p].with /\ r # q /\ req'[r].op = req[r].op
                      /\ (Owing(p)' => Owing(p)) /\ (Undisturbed(p)' => Undisturbed(p))
    OBVIOUS
  <2>1. \A r \in req[p].with : r \in req'[p].with /\ r # q /\ req'[r].op = req[r].op
    BY <1>1, <1>6, <1>13 DEF Told
  <2>2. Owing(p)' => Owing(p)
    BY <2>1 DEF Owing
  <2>3. Undisturbed(p)' => Undisturbed(p)
    BY <2>1 DEF Undisturbed
  <2> QED
    BY <2>1, <2>2, <2>3
<1>15. OverlapOK'
  <2>1. ~InFlight(q)
    BY <1>4 DEF InFlight, Calls
  <2>2. req'[q].pc # "idle"
    BY <1>1 DEF Begun
  <2>3. \A p \in Requests : p \notin req'[p].with /\ \A r \in req'[p].with : req'[r].pc # "idle"
    <3> SUFFICES ASSUME NEW p \in Requests
                 PROVE  p \notin req'[p].with /\ \A r \in req'[p].with : req'[r].pc # "idle"
      OBVIOUS
    <3>1. CASE p = q
      <4>1. \A r \in req'[q].with : r \in Requests /\ InFlight(r) /\ r # q
        BY <1>1, <2>1 DEF Begun
      <4> QED
        BY <1>1, <3>1, <4>1 DEF Told, InFlight, Calls
    <3>2. CASE p # q
      <4>1. \A r \in req'[p].with : r = q \/ r \in req[p].with
        BY <1>1, <3>2 DEF Told
      <4>2. \A r \in req[p].with : r \in Requests /\ r # p /\ req[r].pc # "idle" /\ r # q
        BY <1>6, <1>13 DEF ThreadInv, OverlapOK
      <4> QED
        BY <1>1, <2>2, <3>2, <4>1, <4>2 DEF Told
    <3> QED
      BY <3>1, <3>2
  <2>4. ASSUME NEW p \in Requests, NEW r \in Requests, p # r, InFlight(p)', InFlight(r)',
               req'[p].thread = req'[r].thread
        PROVE  p \in req'[r].with
    <3>1. CASE p = q
      <4>1. r # q /\ InFlight(r) /\ req[r].thread = t /\ Told(r, q, t)
        BY <1>1, <1>12, <2>4, <3>1 DEF Told, Begun
      <4> QED
        BY <3>1, <4>1 DEF Told
    <3>2. CASE r = q
      <4>1. p # q /\ InFlight(p) /\ req[p].thread = t
        BY <1>1, <1>12, <2>4, <3>2 DEF Told, Begun
      <4> QED
        BY <1>1, <3>2, <4>1 DEF Begun
    <3>3. CASE p # q /\ r # q
      <4>1. InFlight(p) /\ InFlight(r) /\ req[p].thread = req[r].thread
        BY <1>1, <1>12, <2>4, <3>3 DEF Told
      <4>2. p \in req[r].with
        BY <2>4, <4>1 DEF ThreadInv, OverlapOK
      <4> QED
        BY <1>14, <3>3, <4>2
    <3> QED
      BY <3>1, <3>2, <3>3
  <2>5. Serial => \A p, r \in Requests : InFlight(p)' /\ InFlight(r)' => p = r
    BY <1>1, <1>12 DEF Idle
  <2> QED
    BY <1>2, <2>3, <2>4, <2>5 DEF OverlapOK
<1>16. TalesOK'
  <2>1. \A b \in Requests, u \in Threads : req[b].thread = u => b # q /\ req'[b].thread = u
    BY <1>1, <1>4, ConstantsAssumption DEF Told, Threads
  <2>2. \A e \in Requests : req[e].pc = "answered" => Told(e, q, t)
    BY <1>1, <1>4
  <2>3. \A u \in Threads : owed[u] \subseteq Requests
    BY <1>2 DEF Shape
  <2>4. owed' = owed /\ born' = born /\ gone' \subseteq gone /\ gone \subseteq Threads
    BY <1>1, <1>2 DEF Shape
  <2>5. \A u \in Threads : \A e \in owed'[u] :
           req'[e].op = "edit" /\ req'[e].pc = "answered" /\ req'[e].thread = u
    BY <2>2, <2>3, <2>4 DEF ThreadInv, TalesOK, Told
  <2>6. \A u \in Threads : \A b \in born'[u] : b \in Requests /\ req'[b].thread = u
    BY <2>1, <2>4 DEF ThreadInv, TalesOK
  <2>7. \A u \in gone' : \E r \in Requests : req'[r].thread = u
    BY <2>1, <2>4 DEF ThreadInv, TalesOK
  <2> QED
    BY <2>5, <2>6, <2>7 DEF TalesOK
<1>17. \A x : StateOf(req, x) => StateOf(req', x)
  BY <1>1, <1>4 DEF StateOf, Past, Ends, Told
<1>18. StatesOK'
  <2>1. ASSUME NEW p \in Requests
        PROVE  /\ req'[p].seen # None => StateOf(req', req'[p].seen)
               /\ req'[p].pc = "copyNext" /\ provider = "sqlite" =>
                     \A i \in DOMAIN req'[p].todo : StateOf(req', req'[p].todo[i])
    <3>1. CASE p = q
      BY <1>1, <3>1 DEF Begun
    <3>2. CASE p # q
      <4>1. Told(p, q, t)
        BY <1>1, <3>2
      <4>2. /\ req[p].seen # None => StateOf(req, req[p].seen)
            /\ req[p].pc = "copyNext" /\ provider = "sqlite" =>
                  \A i \in DOMAIN req[p].todo : StateOf(req, req[p].todo[i])
        BY DEF ThreadInv, StatesOK
      <4> QED
        BY <1>17, <4>1, <4>2 DEF Told
    <3> QED
      BY <3>1, <3>2
  <2> QED
    BY <1>2, <1>17, <2>1 DEF ThreadInv, StatesOK
<1>19. KeptOK'
  <2>1. ASSUME NEW e \in Requests, e # q, NEW u \in Threads, Held(e, u)
        PROVE  Held(e, u)'
    BY <1>1, <1>2, <2>1 DEF Held, Told
  <2>2. \A u \in Threads : \A e \in owed'[u] : Held(e, u)'
    <3>1. \A u \in Threads : \A e \in owed[u] : e \in Requests /\ e # q /\ Held(e, u)
      BY <1>2, <1>4 DEF ThreadInv, KeptOK, TalesOK, Shape
    <3> QED
      BY <1>1, <2>1, <3>1
  <2>3. ASSUME NEW e \in Requests, req'[e].op = "edit", req'[e].pc \in {"modify", "write"}, Owing(e)'
        PROVE  Held(e, req[e].thread)'
    <3>1. e # q
      BY <1>1, <2>3 DEF Begun
    <3>2. /\ req[e].op = "edit" /\ req[e].pc \in {"modify", "write"} /\ Owing(e)
          /\ req'[e].thread = req[e].thread
      BY <1>1, <1>14, <2>3, <3>1 DEF Told
    <3>3. PICK u \in Threads : u = req[e].thread
      BY <3>2 DEF ThreadInv, CallsOK, PlaceOK
    <3>4. Held(e, u)
      BY <3>2, <3>3 DEF ThreadInv, KeptOK
    <3>5. Held(e, u)'
      BY <2>1, <3>1, <3>4
    <3> QED
      BY <3>2, <3>3, <3>5 DEF Held
  <2>4. \A p \in Requests : req'[p].pc \in {"list", "purge"} => owed'[req'[p].thread] = {}
    BY <1>1 DEF ThreadInv, KeptOK, Told, Begun
  <2> QED
    BY <2>2, <2>3, <2>4 DEF KeptOK
<1>20. BornOK'
  <2>1. \A p \in Requests : req'[p].pc = "insert" => req[p].pc = "insert" /\ req'[p].thread = req[p].thread
    BY <1>1 DEF Told, Begun
  <2> QED
    BY <1>1, <1>2, <2>1 DEF ThreadInv, BornOK
<1>21. GoneOK'
  <2>1. \A p \in Requests : req'[p].pc \in {"copyNext", "copyHistory", "list", "purge"} =>
           p # q /\ Told(p, q, t)
    BY <1>1 DEF Begun
  <2>2. ASSUME NEW u \in gone'
        PROVE  Quiet(u)'
    <3>1. Quiet(u) /\ u \in gone
      BY <1>1, <2>2 DEF ThreadInv, GoneOK
    <3> SUFFICES ASSUME NEW p \in Requests, InFlight(p)', req'[p].thread = u
                 PROVE  \/ req'[p].op \in Deletes \union {"patch", "copy"}
                        \/ req'[p].op = "edit" /\ req'[p].pc = "find"
      BY DEF Quiet
    <3>2. CASE p = q
      BY <1>1, <2>2, <3>2 DEF Begun, Ops, Creates, Deletes
    <3>3. CASE p # q
      BY <1>1, <1>12, <3>1, <3>3 DEF Told, Quiet
    <3> QED
      BY <3>2, <3>3
  <2>3. provider \in Sql =>
          /\ \A u \in Threads : thread[u] = None => states[u] = <<>>
          /\ \A p \in Requests :
                req'[p].pc = "copyNext" \/ (req'[p].pc = "copyHistory" /\ provider = "sqlite")
                   => thread[req'[p].target] # None
    BY <2>1 DEF ThreadInv, GoneOK, Told
  <2>4. \A p \in Requests : req'[p].pc \in {"list", "purge"} /\ Undisturbed(p)' =>
          /\ thread[req'[p].thread] = None
          /\ req'[p].pc = "purge" => Listed(states[req'[p].thread], req'[p].todo)
    BY <1>14, <2>1 DEF ThreadInv, GoneOK, Told
  <2>5. \A u \in gone' : thread[u] = None /\ states[u] = <<>>
    BY <1>1 DEF ThreadInv, GoneOK
  <2> QED
    BY <1>2, <2>2, <2>3, <2>4, <2>5 DEF GoneOK
<1> QED
  BY <1>7, <1>8, <1>11, <1>15, <1>16, <1>18, <1>19, <1>20, <1>21 DEF ThreadInv

-----------------------------------------------------------------------------
(* The theorems.                                                           *)

LEMMA StepKeeps ==
    ASSUME ThreadInv, NEW q \in Requests, Step(q) \/ CallFails(q)
    PROVE  ThreadInv'
<1>1. Moved(q) /\ PlaceOK(provider, req'[q]) /\ Shape'
  BY StepMoves
<1> QED
  BY <1>1, CallsKept, NamesKept, OverlapKept, TalesKept, StatesKept, KeptKept, BornKept, GoneKept
     DEF ThreadInv

\* The clock goes on, or nothing happens.
LEMMA StillKeeps ==
    ASSUME ThreadInv, now' \in Times, UNCHANGED <<fixed, faults, store, req, ghost>>
    PROVE  ThreadInv'
<1>1. /\ provider' = provider /\ clients' = clients /\ faults' = faults /\ uploads' = uploads
      /\ thread' = thread /\ states' = states /\ req' = req
      /\ owed' = owed /\ born' = born /\ gone' = gone
  BY DEF fixed, store, ghost
<1>2. Shape' /\ CallsOK' /\ NamesOK' /\ TalesOK'
  BY <1>1 DEF ThreadInv, Shape, CallsOK, NamesOK, TalesOK, Minted
<1>3. OverlapOK' /\ StatesOK'
  BY <1>1 DEF ThreadInv, OverlapOK, StatesOK, InFlight, Serial
<1>4. KeptOK'
  BY <1>1 DEF ThreadInv, KeptOK, Held, Owing
<1>5. BornOK' /\ GoneOK'
  BY <1>1 DEF ThreadInv, BornOK, GoneOK, Serial, Quiet, InFlight, Undisturbed
<1> QED
  BY <1>2, <1>3, <1>4, <1>5 DEF ThreadInv

LEMMA InitHolds == Init => ThreadInv
<1> SUFFICES ASSUME Init
             PROVE  ThreadInv
  OBVIOUS
<1>1. \A q \in Requests : req[q] = NoRequest
  BY DEF Init
<1>2. \A q \in Requests :
         /\ req[q].op = "none" /\ req[q].thread = None /\ req[q].pc = "idle" /\ req[q].with = {}
         /\ req[q].old = None /\ req[q].seen = None /\ req[q].target = None
  BY <1>1 DEF NoRequest
<1>3. \A q \in Requests : ~InFlight(q)
  BY <1>2 DEF InFlight, Calls
<1>4. \A t \in Threads : states[t] = <<>> /\ owed[t] = {} /\ born[t] = {}
  BY DEF Init
<1>5. Shape
  <2>1. NoRequest \in ReqStates
    <3>1. 0 \in Times /\ 0 \in Nat /\ <<>> \in Seq(States) \union Seq(Int)
      BY ConstantsAssumption DEF Times
    <3> QED
      BY <3>1 DEF NoRequest, ReqStates, Pcs
  <2>2. thread \in [Threads -> Records \union {None}]
    <3>1. [meta |-> None, values |-> <<>>, tag |-> 0] \in Records
      BY DEF Records
    <3> QED
      BY <3>1 DEF Init
  <2>3. 0 \in Times /\ 0 \in 0 .. MaxFaults
    BY ConstantsAssumption DEF Times
  <2>4. states \in [Threads -> Seq(States)]
    BY DEF Init
  <2> QED
    BY <2>1, <2>2, <2>3, <2>4 DEF Init, Shape
<1>6. CallsOK
  BY <1>1, <1>2 DEF CallsOK, PlaceOK, Deletes
<1>7. NamesOK /\ OverlapOK
  BY <1>2, <1>3 DEF NamesOK, OverlapOK
<1>8. TalesOK
  BY <1>4 DEF TalesOK, Init
<1>9. StatesOK
  <2>1. PICK s : s = <<>> /\ DOMAIN s = {}
    OBVIOUS
  <2>2. \A t \in Threads : DOMAIN states[t] = {}
    BY <1>4, <2>1
  <2> QED
    BY <1>2, <2>2 DEF StatesOK, Distinct
<1>10. KeptOK /\ BornOK
  BY <1>2, <1>4 DEF KeptOK, BornOK
<1>11. GoneOK
  BY <1>2, <1>4 DEF GoneOK, Init
<1> QED
  BY <1>5, <1>6, <1>7, <1>8, <1>9, <1>10, <1>11 DEF ThreadInv

(* The inductive invariant.                                                *)
THEOREM ThreadsInvariant == Spec => []ThreadInv
<1>1. Init => ThreadInv
  BY InitHolds
<1>2. ThreadInv /\ [Next]_vars => ThreadInv'
  <2> SUFFICES ASSUME ThreadInv, [Next]_vars
               PROVE  ThreadInv'
    OBVIOUS
  <2>1. CASE Tick
    <3>1. now' \in Times
      BY <2>1, ConstantsAssumption DEF Tick, Times, ThreadInv, Shape
    <3> QED
      BY <2>1, <3>1, StillKeeps DEF Tick
  <2>2. CASE \E q \in Requests : \E op \in Ops, t \in Threads : Begin(q, op, t)
    BY <2>2, BeginKeeps
  <2>3. CASE \E q \in Requests : Step(q) \/ CallFails(q)
    BY <2>3, StepKeeps
  <2>4. CASE UNCHANGED vars
    <3>1. now' \in Times /\ UNCHANGED <<fixed, faults, store, req, ghost>>
      BY <2>4 DEF vars, fixed, store, ghost, ThreadInv, Shape
    <3> QED
      BY <3>1, StillKeeps
  <2> QED
    BY <2>1, <2>2, <2>3, <2>4 DEF Next
<1> QED
  BY <1>1, <1>2, PTL DEF Spec

(* The type invariant of the Threads API (ThreadStates).                   *)
THEOREM TypeCorrect == Spec => []TypeOK
<1>1. ThreadInv => TypeOK
  <2> SUFFICES ASSUME ThreadInv
               PROVE  TypeOK
    OBVIOUS
  <2>1. Shape
    BY DEF ThreadInv
  <2>2. ASSUME NEW q \in Requests
        PROVE  /\ req[q].op \in Ops \union {"none"}
               /\ req[q].pc \in Calls \union Ends \union {"idle"}
               /\ req[q].pc # "idle" => req[q].thread \in Threads
               /\ req[q].op = "copy" <=> req[q].target \in CopyIds
               /\ req[q].with \subseteq Requests \ {q}
               /\ req[q].old \in Records \union {None}
               /\ req[q].seen \in States \union {None}
               /\ req[q].pc = "write" => req[q].old # None
    <3>1. req[q] \in ReqStates /\ PlaceOK(provider, req[q]) /\ q \notin req[q].with
      BY <2>1 DEF Shape, ThreadInv, CallsOK, OverlapOK
    <3>2. /\ req[q].op \in Ops \union {"none"} /\ req[q].pc \in Pcs
          /\ req[q].with \in SUBSET Requests /\ req[q].old \in Records \union {None}
          /\ req[q].seen \in States \union {None} /\ req[q].target \in CopyIds \union {None}
      BY <3>1 DEF ReqStates
    <3>3. req[q].op = "copy" <=> req[q].target \in CopyIds
      BY <3>1, <3>2, ConstantsAssumption DEF PlaceOK
    <3> QED
      BY <3>1, <3>2, <3>3 DEF Pcs, PlaceOK
  <2> QED
    BY <2>1, <2>2 DEF Shape, TypeOK
<1> QED
  BY <1>1, ThreadsInvariant, PTL

(* What a client was answered stays true on every storage provider: a      *)
(* state whose edit was answered stays in the history until its thread is  *)
(* deleted, whatever overlaps it, and at most one client is told that it   *)
(* created a thread (ThreadStates).                                        *)
THEOREM AnswersHoldCorrect == Spec => []AnswersHold
<1>1. ThreadInv => AnswersHold
  <2> SUFFICES ASSUME ThreadInv
               PROVE  AnswersHold
    OBVIOUS
  <2>1. AcceptedKept
    BY DEF ThreadInv, KeptOK, Held, AcceptedKept
  <2>2. ASSUME provider \in Sql \/ Serial, NEW t \in Threads
        PROVE  Cardinality(born[t]) <= 1
    <3>1. \A a, b \in born[t] : a = b
      BY <2>2 DEF ThreadInv, BornOK
    <3>2. CASE born[t] = {}
      BY <3>2, FS_EmptySet
    <3>3. CASE born[t] # {}
      <4>1. PICK b \in born[t] : born[t] = {b}
        BY <3>1, <3>3
      <4>2. Cardinality({b}) = 1
        BY FS_Singleton
      <4> QED
        BY <4>1, <4>2
    <3> QED
      BY <3>2, <3>3
  <2> QED
    BY <2>1, <2>2 DEF AnswersHold, CreatedOnce
<1> QED
  BY <1>1, ThreadsInvariant, PTL

(* A deleted thread is gone with its history: in the SQL tables no state   *)
(* outlives its thread, and a thread whose delete was answered, and which  *)
(* nothing that overlapped the delete could bring back, stays without a    *)
(* record and without a state (ThreadStates).                              *)
THEOREM DeletedGoneCorrect == Spec => []DeletedGone
<1>1. ThreadInv => DeletedGone
  BY DEF ThreadInv, GoneOK, DeletedGone, Shape
<1> QED
  BY <1>1, ThreadsInvariant, PTL

-----------------------------------------------------------------------------
(* Copies.  While a copy runs, the states that it owes are in the copy's   *)
(* history h or still to be copied; with are those that overlapped it.     *)

Rising(s)   == \A i, j \in DOMAIN s : i < j => s[i].at <= s[j].at
Climbing(p) == \A i, j \in DOMAIN p : i < j => p[i] < p[j]

SqliteHalf(s, h, todo, wanted, with) ==
    /\ \A e \in wanted : e \in Bys(h) \union Bys(todo) \/ Len(h) + Len(todo) >= HistoryLimit
    /\ Rising(h) /\ Rising(todo)
    /\ \A i \in DOMAIN h, j \in DOMAIN todo : h[i].at <= todo[j].at
    /\ with = {} => s # <<>> /\ SqliteGetState(s) = {todo[Len(todo)]}

AzureHalf(s, h, todo, wanted, with) ==
    /\ Climbing(todo)
    /\ \A i \in DOMAIN h, j \in DOMAIN todo : h[i].at < todo[j]
    /\ \A i \in DOMAIN s : s[i].by \in wanted =>
          s[i].by \in Bys(h) \/ \E j \in DOMAIN todo : todo[j] = s[i].at
    /\ with = {} => /\ \A i \in DOMAIN h : \E j \in DOMAIN s : h[i] = s[j]
                    /\ \A i \in DOMAIN s : \/ \E j \in DOMAIN h : h[j] = s[i]
                                           \/ \E j \in DOMAIN todo : todo[j] = s[i].at

\* The blob x that was downloaded by its name.
AzureSeen(s, x, at, wanted, with) ==
    /\ x.at = at
    /\ \A i \in DOMAIN s : s[i].by \in wanted /\ s[i].at = at => s[i].by = x.by
    /\ with = {} => \E i \in DOMAIN s : s[i] = x

\* The edits that q has to copy.
Wanted(q) == req[q].base \intersect owed[req[q].thread]

CopyOK(q) ==
    LET s == states[req[q].thread]
        h == states[req[q].target]
        r == req[q]
    IN  /\ r.pc \in {"find", "copy", "copyInsert", "copyHistory"} => h = <<>>
        /\ r.pc = "copyNext" /\ provider = "sqlite" =>
              SqliteHalf(s, h, r.todo, Wanted(q), r.with)
        /\ r.pc \in {"copyNext", "copyUpload"} /\ provider = "azure" =>
              AzureHalf(s, h, r.todo, Wanted(q), r.with)
        /\ r.pc = "copyUpload" => AzureSeen(s, r.seen, r.todo[1], Wanted(q), r.with)
        /\ r.pc = "answered" =>
              /\ r.missing # {} => provider = "sqlite" /\ r.copied >= HistoryLimit
              /\ ~r.behind

CopyInv ==
    /\ \A c \in CopyIds \ Minted : states[c] = <<>>
    /\ \A q \in Requests : \A e \in req[q].base : req[e].op = "edit" /\ req[e].pc = "answered"
    /\ \A q \in Requests : req[q].op = "copy" => CopyOK(q)

\* The newest state of a history in the order of time is its last one.
LEMMA RisingNewest ==
    ASSUME NEW T, NEW s \in Seq(T), s # <<>>, Timed(s), Rising(s)
    PROVE  SqliteGetState(s) = {s[Len(s)]}
<1>1. PICK n \in Nat : n = Len(s) /\ DOMAIN s = 1 .. n /\ n \in 1 .. n
  OBVIOUS
<1>2. \A i \in 1 .. n : s[i].at \in Int /\ s[i].at <= s[n].at
  <2>1. \A i \in 1 .. n : s[i].at \in Int
    BY <1>1 DEF Timed
  <2>2. \A i \in 1 .. n : i < n => s[i].at <= s[n].at
    BY <1>1 DEF Rising
  <2>3. \A i \in 1 .. n : i < n \/ i = n
    BY <1>1
  <2> QED
    BY <1>1, <2>1, <2>2, <2>3
<1>3. n \in Latest(s) /\ \A i \in Latest(s) : i \in 1 .. n
  BY <1>1, <1>2 DEF Latest
<1>4. \A i \in Latest(s) : i <= n
  BY <1>1, <1>3
<1>5. \A k \in Latest(s) : (\A i \in Latest(s) : i <= k) => k = n
  BY <1>1, <1>3
<1>6. (CHOOSE k \in Latest(s) : \A i \in Latest(s) : i <= k) = n
  BY <1>3, <1>4, <1>5
<1> QED
  BY <1>1, <1>6 DEF SqliteGetState

\* The newest state of a history is the last one by time.
LEMMA NewestByTime ==
    ASSUME NEW T, NEW s \in Seq(T), s # <<>>, Timed(s), NEW b, b = ByTime(s)
    PROVE  SqliteGetState(s) = {b[Len(s)]}
<1>1. PICK k \in Latest(s) : b[Len(s)] = s[k] /\ \A j \in Latest(s) : j <= k
  BY LatestIsLast
<1>2. \A i \in Latest(s) : i \in Nat
  BY DEF Latest
<1>3. \A i \in Latest(s) : (\A j \in Latest(s) : j <= i) => i = k
  BY <1>1, <1>2
<1>4. (CHOOSE i \in Latest(s) : \A j \in Latest(s) : j <= i) = k
  BY <1>1, <1>3
<1> QED
  BY <1>1, <1>4 DEF SqliteGetState

\* What SQLite copies of a history.
LEMMA SqliteSource ==
    ASSUME NEW T, NEW s \in Seq(T), Timed(s), NEW todo, todo = SqliteCopySource(s)
    PROVE  /\ todo \in Seq(T) /\ Rising(todo)
           /\ s # <<>> => todo # <<>> /\ SqliteGetState(s) = {todo[Len(todo)]}
           /\ \A e \in Bys(s) : e \in Bys(todo) \/ Len(todo) >= HistoryLimit
<1>1. PICK b : b = ByTime(s)
  OBVIOUS
<1>2. /\ b \in Seq(T) /\ Len(b) = Len(s) /\ Len(s) \in Nat
      /\ \A j \in DOMAIN s : \E i \in DOMAIN b : b[i] = s[j]
  BY <1>1, ByTimeKeeps
<1>3. HistoryLimit \in Nat \ {0}
  BY ConstantsAssumption
<1>4. todo = LastOf(b, HistoryLimit)
  BY <1>1 DEF SqliteCopySource
<1>5. /\ todo \in Seq(T) /\ Len(todo) = IF Len(b) <= HistoryLimit THEN Len(b) ELSE HistoryLimit
      /\ \A i \in 1 .. Len(todo) : todo[i] = b[Len(b) - Len(todo) + i]
  <2>1. PICK n \in Nat : n = HistoryLimit
    BY <1>3
  <2>2. todo = LastOf(b, n) /\ b \in Seq(T)
    BY <1>2, <1>4, <2>1
  <2>3. /\ todo \in Seq(T) /\ Len(todo) = IF Len(b) <= n THEN Len(b) ELSE n
        /\ \A i \in 1 .. Len(todo) : todo[i] = b[Len(b) - Len(todo) + i]
    <3>1. todo \in Seq(T) /\ Len(todo) = IF Len(b) <= n THEN Len(b) ELSE n
      BY <2>2, LastOfKeeps
    <3>2. \A i \in 1 .. Len(todo) : todo[i] = b[Len(b) - Len(todo) + i]
      BY <2>2, LastOfKeeps
    <3> QED
      BY <3>1, <3>2
  <2> QED
    BY <2>1, <2>3
<1>6. DOMAIN todo = 1 .. Len(todo) /\ Len(todo) \in Nat /\ Len(todo) <= Len(b) /\ DOMAIN b = 1 .. Len(b)
  BY <1>2, <1>3, <1>5
<1>7. Rising(b)
  <2>1. PICK order : TimeOrder(Len(s), s, b, order)
    BY <1>1, ByTimeOrders
  <2> SUFFICES ASSUME NEW i \in DOMAIN b, NEW j \in DOMAIN b, i < j
               PROVE  b[i].at <= b[j].at
    BY DEF Rising
  <2>a. i \in 1 .. Len(s) /\ j \in 1 .. Len(s) /\ DOMAIN s = 1 .. Len(s)
    BY <1>2, <1>6
  <2>b. order \in [1 .. Len(s) -> 1 .. Len(s)]
    BY <2>1 DEF TimeOrder
  <2>2. /\ i \in 1 .. Len(s) /\ j \in 1 .. Len(s)
        /\ order[i] \in 1 .. Len(s) /\ order[j] \in 1 .. Len(s) /\ DOMAIN s = 1 .. Len(s)
    BY <2>a, <2>b
  <2>3. /\ b[i] = s[order[i]] /\ b[j] = s[order[j]]
        /\ s[order[i]].at < s[order[j]].at \/ s[order[i]].at = s[order[j]].at
    BY <2>1, <2>2 DEF TimeOrder
  <2>4. s[order[i]].at \in Int /\ s[order[j]].at \in Int
    BY <2>2 DEF Timed
  <2> QED
    BY <2>3, <2>4
<1>8. Rising(todo)
  <2> SUFFICES ASSUME NEW i \in DOMAIN todo, NEW j \in DOMAIN todo, i < j
               PROVE  todo[i].at <= todo[j].at
    BY DEF Rising
  <2>a. Len(b) \in Nat /\ Len(todo) \in Nat /\ Len(todo) <= Len(b)
    BY <1>2, <1>6
  <2>b. Len(b) - Len(todo) \in Nat
    BY <2>a
  <2>1. PICK d \in Nat : d = Len(b) - Len(todo)
    BY <2>b
  <2>2. d + i \in DOMAIN b /\ d + j \in DOMAIN b /\ d + i < d + j
    BY <1>2, <1>6, <2>1
  <2>3. todo[i] = b[d + i] /\ todo[j] = b[d + j]
    BY <1>5, <1>6, <2>1
  <2> QED
    BY <1>7, <2>2, <2>3 DEF Rising
<1>9. s # <<>> => todo # <<>> /\ SqliteGetState(s) = {todo[Len(todo)]}
  <2> SUFFICES ASSUME s # <<>>
               PROVE  todo # <<>> /\ SqliteGetState(s) = {todo[Len(todo)]}
    OBVIOUS
  <2>1. Len(s) # 0
    OBVIOUS
  <2>2. Len(todo) # 0 /\ Len(todo) \in 1 .. Len(todo) /\ Len(b) - Len(todo) + Len(todo) = Len(s)
    BY <1>2, <1>3, <1>5, <1>6, <2>1
  <2>3. todo[Len(todo)] = b[Len(s)]
    BY <1>5, <2>2
  <2>4. todo # <<>>
    BY <2>2
  <2> QED
    BY <1>1, <2>3, <2>4, NewestByTime
<1>10. \A e \in Bys(s) : e \in Bys(todo) \/ Len(todo) >= HistoryLimit
  <2> SUFFICES ASSUME NEW e \in Bys(s), Len(todo) < HistoryLimit
               PROVE  e \in Bys(todo)
    BY <1>3, <1>6
  <2>1. Len(todo) = Len(b)
    BY <1>2, <1>3, <1>5
  <2>2. \A i \in 1 .. Len(b) : todo[i] = b[i]
    <3>1. \A i \in 1 .. Len(b) : Len(b) - Len(todo) + i = i
      BY <1>2, <2>1
    <3> QED
      BY <1>5, <2>1, <3>1
  <2>3. PICK j \in DOMAIN s : e = s[j].by
    BY DEF Bys
  <2>4. PICK i \in DOMAIN b : b[i] = s[j]
    BY <1>2, <2>3
  <2> QED
    BY <1>6, <2>1, <2>2, <2>3, <2>4 DEF Bys
<1> QED
  BY <1>5, <1>8, <1>9, <1>10

\* Histories of the same states have the same newest ones.
LEMMA SameNewest ==
    ASSUME NEW T, NEW s \in Seq(T), NEW h \in Seq(T),
           \A i \in DOMAIN h : \E j \in DOMAIN s : h[i] = s[j],
           \A i \in DOMAIN s : \E j \in DOMAIN h : h[j] = s[i],
           provider \in {"sqlserver", "azure"}
    PROVE  Newest(h) = Newest(s)
<1>1. (h = <<>>) <=> (s = <<>>)
  <2>1. \A f \in Seq(T) : f = <<>> \/ 1 \in DOMAIN f
    OBVIOUS
  <2>2. PICK f : f = <<>> /\ DOMAIN f = {}
    OBVIOUS
  <2> QED
    BY <2>1, <2>2
<1>2. \A x : x \in {h[i] : i \in Latest(h)} <=> x \in {s[i] : i \in Latest(s)}
  <2>1. ASSUME NEW i \in Latest(h)
        PROVE  \E k \in Latest(s) : h[i] = s[k]
    <3>1. PICK k \in DOMAIN s : h[i] = s[k]
      BY <2>1 DEF Latest
    <3>2. \A j \in DOMAIN s : s[j].at <= s[k].at
      BY <2>1, <3>1 DEF Latest
    <3> QED
      BY <3>1, <3>2 DEF Latest
  <2>2. ASSUME NEW i \in Latest(s)
        PROVE  \E k \in Latest(h) : s[i] = h[k]
    <3>1. PICK k \in DOMAIN h : h[k] = s[i]
      BY <2>2 DEF Latest
    <3>2. \A j \in DOMAIN h : h[j].at <= h[k].at
      BY <2>2, <3>1 DEF Latest
    <3> QED
      BY <3>1, <3>2 DEF Latest
  <2> QED
    BY <2>1, <2>2
<1>3. {h[i] : i \in Latest(h)} = {s[i] : i \in Latest(s)}
  BY <1>2
<1>4. CASE h = <<>>
  BY <1>1, <1>4
<1>5. CASE h # <<>>
  BY <1>1, <1>3, <1>5 DEF Newest, SqlServerGetState, AzureGetState
<1> QED
  BY <1>4, <1>5

LEMMA SqliteAdvance ==
    ASSUME NEW T, NEW s, NEW h \in Seq(T), NEW todo \in Seq(T), todo # <<>>, NEW wanted, NEW with,
           Timed(h), Timed(todo), SqliteHalf(s, h, todo, wanted, with),
           NEW g, g = Append(h, Head(todo))
    PROVE  /\ g \in Seq(T) /\ g # <<>> /\ Len(g) = Len(h) + 1 /\ g[Len(g)] = todo[1]
           /\ Rising(g) /\ Timed(g)
           /\ \A e \in Bys(h) : e \in Bys(g)
           /\ todo[1].by \in Bys(g)
           /\ Len(todo) # 1 => SqliteHalf(s, g, Tail(todo), wanted, with)
<1>1. PICK rest : rest = Tail(todo)
  OBVIOUS
<1>2. PICK x \in T : x = Head(todo)
  BY TailOf
<1>3. /\ Len(todo) \in Nat \ {0} /\ x = todo[1]
      /\ rest \in Seq(T) /\ Len(rest) = Len(todo) - 1
      /\ \A i \in 1 .. Len(todo) - 1 : rest[i] = todo[i + 1]
      /\ DOMAIN todo = 1 .. Len(todo) /\ DOMAIN rest = 1 .. Len(todo) - 1
  BY <1>1, <1>2, TailOf
<1>4. g = Append(h, x)
  BY <1>2
<1>5. /\ g \in Seq(T) /\ Len(g) = Len(h) + 1 /\ g[Len(g)] = x
      /\ \A i \in DOMAIN g : g[i] = x \/ \E j \in DOMAIN h : g[i] = h[j]
      /\ \A j \in DOMAIN h : j \in DOMAIN g /\ g[j] = h[j]
  BY <1>2, <1>4, AppendKeeps
<1>6. /\ DOMAIN g = 1 .. Len(h) + 1 /\ DOMAIN h = 1 .. Len(h) /\ Len(h) \in Nat
      /\ 1 \in DOMAIN todo
  BY <1>3, <1>5
<1>7. x.at \in Int /\ \A i \in DOMAIN h : h[i].at \in Int /\ h[i].at <= x.at
  BY <1>3, <1>6 DEF SqliteHalf, Timed
<1>8. \A i \in DOMAIN g : i \in DOMAIN h \/ (i = Len(h) + 1 /\ g[i] = x)
  BY <1>5, <1>6
<1>9. Rising(g)
  <2> SUFFICES ASSUME NEW i \in DOMAIN g, NEW j \in DOMAIN g, i < j
               PROVE  g[i].at <= g[j].at
    BY DEF Rising
  <2>1. i \in DOMAIN h /\ g[i] = h[i]
    BY <1>5, <1>6
  <2>2. CASE j \in DOMAIN h
    BY <1>5, <2>1, <2>2 DEF SqliteHalf, Rising
  <2>3. CASE g[j] = x
    BY <1>7, <2>1, <2>3
  <2> QED
    BY <1>8, <2>2, <2>3
<1>10. Timed(g)
  BY <1>5, <1>7, <1>8 DEF Timed
<1>11. Len(h) + 1 \in DOMAIN g /\ g[Len(h) + 1] = x
  BY <1>5, <1>6
<1>12. x.by \in Bys(g) /\ \A e \in Bys(h) : e \in Bys(g)
  BY <1>5, <1>11 DEF Bys
<1>13. ASSUME Len(todo) # 1
       PROVE  SqliteHalf(s, g, rest, wanted, with)
  <2>1. \A j \in DOMAIN rest : j + 1 \in DOMAIN todo /\ rest[j] = todo[j + 1] /\ j + 1 > 1
    BY <1>3
  <2>2. Rising(rest)
    <3> SUFFICES ASSUME NEW i \in DOMAIN rest, NEW j \in DOMAIN rest, i < j
                 PROVE  rest[i].at <= rest[j].at
      BY DEF Rising
    <3>1. i + 1 < j + 1
      BY <1>3
    <3> QED
      BY <2>1, <3>1 DEF SqliteHalf, Rising
  <2>3. \A i \in DOMAIN g, j \in DOMAIN rest : g[i].at <= rest[j].at
    <3> SUFFICES ASSUME NEW i \in DOMAIN g, NEW j \in DOMAIN rest
                 PROVE  g[i].at <= rest[j].at
      OBVIOUS
    <3>1. j + 1 \in DOMAIN todo /\ rest[j] = todo[j + 1] /\ 1 < j + 1
      BY <1>3
    <3>2. CASE i \in DOMAIN h
      BY <1>5, <3>1, <3>2 DEF SqliteHalf
    <3>3. CASE g[i] = x
      BY <1>3, <1>6, <3>1, <3>3 DEF SqliteHalf, Rising
    <3> QED
      BY <1>8, <3>2, <3>3
  <2>4. \A e \in Bys(todo) : e \in Bys(rest) \/ e = x.by
    <3> SUFFICES ASSUME NEW i \in DOMAIN todo, i # 1
                 PROVE  todo[i].by \in Bys(rest)
      BY <1>3 DEF Bys
    <3>1. i - 1 \in DOMAIN rest /\ (i - 1) + 1 = i
      BY <1>3
    <3>2. rest[i - 1] = todo[i]
      BY <2>1, <3>1
    <3> QED
      BY <3>1, <3>2 DEF Bys
  <2>5. Len(g) + Len(rest) = Len(h) + Len(todo)
    BY <1>3, <1>5, <1>6
  <2>6. \A e \in wanted : e \in Bys(g) \union Bys(rest) \/ Len(g) + Len(rest) >= HistoryLimit
    BY <1>12, <2>4, <2>5 DEF SqliteHalf
  <2>7. rest[Len(rest)] = todo[Len(todo)]
    <3>1. Len(rest) \in DOMAIN rest /\ Len(rest) + 1 = Len(todo)
      BY <1>3, <1>13
    <3> QED
      BY <2>1, <3>1
  <2> QED
    BY <1>9, <2>2, <2>3, <2>6, <2>7 DEF SqliteHalf
<1> QED
  BY <1>1, <1>3, <1>5, <1>9, <1>10, <1>11, <1>12, <1>13

\* g is h with the blob of the source s of this name, if there is one.
Fetched(s, h, g, at, wanted, with) ==
    /\ \A i \in DOMAIN g : \/ \E j \in DOMAIN h : g[i] = h[j]
                           \/ g[i].at = at /\ (with = {} => \E j \in DOMAIN s : g[i] = s[j])
    /\ \A j \in DOMAIN h : \E i \in DOMAIN g : g[i] = h[j]
    /\ \A i \in DOMAIN s : s[i].by \in wanted /\ s[i].at = at => s[i].by \in Bys(g)
    /\ with = {} => \A i \in DOMAIN s : s[i].at = at => \E j \in DOMAIN g : g[j] = s[i]

LEMMA AzureAdvance ==
    ASSUME NEW T, NEW s \in Seq(T), NEW h \in Seq(T), NEW g \in Seq(T),
           NEW todo \in Seq(Int), todo # <<>>, NEW wanted, NEW with,
           AzureHalf(s, h, todo, wanted, with), Fetched(s, h, g, todo[1], wanted, with)
    PROVE  /\ Len(todo) = 1 =>
                 /\ \A i \in DOMAIN s : s[i].by \in wanted => s[i].by \in Bys(g)
                 /\ with = {} => /\ \A i \in DOMAIN g : \E j \in DOMAIN s : g[i] = s[j]
                                 /\ \A i \in DOMAIN s : \E j \in DOMAIN g : g[j] = s[i]
           /\ Len(todo) # 1 => AzureHalf(s, g, Tail(todo), wanted, with)
<1>1. PICK rest : rest = Tail(todo)
  OBVIOUS
<1>2. /\ Len(todo) \in Nat \ {0}
      /\ rest \in Seq(Int) /\ Len(rest) = Len(todo) - 1
      /\ \A i \in 1 .. Len(todo) - 1 : rest[i] = todo[i + 1]
      /\ DOMAIN todo = 1 .. Len(todo) /\ DOMAIN rest = 1 .. Len(todo) - 1
      /\ 1 \in DOMAIN todo
  BY <1>1, TailOf
<1>3. \A j \in DOMAIN todo : j = 1 \/ (j - 1 \in DOMAIN rest /\ rest[j - 1] = todo[j])
  <2> SUFFICES ASSUME NEW j \in DOMAIN todo, j # 1
               PROVE  j - 1 \in DOMAIN rest /\ rest[j - 1] = todo[j]
    OBVIOUS
  <2>1. j - 1 \in 1 .. Len(todo) - 1 /\ (j - 1) + 1 = j
    BY <1>2
  <2> QED
    BY <1>2, <2>1
<1>4. \A j \in DOMAIN rest : j + 1 \in DOMAIN todo /\ rest[j] = todo[j + 1] /\ 1 < j + 1
  BY <1>2
<1>5. \A b \in Bys(h) : b \in Bys(g)
  BY DEF Fetched, Bys
<1>6. \A i \in DOMAIN s : s[i].by \in wanted =>
         s[i].by \in Bys(g) \/ \E j \in DOMAIN rest : rest[j] = s[i].at
  <2> SUFFICES ASSUME NEW i \in DOMAIN s, s[i].by \in wanted, s[i].by \notin Bys(g)
               PROVE  \E j \in DOMAIN rest : rest[j] = s[i].at
    OBVIOUS
  <2>1. PICK j \in DOMAIN todo : todo[j] = s[i].at
    BY <1>5 DEF AzureHalf
  <2>2. j # 1
    BY <2>1 DEF Fetched
  <2> QED
    BY <1>3, <2>1, <2>2
<1>7. with = {} => \A i \in DOMAIN g : \E j \in DOMAIN s : g[i] = s[j]
  BY DEF AzureHalf, Fetched
<1>8. with = {} => \A i \in DOMAIN s : \/ \E j \in DOMAIN g : g[j] = s[i]
                                       \/ \E j \in DOMAIN rest : rest[j] = s[i].at
  <2> SUFFICES ASSUME with = {}, NEW i \in DOMAIN s, ~\E j \in DOMAIN g : g[j] = s[i]
               PROVE  \E j \in DOMAIN rest : rest[j] = s[i].at
    OBVIOUS
  <2>1. PICK j \in DOMAIN todo : todo[j] = s[i].at
    BY DEF AzureHalf, Fetched
  <2>2. j # 1
    BY <2>1 DEF Fetched
  <2> QED
    BY <1>3, <2>1, <2>2
<1>9. CASE Len(todo) = 1
  <2>1. \A j : j \notin DOMAIN rest
    BY <1>2, <1>9
  <2> QED
    BY <1>6, <1>7, <1>8, <1>9, <2>1
<1>10. CASE Len(todo) # 1
  <2>1. Climbing(rest)
    <3> SUFFICES ASSUME NEW i \in DOMAIN rest, NEW j \in DOMAIN rest, i < j
                 PROVE  rest[i] < rest[j]
      BY DEF Climbing
    <3>1. i + 1 < j + 1
      BY <1>2
    <3> QED
      BY <1>4, <3>1 DEF AzureHalf, Climbing
  <2>2. \A i \in DOMAIN g, j \in DOMAIN rest : g[i].at < rest[j]
    <3> SUFFICES ASSUME NEW i \in DOMAIN g, NEW j \in DOMAIN rest
                 PROVE  g[i].at < rest[j]
      OBVIOUS
    <3>1. j + 1 \in DOMAIN todo /\ rest[j] = todo[j + 1] /\ 1 < j + 1
      BY <1>4
    <3>2. CASE g[i].at = todo[1]
      BY <1>2, <3>1, <3>2 DEF AzureHalf, Climbing
    <3>3. CASE g[i].at # todo[1]
      BY <3>1, <3>3 DEF AzureHalf, Fetched
    <3> QED
      BY <3>2, <3>3
  <2> QED
    BY <1>1, <1>6, <1>7, <1>8, <1>10, <2>1, <2>2 DEF AzureHalf
<1> QED
  BY <1>9, <1>10

\* What a copy owes stays owed while its source only loses states.
LEMMA HalvesShrink ==
    ASSUME NEW s, NEW s2, NEW h, NEW todo, NEW wanted, NEW w2, w2 \subseteq wanted,
           NEW with, NEW with2, with2 = {} => with = {} /\ s2 = s,
           \A i \in DOMAIN s2 : s2[i].by \in w2 => \E j \in DOMAIN s : s2[i] = s[j]
    PROVE  /\ SqliteHalf(s, h, todo, wanted, with) => SqliteHalf(s2, h, todo, w2, with2)
           /\ AzureHalf(s, h, todo, wanted, with) => AzureHalf(s2, h, todo, w2, with2)
           /\ \A x, at : AzureSeen(s, x, at, wanted, with) => AzureSeen(s2, x, at, w2, with2)
<1>1. SqliteHalf(s, h, todo, wanted, with) => SqliteHalf(s2, h, todo, w2, with2)
  BY DEF SqliteHalf
<1>2. AzureHalf(s, h, todo, wanted, with) => AzureHalf(s2, h, todo, w2, with2)
  <2> SUFFICES ASSUME AzureHalf(s, h, todo, wanted, with)
               PROVE  AzureHalf(s2, h, todo, w2, with2)
    OBVIOUS
  <2>1. \A i \in DOMAIN s2 : s2[i].by \in w2 =>
           s2[i].by \in Bys(h) \/ \E j \in DOMAIN todo : todo[j] = s2[i].at
    BY DEF AzureHalf
  <2>2. with2 = {} => /\ \A i \in DOMAIN h : \E j \in DOMAIN s2 : h[i] = s2[j]
                      /\ \A i \in DOMAIN s2 : \/ \E j \in DOMAIN h : h[j] = s2[i]
                                              \/ \E j \in DOMAIN todo : todo[j] = s2[i].at
    BY DEF AzureHalf
  <2> QED
    BY <2>1, <2>2 DEF AzureHalf
<1>3. \A x, at : AzureSeen(s, x, at, wanted, with) => AzureSeen(s2, x, at, w2, with2)
  BY DEF AzureSeen
<1> QED
  BY <1>1, <1>2, <1>3

-----------------------------------------------------------------------------
(* What a step does to a copy of somebody else.                            *)

\* A step adds to a thread only a state of its own request.
LEMMA OldStates ==
    ASSUME ThreadInv, NEW p \in Requests, Step(p) \/ CallFails(p), NEW t \in Threads,
           t # req[p].target
    PROVE  /\ \A i \in DOMAIN states'[t] :
                 states'[t][i].by = p \/ \E j \in DOMAIN states[t] : states'[t][i] = states[t][j]
           /\ t # req[p].thread => states'[t] = states[t]
<1>1. /\ Moved(p) /\ InFlight(p) /\ Shape /\ PlaceOK(provider, req[p]) /\ req[p].thread \in Threads
      /\ states \in [Threads -> Seq(States)]
  BY StepMoves DEF ThreadInv, Shape, CallsOK, PlaceOK, Moved, InFlight, Calls
<1>2. PICK s \in Seq(States) : s = states[t]
  BY <1>1
<1>3. PICK h : h = states'[t]
  OBVIOUS
<1>4. CASE h = s
  BY <1>2, <1>3, <1>4
<1>5. CASE t = req[p].thread /\ Added(p, h)
  <2>1. PICK x \in States : x.by = p /\ h = AddState(s, x)
    BY <1>2, <1>5 DEF Added
  <2>2. \A i \in DOMAIN h : h[i] = x \/ \E j \in DOMAIN s : h[i] = s[j]
    <3>1. CASE provider = "azure"
      <4>1. s \in Seq(States) /\ Distinct(s) /\ x \in States /\ h = AzureAddState(s, x)
        BY <1>2, <2>1, <3>1 DEF AddState, ThreadInv, StatesOK
      <4>2. \A i \in DOMAIN h : h[i] = x \/ \E j \in DOMAIN s : h[i] = s[j] /\ s[j].at # x.at
        BY <4>1, AzureAddStateKeeps
      <4> QED
        BY <4>2
    <3>2. CASE provider # "azure"
      <4>1. h = Append(s, x)
        BY <2>1, <3>2 DEF AddState
      <4> QED
        BY <1>2, <2>1, <4>1, AppendKeeps
    <3> QED
      BY <3>1, <3>2
  <2> QED
    BY <1>2, <1>3, <1>5, <2>1, <2>2
<1>6. CASE t = req[p].thread /\ h = <<>>
  <2>1. DOMAIN h = {}
    BY <1>6
  <2> QED
    BY <1>3, <1>6, <2>1
<1>7. CASE t = req[p].thread /\ provider = "azure" /\ h = Without(s, Head(req[p].todo))
  <2>1. Distinct(s)
    BY <1>2, <1>7 DEF ThreadInv, StatesOK
  <2>2. PICK at : at = Head(req[p].todo)
    OBVIOUS
  <2>3. h = Without(s, at)
    BY <1>7, <2>2
  <2>4. \A i \in DOMAIN h : \E j \in DOMAIN s : h[i] = s[j] /\ s[j].at # at
    BY <1>2, <2>1, <2>3, WithoutKeeps
  <2> QED
    BY <1>2, <1>3, <1>7, <2>4
<1>8. \/ h = s
      \/ t = req[p].thread /\ Added(p, h)
      \/ t = req[p].thread /\ h = <<>>
      \/ t = req[p].thread /\ provider = "azure" /\ h = Without(s, Head(req[p].todo))
  <2>1. CASE states' = states
    BY <1>2, <1>3, <2>1
  <2>2. CASE /\ states' = [states EXCEPT ![req[p].thread] = states'[req[p].thread]]
             /\ Added(p, states'[req[p].thread])
    BY <1>1, <1>2, <1>3, <2>2
  <2>3. CASE states' = [states EXCEPT ![req[p].thread] = <<>>]
    BY <1>1, <1>2, <1>3, <2>3
  <2>4. CASE /\ provider = "azure"
             /\ states' = [states EXCEPT ![req[p].thread] =
                               Without(states[req[p].thread], Head(req[p].todo))]
    BY <1>1, <1>2, <1>3, <2>4
  <2>5. CASE states' = [states EXCEPT ![req[p].target] = states'[req[p].target]]
    BY <1>1, <1>2, <1>3, <2>5
  <2> QED
    BY <2>1, <2>2, <2>3, <2>4, <2>5, StatesStep
<1> QED
  BY <1>4, <1>5, <1>6, <1>7, <1>8

LEMMA WantedShrinks ==
    ASSUME ThreadInv, CopyInv, NEW p \in Requests, Step(p) \/ CallFails(p),
           NEW q \in Requests, req[q].op = "copy"
    PROVE  /\ Wanted(q)' \subseteq Wanted(q) /\ p \notin Wanted(q)
           /\ req[q].thread \in Threads /\ req'[q].thread = req[q].thread
<1>1. /\ Moved(p) /\ InFlight(p) /\ Shape /\ PlaceOK(provider, req[p]) /\ req[p].thread \in Threads
  BY StepMoves DEF ThreadInv, Shape, CallsOK, PlaceOK, Moved, InFlight, Calls
<1>2. /\ req[q].thread \in Threads /\ req'[q].thread = req[q].thread
      /\ req'[q].base = req[q].base
  <2>1. PlaceOK(provider, req[q])
    BY DEF ThreadInv, CallsOK
  <2>2. req[q].pc # "idle"
    BY <2>1 DEF PlaceOK, NoRequest
  <2> QED
    BY <1>1, <2>1, <2>2, PastMoved DEF PlaceOK
<1>3. p \notin req[q].base
  BY <1>1 DEF CopyInv, InFlight, Calls
<1>4. \A t \in Threads : \A e \in owed'[t] : e \in owed[t] \/ e = p
  <2>1. \A t \in Threads : \A e \in owed'[t] :
           \/ e \in owed[t] /\ (RemoveThread(p) => t # req[p].thread)
           \/ e = p /\ t = req[p].thread /\ Answer(p) /\ req[p].op = "edit" /\ Owing(p)
    BY <1>1, GhostStep DEF Answer, ghost, RemoveThread, Forget, Shape
  <2> QED
    BY <2>1
<1>5. Wanted(q)' \subseteq Wanted(q)
  BY <1>2, <1>3, <1>4 DEF Wanted
<1> QED
  BY <1>2, <1>3, <1>5 DEF Wanted

LEMMA CopyOthers ==
    ASSUME ThreadInv, CopyInv, NEW p \in Requests, Step(p) \/ CallFails(p),
           NEW q \in Requests, q # p, req[q].op = "copy"
    PROVE  CopyOK(q)'
<1>1. /\ Moved(p) /\ InFlight(p) /\ PlaceOK(provider, req[p]) /\ PlaceOK(provider, req[q])
      /\ req'[q] = req[q] /\ provider' = provider /\ req[q] \in ReqStates
      /\ req[q].target \in CopyIds /\ req[q].target # req[p].target
  <2>1. /\ Moved(p) /\ InFlight(p) /\ PlaceOK(provider, req[p]) /\ PlaceOK(provider, req[q])
        /\ req[q] \in ReqStates
    BY StepMoves DEF ThreadInv, Shape, CallsOK, Moved
  <2>2. req'[q] = req[q] /\ provider' = provider
    BY <2>1 DEF Moved, fixed
  <2>3. req[q].target \in CopyIds
    BY <2>1 DEF PlaceOK, ReqStates
  <2>4. req[q].target # req[p].target
    BY DEF ThreadInv, NamesOK
  <2> QED
    BY <2>1, <2>2, <2>3, <2>4
<1>2. CASE InFlight(q)
  <2>1. PICK c \in Threads : c = req[q].target
    BY <1>1 DEF Threads
  <2>2. PICK t \in Threads : t = req[q].thread
    BY WantedShrinks
  <2>3. req[p].thread # c
    BY <1>2, <2>1, NotTheTarget
  <2>4. states'[c] = states[c]
    BY <1>1, <2>1, <2>3, OldStates
  <2>5. t # req[p].target
    <3>1. CASE req[p].op = "copy"
      BY <1>1, <2>2, <3>1, NotTheTarget
    <3>2. CASE req[p].op # "copy"
      BY <1>1, <2>2, <3>2, ConstantsAssumption DEF PlaceOK, Threads
    <3> QED
      BY <3>1, <3>2
  <2>6. PICK w : w = Wanted(q)
    OBVIOUS
  <2>7. PICK w2 : w2 = Wanted(q)'
    OBVIOUS
  <2>8. w2 \subseteq w /\ p \notin w
    BY <2>6, <2>7, WantedShrinks
  <2>9. PICK s : s = states[t]
    OBVIOUS
  <2>10. PICK s2 : s2 = states'[t]
    OBVIOUS
  <2>11. \A i \in DOMAIN s2 : s2[i].by \in w2 => \E j \in DOMAIN s : s2[i] = s[j]
    <3>1. \A i \in DOMAIN s2 : s2[i].by = p \/ \E j \in DOMAIN s : s2[i] = s[j]
      BY <2>5, <2>9, <2>10, OldStates
    <3> QED
      BY <2>8, <3>1
  <2>12. req[q].with = {} => s2 = s
    <3> SUFFICES ASSUME req[q].with = {}
                 PROVE  s2 = s
      OBVIOUS
    <3>1. t # req[p].thread
      BY <1>1, <1>2, <2>2 DEF ThreadInv, OverlapOK
    <3> QED
      BY <2>5, <2>9, <2>10, <3>1, OldStates
  <2>13. PICK with : with = req[q].with
    OBVIOUS
  <2>14. PICK h : h = states[c]
    OBVIOUS
  <2>15. PICK r : r = req[q]
    OBVIOUS
  <2>16. /\ SqliteHalf(s, h, r.todo, w, with) => SqliteHalf(s2, h, r.todo, w2, with)
         /\ AzureHalf(s, h, r.todo, w, with) => AzureHalf(s2, h, r.todo, w2, with)
         /\ AzureSeen(s, r.seen, r.todo[1], w, with) => AzureSeen(s2, r.seen, r.todo[1], w2, with)
    <3>1. PICK todo : todo = r.todo
      OBVIOUS
    <3>2. /\ w2 \subseteq w /\ (with = {} => with = {} /\ s2 = s)
          /\ \A i \in DOMAIN s2 : s2[i].by \in w2 => \E j \in DOMAIN s : s2[i] = s[j]
      BY <2>8, <2>11, <2>12, <2>13
    <3>3. SqliteHalf(s, h, todo, w, with) => SqliteHalf(s2, h, todo, w2, with)
      BY <3>2, HalvesShrink
    <3>4. AzureHalf(s, h, todo, w, with) => AzureHalf(s2, h, todo, w2, with)
      BY <3>2, HalvesShrink
    <3>5. \A x, at : AzureSeen(s, x, at, w, with) => AzureSeen(s2, x, at, w2, with)
      BY <3>2, HalvesShrink
    <3> QED
      BY <3>1, <3>3, <3>4, <3>5
  <2>17. with = r.with /\ with = req'[q].with
    BY <1>1, <2>13, <2>15
  <2>18. /\ r.pc \in {"find", "copy", "copyInsert", "copyHistory"} => h = <<>>
         /\ r.pc = "copyNext" /\ provider = "sqlite" =>
               SqliteHalf(s, h, r.todo, w, with)
         /\ r.pc \in {"copyNext", "copyUpload"} /\ provider = "azure" =>
               AzureHalf(s, h, r.todo, w, with)
         /\ r.pc = "copyUpload" => AzureSeen(s, r.seen, r.todo[1], w, with)
    BY <2>1, <2>2, <2>6, <2>9, <2>14, <2>15, <2>17 DEF CopyInv, CopyOK
  <2>19. r.pc # "answered"
    BY <1>2, <2>15 DEF InFlight, Calls
  <2> QED
    BY <1>1, <2>1, <2>2, <2>4, <2>7, <2>10, <2>14, <2>15, <2>16, <2>17, <2>18, <2>19 DEF CopyOK
<1>3. CASE ~InFlight(q)
  <2>1. req[q].pc \notin Calls
    BY <1>3 DEF InFlight
  <2> QED
    BY <1>1, <2>1 DEF CopyInv, CopyOK, Calls
<1> QED
  BY <1>2, <1>3

-----------------------------------------------------------------------------
(* The steps of a copy.                                                    *)

\* What a copy may be answered with.
LEMMA CopiedOK ==
    ASSUME ThreadInv, NEW q \in Requests, req[q].op = "copy",
           req[q].pc \in {"copy", "copyHistory", "copyNext", "copyUpload"},
           NEW g \in Seq(States), Copied(q, g), UNCHANGED fixed,
           NEW s, s = states[req[q].thread],
           \A e \in Wanted(q) \intersect Bys(s) :
              e \in Bys(g) \/ (provider = "sqlite" /\ Len(g) >= HistoryLimit),
           req[q].with = {} => Newest(g) = Newest(s)
    PROVE  CopyOK(q)'
<1>1. /\ req'[q].pc = "answered" /\ req'[q].copied = Len(g)
      /\ req'[q].missing = ((req[q].base \intersect owed[req[q].thread]) \intersect Bys(s)) \ Bys(g)
      /\ req'[q].behind <=> (req[q].with = {} /\ Newest(g) # Newest(s))
  BY CopiedMoves DEF ThreadInv
<1>2. req'[q].missing = (Wanted(q) \intersect Bys(s)) \ Bys(g)
  BY <1>1 DEF Wanted
<1>3. req'[q].missing # {} => provider' = "sqlite" /\ req'[q].copied >= HistoryLimit
  <2> SUFFICES ASSUME NEW e \in req'[q].missing
               PROVE  provider' = "sqlite" /\ req'[q].copied >= HistoryLimit
    OBVIOUS
  <2>1. e \in Wanted(q) \intersect Bys(s) /\ e \notin Bys(g)
    BY <1>2
  <2> QED
    BY <1>1, <2>1 DEF fixed
<1>4. ~req'[q].behind
  BY <1>1
<1> QED
  BY <1>1, <1>3, <1>4 DEF CopyOK

LEMMA CopyFacts ==
    ASSUME ThreadInv, NEW q \in Requests, req[q].op = "copy", Step(q) \/ CallFails(q)
    PROVE  /\ Moved(q) /\ PlaceOK(provider, req[q]) /\ PlaceOK(provider, req'[q])
           /\ req[q] \in ReqStates /\ req'[q].thread = req[q].thread
           /\ req'[q].target = req[q].target /\ req'[q].with = req[q].with
           /\ req[q].thread \in Threads /\ req[q].target \in Threads
           /\ req[q].thread # req[q].target
           /\ states'[req[q].thread] = states[req[q].thread]
           /\ UNCHANGED fixed
           /\ owed' = owed => Wanted(q)' = Wanted(q)
           /\ \/ FindToCopy(q) \/ Copy(q) \/ CopyInsert(q) \/ CopyHistory(q)
              \/ CopyNext(q) \/ CopyUpload(q) \/ CallFails(q)
<1>1. /\ Moved(q) /\ InFlight(q) /\ PlaceOK(provider, req[q]) /\ PlaceOK(provider, req'[q])
      /\ req[q] \in ReqStates
  BY StepMoves DEF ThreadInv, Shape, CallsOK, Moved
<1>2. /\ req'[q].thread = req[q].thread /\ req'[q].base = req[q].base
      /\ req'[q].target = req[q].target /\ req'[q].with = req[q].with
  BY <1>1 DEF Moved
<1>3. req[q].thread \in Threads /\ req[q].target \in Threads
  BY <1>1 DEF PlaceOK, ReqStates, Threads, InFlight, Calls
<1>4. req[q].thread # req[q].target
  BY <1>1, NotTheTarget
<1>5. owed' = owed => Wanted(q)' = Wanted(q)
  BY <1>2 DEF Wanted
<1>6. \/ FindToCopy(q) \/ Copy(q) \/ CopyInsert(q) \/ CopyHistory(q)
      \/ CopyNext(q) \/ CopyUpload(q) \/ CallFails(q)
  <2>1. req[q].op \notin Creates \union Deletes \union {"patch", "edit"}
    BY DEF Creates, Deletes
  <2>2. req[q].pc \notin {"insert", "modify", "write", "newest", "download", "append",
                          "remove", "list", "purge"}
    BY <1>1 DEF PlaceOK, Creates, Deletes
  <2>3. ~FindToCreate(q) /\ ~Insert(q) /\ ~FindToPatch(q) /\ ~Modify(q) /\ ~Write(q)
    BY <2>1, <2>2 DEF FindToCreate, Insert, FindToPatch, Modify, Write
  <2>4. ~FindToEdit(q) /\ ~ReadNewest(q) /\ ~DownloadNewest(q) /\ ~AppendState(q)
    BY <2>1, <2>2 DEF FindToEdit, ReadNewest, DownloadNewest, AppendState
  <2>5. ~RemoveThread(q) /\ ~ListHistory(q) /\ ~Purge(q)
    BY <2>2 DEF RemoveThread, ListHistory, Purge
  <2> QED
    BY <2>3, <2>4, <2>5 DEF Step
<1>7. req[q].pc \notin {"append", "remove", "purge"}
  BY <1>1 DEF PlaceOK, Deletes
<1>8. states'[req[q].thread] = states[req[q].thread]
  <2>0. states \in [Threads -> Seq(States)]
    BY DEF ThreadInv, Shape
  <2>1. \/ states' = states
        \/ states' = [states EXCEPT ![req[q].target] = states'[req[q].target]]
    <3>1. ~AppendState(q) /\ ~RemoveThread(q) /\ ~Purge(q)
      BY <1>7 DEF AppendState, RemoveThread, Purge
    <3> QED
      BY <3>1, StatesStep
  <2> QED
    BY <1>3, <1>4, <2>0, <2>1
<1> QED
  BY <1>1, <1>2, <1>3, <1>4, <1>5, <1>6, <1>8 DEF Moved

\* The copy of memory, and the first steps of the others.
LEMMA CopyStarts ==
    ASSUME ThreadInv, CopyInv, NEW q \in Requests, req[q].op = "copy",
           FindToCopy(q) \/ Copy(q) \/ CopyInsert(q) \/ CallFails(q)
    PROVE  CopyOK(q)'
<1>1. PICK t \in Threads : t = req[q].thread
  BY CopyFacts DEF Step
<1>2. PICK c \in Threads : c = req[q].target
  BY CopyFacts DEF Step
<1>3. /\ Moved(q) /\ req[q] \in ReqStates /\ PlaceOK(provider, req[q]) /\ req'[q].target = c
      /\ UNCHANGED fixed /\ Shape
  BY <1>2, CopyFacts DEF Step, ThreadInv
<1>4. CASE req'[q].pc = "failed"
  BY <1>4 DEF CopyOK
<1>5. CASE states' = states /\ req'[q].pc \in {"copy", "copyInsert", "copyHistory"}
           /\ req[q].pc \in {"find", "copy", "copyInsert"}
  <2>1. states[c] = <<>>
    BY <1>2, <1>5 DEF CopyInv, CopyOK
  <2> QED
    BY <1>3, <1>5, <2>1 DEF CopyOK
<1>6. CASE Copy(q) /\ MemoryCopyThread(q)
  <2>1. PICK s \in Seq(States) : s = states[t]
    BY <1>3 DEF Shape
  <2>2. Copied(q, s) /\ s = states[req[q].thread] /\ req[q].pc = "copy"
    BY <1>1, <1>6, <2>1 DEF MemoryCopyThread, Copy
  <2> QED
    BY <1>3, <2>2, CopiedOK
<1>7. CASE FindToCopy(q)
  <2>1. states' = states /\ req[q].pc = "find" /\ req' = Goto(q, IF thread[req[q].thread] = None THEN "failed" ELSE "copy")
    BY <1>7 DEF FindToCopy, store
  <2>2. req'[q].pc \in {"failed", "copy"}
    BY <1>3, <2>1, GotoSame
  <2> QED
    BY <1>4, <1>5, <2>1, <2>2
<1>8. CASE Copy(q) /\ ~MemoryCopyThread(q)
  <2>1. req[q].pc = "copy" /\ states' = states
    BY <1>8 DEF Copy, CopyReads, store
  <2>2. req'[q].pc \in {"failed", "copyInsert", "copyHistory"}
    <3>1. CASE CopyReads(q)
      <4>1. PICK call : call = IF provider = "sqlserver" THEN "copyHistory" ELSE "copyInsert"
        OBVIOUS
      <4>2. PICK r : r = [req[q] EXCEPT !.pc = call, !.old = thread[req[q].thread]]
        OBVIOUS
      <4>3. req' = [req EXCEPT ![q] = r]
        BY <3>1, <4>1, <4>2 DEF CopyReads
      <4>4. r.pc = call
        BY <1>3, <4>2 DEF ReqStates
      <4> QED
        BY <1>3, <4>1, <4>3, <4>4 DEF Shape
    <3>2. CASE req' = Goto(q, "failed")
      BY <1>3, <3>2, GotoSame
    <3> QED
      BY <1>8, <3>1, <3>2 DEF Copy
  <2> QED
    BY <1>4, <1>5, <2>1, <2>2
<1>9. CASE CopyInsert(q)
  <2>1. states' = states /\ req[q].pc = "copyInsert" /\ req'[q].pc = "copyHistory"
    BY <1>3, <1>9, GotoSame DEF CopyInsert
  <2> QED
    BY <1>5, <2>1
<1>10. CASE CallFails(q)
  <2>1. req'[q].pc = "failed"
    BY <1>3, <1>10, GotoSame DEF CallFails
  <2> QED
    BY <1>4, <2>1
<1> QED
  BY <1>6, <1>7, <1>8, <1>9, <1>10

\* What there is to copy from SQL Server, and where the others start.
LEMMA CopyHistoryOK ==
    ASSUME ThreadInv, CopyInv, NEW q \in Requests, req[q].op = "copy", CopyHistory(q)
    PROVE  CopyOK(q)'
<1>1. PICK t \in Threads : t = req[q].thread
  BY CopyFacts DEF Step
<1>2. PICK c \in Threads : c = req[q].target
  BY CopyFacts DEF Step
<1>3. /\ Moved(q) /\ req[q] \in ReqStates /\ PlaceOK(provider, req[q])
      /\ req'[q].target = c /\ req'[q].thread = t /\ req'[q].with = req[q].with
      /\ states'[t] = states[t] /\ t # c /\ UNCHANGED fixed /\ Shape /\ provider \in Providers
  BY <1>1, <1>2, CopyFacts DEF Step, ThreadInv, Shape
<1>4. /\ Wanted(q)' = Wanted(q) /\ req[q].pc = "copyHistory" /\ states[c] = <<>>
      /\ provider # "memory" /\ provider' = provider
  <2>1. Wanted(q)' = Wanted(q) /\ req[q].pc = "copyHistory"
    BY CopyFacts DEF CopyHistory, Step, ghost
  <2>2. states[c] = <<>>
    BY <1>2, <2>1 DEF CopyInv, CopyOK
  <2> QED
    BY <1>3, <2>1, <2>2 DEF PlaceOK, fixed
<1>5. PICK s \in Seq(States) : s = states[t]
  BY <1>3 DEF Shape
<1>6. Timed(s)
  BY <1>3, <1>5, StateTypes
<1>7. PICK source : source = CopySource(s)
  OBVIOUS
<1>8. CASE provider = "sqlserver"
  <2>1. source = ByTime(s)
    BY <1>7, <1>8 DEF CopySource
  <2>2. /\ source \in Seq(States)
        /\ \A i \in DOMAIN source : \E j \in DOMAIN s : source[i] = s[j]
        /\ \A j \in DOMAIN s : \E i \in DOMAIN source : source[i] = s[j]
    <3>1. source \in Seq(States)
      BY <1>6, <2>1, ByTimeKeeps
    <3>2. \A i \in DOMAIN source : \E j \in DOMAIN s : source[i] = s[j]
      BY <1>6, <2>1, ByTimeKeeps
    <3>3. \A j \in DOMAIN s : \E i \in DOMAIN source : source[i] = s[j]
      BY <1>6, <2>1, ByTimeKeeps
    <3> QED
      BY <3>1, <3>2, <3>3
  <2>3. Newest(source) = Newest(s)
    BY <1>8, <2>2, SameNewest
  <2>4. Bys(s) \subseteq Bys(source)
    BY <2>2 DEF Bys
  <2>5. Copied(q, source) /\ s = states[req[q].thread]
    BY <1>1, <1>5, <1>7, <1>8 DEF CopyHistory, SqlServerCopyCommit
  <2> QED
    BY <1>3, <1>4, <2>2, <2>3, <2>4, <2>5, CopiedOK
<1>9. CASE provider # "sqlserver" /\ source = <<>>
  <2>1. s = <<>>
    <3>1. CASE provider = "sqlite"
      <4>1. source = SqliteCopySource(s)
        BY <1>7, <3>1 DEF CopySource
      <4> QED
        BY <1>6, <1>9, <4>1, SqliteSource
    <3>2. CASE provider = "azure"
      <4>1. source = StampsByName(s)
        BY <1>7, <3>2 DEF CopySource
      <4> QED
        BY <1>6, <1>9, <4>1, StampsSorted
    <3> QED
      BY <1>3, <1>4, <1>9, <3>1, <3>2 DEF Providers, Sql
  <2>2. Copied(q, s) /\ s = states[req[q].thread]
    BY <1>1, <1>5, <1>7, <1>9, <2>1 DEF CopyHistory
  <2> QED
    BY <1>3, <1>4, <2>2, CopiedOK
<1>10. CASE provider # "sqlserver" /\ source # <<>>
  <2>1. states' = states
    BY <1>1, <1>5, <1>7, <1>10 DEF CopyHistory, store
  <2>2. req' = [req EXCEPT ![q].pc = "copyNext", ![q].todo = source]
    BY <1>1, <1>5, <1>7, <1>10 DEF CopyHistory
  <2>3. req'[q].pc = "copyNext" /\ req'[q].todo = source
    <3>1. PICK r : r = [req[q] EXCEPT !.pc = "copyNext", !.todo = source]
      OBVIOUS
    <3>2. req' = [req EXCEPT ![q] = r]
      BY <2>2, <3>1
    <3>3. r.pc = "copyNext" /\ r.todo = source
      BY <1>3, <3>1 DEF ReqStates
    <3> QED
      BY <1>3, <3>2, <3>3 DEF Shape
  <2>4. PICK none : none = <<>>
    OBVIOUS
  <2>5. DOMAIN none = {} /\ Len(none) = 0
    BY <2>4
  <2>6. PICK w : w = Wanted(q)
    OBVIOUS
  <2>7. PICK with : with = req[q].with
    OBVIOUS
  <2>8. CASE provider = "sqlite"
    <3>1. source = SqliteCopySource(s)
      BY <1>7, <2>8 DEF CopySource
    <3>2. source \in Seq(States) /\ Rising(source)
      BY <1>6, <3>1, SqliteSource
    <3>3. s # <<>> => SqliteGetState(s) = {source[Len(source)]}
      BY <1>6, <3>1, SqliteSource
    <3>4. \A e \in Bys(s) : e \in Bys(source) \/ Len(source) >= HistoryLimit
      BY <1>6, <3>1, SqliteSource
    <3>5. s # <<>>
      <4>1. \A i \in DOMAIN source : \E j \in DOMAIN s : source[i] = s[j]
        BY <1>5, <1>7, <2>8, CopySourceStates DEF Sql
      <4>2. 1 \in DOMAIN source
        BY <1>10, <3>2
      <4> QED
        BY <2>4, <2>5, <4>1, <4>2
    <3>6. \A e \in w : e \in Bys(s)
      BY <1>1, <1>5, <2>6, <2>8 DEF Wanted, ThreadInv, KeptOK, Held
    <3>7. Len(none) + Len(source) = Len(source)
      BY <2>5, <3>2
    <3>8. SqliteHalf(s, none, source, w, with)
      BY <2>5, <3>2, <3>3, <3>4, <3>5, <3>6, <3>7 DEF SqliteHalf, Rising
    <3> QED
      BY <1>3, <1>4, <1>5, <2>1, <2>3, <2>4, <2>6, <2>7, <2>8, <3>8 DEF CopyOK
  <2>9. CASE provider = "azure"
    <3>1. source = StampsByName(s)
      BY <1>7, <2>9 DEF CopySource
    <3>2. \A i, j \in DOMAIN source : i < j => source[i] < source[j]
      BY <1>6, <3>1, StampsSorted
    <3>3. \A a \in Ats(s) : \E i \in DOMAIN source : source[i] = a
      BY <1>6, <3>1, StampsSorted
    <3>4. \A i \in DOMAIN s : \E j \in DOMAIN source : source[j] = s[i].at
      BY <3>3 DEF Ats
    <3>5. AzureHalf(s, none, source, w, with)
      BY <2>5, <3>2, <3>4 DEF AzureHalf, Climbing
    <3> QED
      BY <1>3, <1>4, <1>5, <2>1, <2>3, <2>4, <2>6, <2>7, <2>9, <3>5 DEF CopyOK
  <2> QED
    BY <1>3, <1>4, <1>10, <2>8, <2>9 DEF Providers, Sql
<1> QED
  BY <1>8, <1>9, <1>10

\* The history g is that of a finished copy, or of one that has the rest of todo to copy.
Advanced(s, g, todo, w, with) ==
    /\ Len(todo) = 1 =>
          /\ \A e \in w \intersect Bys(s) :
                e \in Bys(g) \/ (provider = "sqlite" /\ Len(g) >= HistoryLimit)
          /\ with = {} => Newest(g) = Newest(s)
    /\ Len(todo) # 1 => IF provider = "sqlite" THEN SqliteHalf(s, g, Tail(todo), w, with)
                       ELSE AzureHalf(s, g, Tail(todo), w, with)

LEMMA CopyAdvancesOK ==
    ASSUME ThreadInv, NEW q \in Requests, req[q].op = "copy",
           req[q].pc \in {"copyNext", "copyUpload"}, UNCHANGED fixed, owed' = owed,
           NEW s, s = states[req[q].thread], states'[req[q].thread] = s,
           NEW g \in Seq(States), g = states'[req[q].target], CopyAdvances(q, g),
           NEW todo, todo = req[q].todo, NEW w, w = Wanted(q), NEW with, with = req[q].with,
           Advanced(s, g, todo, w, with), provider \in {"sqlite", "azure"}
    PROVE  CopyOK(q)'
<1>1. /\ Moved(q) /\ req'[q].thread = req[q].thread /\ req'[q].target = req[q].target
      /\ req'[q].with = req[q].with /\ Wanted(q)' = Wanted(q) /\ provider' = provider
      /\ \/ Len(todo) = 1 /\ Copied(q, g)
         \/ Len(todo) # 1 /\ req'[q].pc = "copyNext" /\ req'[q].todo = Tail(todo)
  <2>1. /\ Moved(q)
        /\ \/ Len(todo) = 1 /\ Copied(q, g)
           \/ Len(todo) # 1 /\ req'[q].pc = "copyNext" /\ req'[q].todo = Tail(todo)
    BY CopyAdvancesMoves DEF ThreadInv
  <2> QED
    BY <2>1 DEF Moved, Wanted, fixed
<1>2. CASE Len(todo) = 1 /\ Copied(q, g)
  BY <1>2, CopiedOK DEF Advanced
<1>3. CASE Len(todo) # 1 /\ req'[q].pc = "copyNext" /\ req'[q].todo = Tail(todo)
  BY <1>1, <1>3 DEF CopyOK, Advanced
<1> QED
  BY <1>1, <1>2, <1>3

LEMMA CopyNextOK ==
    ASSUME ThreadInv, CopyInv, NEW q \in Requests, req[q].op = "copy", CopyNext(q)
    PROVE  CopyOK(q)'
<1>1. PICK t \in Threads : t = req[q].thread
  BY CopyFacts DEF Step
<1>2. PICK c \in Threads : c = req[q].target
  BY CopyFacts DEF Step
<1>3. /\ Moved(q) /\ req[q] \in ReqStates /\ PlaceOK(provider, req[q])
      /\ req'[q].target = c /\ req'[q].thread = t /\ req'[q].with = req[q].with
      /\ states'[t] = states[t] /\ t # c /\ UNCHANGED fixed /\ Shape /\ provider \in Providers
  BY <1>1, <1>2, CopyFacts DEF Step, ThreadInv, Shape
<1>4. /\ Wanted(q)' = Wanted(q) /\ req[q].pc = "copyNext" /\ owed' = owed /\ provider' = provider
  BY CopyFacts DEF CopyNext, Step, ghost, fixed
<1>5. PICK s \in Seq(States) : s = states[t]
  BY <1>3 DEF Shape
<1>6. PICK h \in Seq(States) : h = states[c]
  BY <1>3 DEF Shape
<1>7. Timed(s) /\ Timed(h)
  BY <1>3, <1>5, <1>6, StateTypes
<1>8. PICK todo : todo = req[q].todo
  OBVIOUS
<1>9. /\ todo # <<>> /\ provider \in {"sqlite", "azure"}
      /\ provider = "sqlite" => todo \in Seq(States)
      /\ provider = "azure" => todo \in Seq(Int)
  BY <1>3, <1>4, <1>8 DEF PlaceOK
<1>10. PICK w : w = Wanted(q)
  OBVIOUS
<1>11. PICK with : with = req[q].with
  OBVIOUS
<1>12. /\ provider = "sqlite" => SqliteHalf(s, h, todo, w, with)
       /\ provider = "azure" => AzureHalf(s, h, todo, w, with)
  BY <1>1, <1>2, <1>4, <1>5, <1>6, <1>8, <1>10, <1>11 DEF CopyInv, CopyOK
<1>13. CASE provider = "sqlite"
  <2>1. PICK g : g = Append(h, Head(todo))
    OBVIOUS
  <2>2. states' = [states EXCEPT ![c] = g] /\ CopyAdvances(q, g)
    BY <1>2, <1>6, <1>8, <1>13, <2>1 DEF CopyNext, SqliteCopyNext, AzureCopyNext
  <2>3. g = states'[c]
    BY <1>3, <2>2 DEF Shape
  <2>4. Timed(todo)
    <3>1. \A x \in States : x.at \in Int
      BY ConstantsAssumption DEF States, Times
    <3>2. \A i \in DOMAIN todo : todo[i] \in States
      BY <1>9, <1>13
    <3> QED
      BY <3>1, <3>2 DEF Timed
  <2>5. SqliteHalf(s, h, todo, w, with) /\ todo \in Seq(States) /\ todo # <<>>
    BY <1>9, <1>12, <1>13
  <2>6. g \in Seq(States) /\ g # <<>> /\ Len(g) = Len(h) + 1 /\ g[Len(g)] = todo[1]
    BY <1>7, <2>1, <2>4, <2>5, SqliteAdvance
  <2>7. Rising(g) /\ Timed(g)
    BY <1>7, <2>1, <2>4, <2>5, SqliteAdvance
  <2>8. (\A e \in Bys(h) : e \in Bys(g)) /\ todo[1].by \in Bys(g)
    BY <1>7, <2>1, <2>4, <2>5, SqliteAdvance
  <2>9. Len(todo) # 1 => SqliteHalf(s, g, Tail(todo), w, with)
    BY <1>7, <2>1, <2>4, <2>5, SqliteAdvance
  <2>10. Len(todo) = 1 => \A e \in w \intersect Bys(s) :
            e \in Bys(g) \/ (provider = "sqlite" /\ Len(g) >= HistoryLimit)
    <3> SUFFICES ASSUME Len(todo) = 1, NEW e \in w, e \notin Bys(g)
                 PROVE  Len(g) >= HistoryLimit
      BY <1>13
    <3>1. e \in Bys(h) \union Bys(todo) \/ Len(h) + Len(todo) >= HistoryLimit
      BY <2>5 DEF SqliteHalf
    <3>2. \A b \in Bys(todo) : b = todo[1].by
      BY <2>5 DEF Bys
    <3> QED
      BY <2>6, <2>8, <3>1, <3>2
  <2>11. Len(todo) = 1 /\ with = {} => Newest(g) = Newest(s)
    <3> SUFFICES ASSUME Len(todo) = 1, with = {}
                 PROVE  Newest(g) = Newest(s)
      OBVIOUS
    <3>1. s # <<>> /\ SqliteGetState(s) = {todo[1]}
      BY <2>5 DEF SqliteHalf
    <3>2. SqliteGetState(g) = {g[Len(g)]}
      BY <2>6, <2>7, RisingNewest
    <3> QED
      BY <1>13, <2>6, <3>1, <3>2 DEF Newest
  <2>12. Advanced(s, g, todo, w, with)
    BY <1>13, <2>9, <2>10, <2>11 DEF Advanced
  <2>13. /\ req[q].pc \in {"copyNext", "copyUpload"} /\ s = states[req[q].thread]
         /\ states'[req[q].thread] = s /\ g = states'[req[q].target]
    BY <1>1, <1>2, <1>3, <1>4, <1>5, <2>3
  <2> QED
    BY <1>3, <1>4, <1>8, <1>9, <1>10, <1>11, <2>2, <2>6, <2>12, <2>13, CopyAdvancesOK
<1>14. CASE provider = "azure"
  <2>1. PICK at : at = todo[1] /\ at = Head(todo)
    BY <1>9, <1>14, TailOf
  <2>2. PICK blob : blob = Blob(t, at)
    OBVIOUS
  <2>3. states' = states
    BY <1>4, <1>14 DEF CopyNext, SqliteCopyNext, AzureCopyNext
  <2>4. /\ blob = None => CopyAdvances(q, h)
        /\ blob # None => req' = GotoWith(q, "copyUpload", blob)
    BY <1>1, <1>2, <1>6, <1>8, <1>14, <2>1, <2>2 DEF CopyNext, SqliteCopyNext, AzureCopyNext
  <2>5. \/ blob = None /\ at \notin Ats(s)
        \/ \E i \in DOMAIN s : blob = s[i] /\ s[i].at = at
    <3>1. \/ Blob(t, at) = None /\ at \notin Ats(states[t])
          \/ /\ at \in Ats(states[t])
             /\ \E i \in DOMAIN states[t] : Blob(t, at) = states[t][i] /\ states[t][i].at = at
      BY <1>3, BlobStored
    <3> QED
      BY <1>5, <2>2, <3>1
  <2>6. /\ AzureHalf(s, h, todo, w, with) /\ todo \in Seq(Int) /\ todo # <<>>
    BY <1>9, <1>12, <1>14
  <2>7. CASE blob = None
    <3>1. \A i \in DOMAIN s : s[i].at # todo[1]
      <4>1. at \notin Ats(s)
        BY <1>5, <2>5, <2>7, NoneAssumption
      <4> QED
        BY <2>1, <4>1 DEF Ats
    <3>0. Fetched(s, h, h, todo[1], w, with)
      BY <3>1 DEF Fetched
    <3>2. Len(todo) = 1 => \A i \in DOMAIN s : s[i].by \in w => s[i].by \in Bys(h)
      BY <2>6, <3>0, AzureAdvance
    <3>3. Len(todo) # 1 => AzureHalf(s, h, Tail(todo), w, with)
      BY <2>6, <3>0, AzureAdvance
    <3>4. Len(todo) = 1 /\ with = {} => Newest(h) = Newest(s)
      <4> SUFFICES ASSUME Len(todo) = 1, with = {}
                   PROVE  Newest(h) = Newest(s)
        OBVIOUS
      <4>1. \A i \in DOMAIN h : \E j \in DOMAIN s : h[i] = s[j]
        BY <2>6 DEF AzureHalf
      <4>2. \A i \in DOMAIN s : \E j \in DOMAIN h : h[j] = s[i]
        BY <2>6, <3>0, AzureAdvance
      <4> QED
        BY <1>14, <4>1, <4>2, SameNewest
    <3>5. Len(todo) = 1 => \A e \in w \intersect Bys(s) :
             e \in Bys(h) \/ (provider = "sqlite" /\ Len(h) >= HistoryLimit)
      BY <3>2 DEF Bys
    <3>6. CopyAdvances(q, h) /\ h = states'[c]
      BY <1>6, <2>3, <2>4, <2>7
    <3>7. Advanced(s, h, todo, w, with)
      BY <1>14, <3>3, <3>4, <3>5 DEF Advanced
    <3>8. /\ req[q].pc \in {"copyNext", "copyUpload"} /\ s = states[req[q].thread]
          /\ states'[req[q].thread] = s /\ h = states'[req[q].target]
      BY <1>1, <1>2, <1>3, <1>4, <1>5, <3>6
    <3> QED
      BY <1>3, <1>4, <1>6, <1>8, <1>9, <1>10, <1>11, <3>6, <3>7, <3>8, CopyAdvancesOK
  <2>8. CASE blob # None
    <3>1. req' = [req EXCEPT ![q].pc = "copyUpload", ![q].seen = blob]
      BY <2>4, <2>8 DEF GotoWith
    <3>2. req'[q].pc = "copyUpload" /\ req'[q].seen = blob /\ req'[q].todo = todo
      <4>1. PICK r : r = [req[q] EXCEPT !.pc = "copyUpload", !.seen = blob]
        OBVIOUS
      <4>2. req' = [req EXCEPT ![q] = r]
        BY <3>1, <4>1
      <4>3. r.pc = "copyUpload" /\ r.seen = blob /\ r.todo = todo
        BY <1>3, <1>8, <4>1 DEF ReqStates
      <4> QED
        BY <1>3, <4>2, <4>3 DEF Shape
    <3>3. PICK i \in DOMAIN s : blob = s[i] /\ s[i].at = at
      BY <2>5, <2>8
    <3>4. Distinct(s)
      BY <1>5, <1>14 DEF ThreadInv, StatesOK
    <3>5. \A j \in DOMAIN s : s[j].at = at => s[j].by = blob.by
      BY <3>3, <3>4 DEF Distinct
    <3>6. AzureSeen(s, blob, at, w, with)
      BY <3>3, <3>5 DEF AzureSeen
    <3> QED
      BY <1>3, <1>4, <1>5, <1>6, <1>10, <1>11, <1>14, <2>1, <2>3, <2>6, <3>2, <3>6 DEF CopyOK
  <2> QED
    BY <2>7, <2>8
<1> QED
  BY <1>9, <1>13, <1>14

LEMMA CopyUploadOK ==
    ASSUME ThreadInv, CopyInv, NEW q \in Requests, req[q].op = "copy", CopyUpload(q)
    PROVE  CopyOK(q)'
<1>1. PICK t \in Threads : t = req[q].thread
  BY CopyFacts DEF Step
<1>2. PICK c \in Threads : c = req[q].target
  BY CopyFacts DEF Step
<1>3. /\ Moved(q) /\ req[q] \in ReqStates /\ PlaceOK(provider, req[q])
      /\ states'[t] = states[t] /\ t # c /\ UNCHANGED fixed /\ Shape
  BY <1>1, <1>2, CopyFacts DEF Step, ThreadInv
<1>4. req[q].pc = "copyUpload" /\ owed' = owed
  BY DEF CopyUpload, ghost
<1>5. PICK s \in Seq(States) : s = states[t]
  BY <1>3 DEF Shape
<1>6. PICK h \in Seq(States) : h = states[c]
  BY <1>3 DEF Shape
<1>7. PICK todo : todo = req[q].todo
  OBVIOUS
<1>8. todo # <<>> /\ provider = "azure" /\ todo \in Seq(Int) /\ req[q].seen # None
  BY <1>3, <1>4, <1>7 DEF PlaceOK
<1>9. PICK x \in States : x = req[q].seen
  BY <1>3, <1>8 DEF ReqStates
<1>10. PICK w : w = Wanted(q)
  OBVIOUS
<1>11. PICK with : with = req[q].with
  OBVIOUS
<1>12. AzureHalf(s, h, todo, w, with) /\ AzureSeen(s, x, todo[1], w, with)
  BY <1>1, <1>2, <1>4, <1>5, <1>6, <1>7, <1>8, <1>9, <1>10, <1>11 DEF CopyInv, CopyOK
<1>13. PICK g : g = AzureAddState(h, x)
  OBVIOUS
<1>14. states' = [states EXCEPT ![c] = g] /\ CopyAdvances(q, g)
  BY <1>2, <1>6, <1>9, <1>13 DEF CopyUpload
<1>15. g = states'[c]
  BY <1>3, <1>14 DEF Shape
<1>16. h \in Seq(States) /\ Distinct(h) /\ x \in States /\ g = AzureAddState(h, x)
  BY <1>6, <1>8, <1>13 DEF ThreadInv, StatesOK
<1>17. g \in Seq(States)
  BY <1>16, AzureAddStateKeeps
<1>18. \A i \in DOMAIN g : g[i] = x \/ \E j \in DOMAIN h : g[i] = h[j] /\ h[j].at # x.at
  BY <1>16, AzureAddStateKeeps
<1>19. \E i \in DOMAIN g : g[i] = x
  BY <1>16, AzureAddStateKeeps
<1>20. \A j \in DOMAIN h : h[j].at # x.at => \E i \in DOMAIN g : g[i] = h[j]
  BY <1>16, AzureAddStateKeeps
<1>21. x.at = todo[1] /\ 1 \in DOMAIN todo /\ todo[1] \in Int
  BY <1>8, <1>12 DEF AzureSeen
<1>22. \A i \in DOMAIN g : \/ \E j \in DOMAIN h : g[i] = h[j]
                           \/ /\ g[i].at = todo[1]
                              /\ with = {} => \E j \in DOMAIN s : g[i] = s[j]
  BY <1>12, <1>18, <1>21 DEF AzureSeen
<1>23. \A j \in DOMAIN h : \E i \in DOMAIN g : g[i] = h[j]
  <2> SUFFICES ASSUME NEW j \in DOMAIN h
               PROVE  \E i \in DOMAIN g : g[i] = h[j]
    OBVIOUS
  <2>1. h[j].at < x.at
    BY <1>12, <1>21 DEF AzureHalf
  <2>2. h[j] \in States
    BY <1>6
  <2>3. h[j].at # x.at
    BY <1>9, <2>1, <2>2, ConstantsAssumption DEF States, Times
  <2> QED
    BY <1>20, <2>3
<1>24. \A i \in DOMAIN s : s[i].by \in w /\ s[i].at = todo[1] => s[i].by \in Bys(g)
  BY <1>12, <1>19 DEF AzureSeen, Bys
<1>25. with = {} => \A i \in DOMAIN s : s[i].at = todo[1] => \E j \in DOMAIN g : g[j] = s[i]
  <2> SUFFICES ASSUME with = {}, NEW i \in DOMAIN s, s[i].at = todo[1]
               PROVE  \E j \in DOMAIN g : g[j] = s[i]
    OBVIOUS
  <2>1. PICK k \in DOMAIN s : s[k] = x
    BY <1>12 DEF AzureSeen
  <2>2. k = i
    BY <1>5, <1>8, <1>21, <2>1 DEF ThreadInv, StatesOK, Distinct
  <2> QED
    BY <1>19, <2>1, <2>2
<1>30. Fetched(s, h, g, todo[1], w, with)
  BY <1>22, <1>23, <1>24, <1>25 DEF Fetched
<1>26. Len(todo) = 1 => \A i \in DOMAIN s : s[i].by \in w => s[i].by \in Bys(g)
  BY <1>6, <1>8, <1>12, <1>17, <1>30, AzureAdvance
<1>27. Len(todo) # 1 => AzureHalf(s, g, Tail(todo), w, with)
  BY <1>6, <1>8, <1>12, <1>17, <1>30, AzureAdvance
<1>28. Len(todo) = 1 /\ with = {} => Newest(g) = Newest(s)
  <2> SUFFICES ASSUME Len(todo) = 1, with = {}
               PROVE  Newest(g) = Newest(s)
    OBVIOUS
  <2>1. \A i \in DOMAIN g : \E j \in DOMAIN s : g[i] = s[j]
    BY <1>6, <1>8, <1>12, <1>17, <1>30, AzureAdvance
  <2>2. \A i \in DOMAIN s : \E j \in DOMAIN g : g[j] = s[i]
    BY <1>6, <1>8, <1>12, <1>17, <1>30, AzureAdvance
  <2> QED
    BY <1>8, <1>17, <2>1, <2>2, SameNewest
<1>29. Len(todo) = 1 => \A e \in w \intersect Bys(s) :
          e \in Bys(g) \/ (provider = "sqlite" /\ Len(g) >= HistoryLimit)
  BY <1>26 DEF Bys
<1>31. Advanced(s, g, todo, w, with)
  BY <1>8, <1>27, <1>28, <1>29 DEF Advanced
<1>32. /\ req[q].pc \in {"copyNext", "copyUpload"} /\ s = states[req[q].thread]
       /\ states'[req[q].thread] = s /\ g = states'[req[q].target]
       /\ provider \in {"sqlite", "azure"}
  BY <1>1, <1>2, <1>3, <1>4, <1>5, <1>8, <1>15
<1> QED
  BY <1>3, <1>4, <1>7, <1>10, <1>11, <1>14, <1>17, <1>31, <1>32, CopyAdvancesOK

-----------------------------------------------------------------------------
(* The invariant of the copies.                                            *)

LEMMA CopyStepKeeps ==
    ASSUME ThreadInv, CopyInv, NEW p \in Requests, Step(p) \/ CallFails(p)
    PROVE  CopyInv'
<1>1. /\ Moved(p) /\ InFlight(p) /\ Shape /\ PlaceOK(provider, req[p]) /\ req[p].thread \in Threads
      /\ Minted' = Minted
  BY StepMoves, NamesKept DEF ThreadInv, Shape, CallsOK, PlaceOK, Moved, InFlight, Calls
<1>2. \A c \in CopyIds \ Minted' : states'[c] = <<>>
  <2> SUFFICES ASSUME NEW c \in CopyIds, c \notin Minted
               PROVE  states'[c] = <<>>
    BY <1>1
  <2>1. c \in Threads /\ c # None /\ c \notin ClientIds
    BY ConstantsAssumption DEF Threads
  <2>2. c # req[p].target
    BY DEF Minted
  <2>3. c # req[p].thread
    BY <2>1 DEF ThreadInv, NamesOK
  <2>4. states'[c] = states[c]
    BY <2>1, <2>2, <2>3, OldStates
  <2> QED
    BY <2>4 DEF CopyInv
<1>3. \A q \in Requests : \A e \in req'[q].base : req'[e].op = "edit" /\ req'[e].pc = "answered"
  <2> SUFFICES ASSUME NEW q \in Requests, NEW e \in req'[q].base
               PROVE  req'[e].op = "edit" /\ req'[e].pc = "answered"
    OBVIOUS
  <2>1. req'[q].base = req[q].base /\ req[q].base \subseteq Requests
    BY <1>1, PastMoved DEF Shape, ReqStates
  <2>2. e \in Requests /\ req[e].op = "edit" /\ req[e].pc = "answered"
    BY <2>1 DEF CopyInv
  <2>3. req'[e] = req[e]
    BY <1>1, <2>2, PastMoved DEF Ends
  <2> QED
    BY <2>2, <2>3
<1>4. \A q \in Requests : req'[q].op = "copy" => CopyOK(q)'
  <2> SUFFICES ASSUME NEW q \in Requests, req'[q].op = "copy"
               PROVE  CopyOK(q)'
    OBVIOUS
  <2>1. req[q].op = "copy"
    BY <1>1, PastMoved
  <2>2. CASE q # p
    BY <2>1, <2>2, CopyOthers
  <2>3. CASE q = p
    <3>1. \/ FindToCopy(q) \/ Copy(q) \/ CopyInsert(q) \/ CopyHistory(q)
          \/ CopyNext(q) \/ CopyUpload(q) \/ CallFails(q)
      BY <2>1, <2>3, CopyFacts
    <3> QED
      BY <2>1, <3>1, CopyStarts, CopyHistoryOK, CopyNextOK, CopyUploadOK
  <2> QED
    BY <2>2, <2>3
<1> QED
  BY <1>2, <1>3, <1>4 DEF CopyInv

\* A client calls: what a copy owes is fixed.
LEMMA BeginBase ==
    ASSUME ThreadInv, NEW q \in Requests, NEW op \in Ops, NEW t \in Threads, Begin(q, op, t)
    PROVE  /\ req'[q].base \subseteq owed[t]
           /\ \A p \in Requests : p # q =>
                 /\ req'[p].base = req[p].base /\ req'[p].missing = req[p].missing
                 /\ req'[p].copied = req[p].copied /\ req'[p].behind = req[p].behind
<1>1. PICK target \in IF op = "copy" THEN CopyIds \ Minted ELSE {None} :
          req' = [p \in Requests |->
                    IF p = q
                    THEN [NoRequest EXCEPT
                            !.op = op, !.thread = t, !.target = target,
                            !.pc = IF op \in Deletes THEN "remove" ELSE "find",
                            !.base = IF op = "copy" THEN owed[t] ELSE {},
                            !.with = {r \in Requests : InFlight(r) /\ req[r].thread = t}]
                    ELSE IF InFlight(p) /\ req[p].thread = t
                    THEN [req[p] EXCEPT !.with = @ \union {q}]
                    ELSE req[p]]
  BY DEF Begin
<1>2. req'[q].base = IF op = "copy" THEN owed[t] ELSE {}
  BY <1>1 DEF NoRequest
<1>3. ASSUME NEW p \in Requests, p # q
      PROVE  /\ req'[p].base = req[p].base /\ req'[p].missing = req[p].missing
             /\ req'[p].copied = req[p].copied /\ req'[p].behind = req[p].behind
  <2>1. req[p] \in ReqStates
    BY DEF ThreadInv, Shape
  <2>2. req'[p] \in {[req[p] EXCEPT !.with = req[p].with \union {q}], req[p]}
    BY <1>1, <1>3
  <2> QED
    BY <2>1, <2>2 DEF ReqStates
<1> QED
  BY <1>2, <1>3

LEMMA CopyBeginKeeps ==
    ASSUME ThreadInv, CopyInv, NEW q \in Requests, NEW op \in Ops, NEW t \in Threads,
           Begin(q, op, t)
    PROVE  CopyInv'
<1>1. /\ req' \in [Requests -> ReqStates] /\ Begun(q, op, t)
      /\ \A p \in Requests : p # q => Told(p, q, t)
      /\ UNCHANGED <<fixed, now, faults, store, owed, born>>
  BY BeginFacts
<1>2. /\ states' = states /\ provider' = provider /\ owed' = owed /\ Shape
  BY <1>1 DEF fixed, store, ThreadInv
<1>3. req[q].pc = "idle" /\ req[q].target = None
  BY <1>1 DEF Begun, ThreadInv, CallsOK, PlaceOK, NoRequest
<1>4. \A c \in CopyIds \ Minted' : states'[c] = <<>>
  <2> SUFFICES ASSUME NEW c \in CopyIds, c \notin Minted'
               PROVE  c \notin Minted
    BY <1>2 DEF CopyInv
  <2> SUFFICES ASSUME NEW a \in Requests, c = req[a].target
               PROVE  FALSE
    BY DEF Minted
  <2>1. a # q
    BY <1>3, ConstantsAssumption
  <2>2. req'[a].target = c
    BY <1>1, <2>1 DEF Told
  <2> QED
    BY <2>2 DEF Minted
<1>5. \A p \in Requests : \A e \in req'[p].base : req'[e].op = "edit" /\ req'[e].pc = "answered"
  <2> SUFFICES ASSUME NEW p \in Requests, NEW e \in req'[p].base
               PROVE  req'[e].op = "edit" /\ req'[e].pc = "answered"
    OBVIOUS
  <2>1. e \in Requests /\ req[e].op = "edit" /\ req[e].pc = "answered"
    <3>1. CASE p = q
      BY <1>2, <3>1, BeginBase DEF ThreadInv, TalesOK, Shape
    <3>2. CASE p # q
      BY <1>2, <3>2, BeginBase DEF CopyInv, Shape, ReqStates
    <3> QED
      BY <3>1, <3>2
  <2>2. e # q
    BY <1>3, <2>1
  <2> QED
    BY <1>1, <2>1, <2>2 DEF Told
<1>6. ASSUME NEW p \in Requests, req'[p].op = "copy"
      PROVE  CopyOK(p)'
  <2>1. CASE p = q
    <3>1. req'[q].pc = "find" /\ req'[q].target \in CopyIds \ Minted
      BY <1>1, <1>6, <2>1 DEF Begun, Deletes
    <3>2. states'[req'[q].target] = <<>>
      BY <1>2, <3>1 DEF CopyInv
    <3> QED
      BY <2>1, <3>1, <3>2 DEF CopyOK
  <2>2. CASE p # q
    <3>1. Told(p, q, t) /\ req[p].op = "copy" /\ CopyOK(p)
      BY <1>1, <1>6, <2>2 DEF Told, CopyInv
    <3>2. /\ req'[p].pc = req[p].pc /\ req'[p].thread = req[p].thread
          /\ req'[p].target = req[p].target /\ req'[p].todo = req[p].todo
          /\ req'[p].seen = req[p].seen /\ req[p].with \subseteq req'[p].with
      BY <3>1 DEF Told
    <3>3. /\ req'[p].base = req[p].base /\ req'[p].missing = req[p].missing
          /\ req'[p].copied = req[p].copied /\ req'[p].behind = req[p].behind
      BY <2>2, BeginBase
    <3>4. Wanted(p)' = Wanted(p)
      BY <1>2, <3>2, <3>3 DEF Wanted
    <3>5. PICK s : s = states[req[p].thread]
      OBVIOUS
    <3>6. PICK h : h = states[req[p].target]
      OBVIOUS
    <3>7. PICK w : w = Wanted(p)
      OBVIOUS
    <3>8. PICK with : with = req[p].with
      OBVIOUS
    <3>9. PICK with2 : with2 = req'[p].with
      OBVIOUS
    <3>10. w \subseteq w /\ (with2 = {} => with = {} /\ s = s)
           /\ \A i \in DOMAIN s : s[i].by \in w => \E j \in DOMAIN s : s[i] = s[j]
      BY <3>2, <3>8, <3>9
    <3>11. PICK todo : todo = req[p].todo
      OBVIOUS
    <3>12. SqliteHalf(s, h, todo, w, with) => SqliteHalf(s, h, todo, w, with2)
      BY <3>10, HalvesShrink
    <3>13. AzureHalf(s, h, todo, w, with) => AzureHalf(s, h, todo, w, with2)
      BY <3>10, HalvesShrink
    <3>14. \A x, at : AzureSeen(s, x, at, w, with) => AzureSeen(s, x, at, w, with2)
      BY <3>10, HalvesShrink
    <3> QED
      BY <1>2, <3>1, <3>2, <3>3, <3>4, <3>5, <3>6, <3>7, <3>8, <3>9, <3>11, <3>12, <3>13, <3>14
         DEF CopyOK
  <2> QED
    BY <2>1, <2>2
<1> QED
  BY <1>4, <1>5, <1>6 DEF CopyInv

\* The clock goes on, or nothing happens.
LEMMA CopyStillKeeps ==
    ASSUME CopyInv, UNCHANGED <<fixed, store, req, ghost>>
    PROVE  CopyInv'
<1>1. provider' = provider /\ states' = states /\ req' = req /\ owed' = owed
  BY DEF fixed, store, ghost
<1>2. Minted' = Minted
  BY <1>1 DEF Minted
<1>3. \A q \in Requests : CopyOK(q) => CopyOK(q)'
  BY <1>1 DEF CopyOK, Wanted
<1> QED
  BY <1>1, <1>2, <1>3 DEF CopyInv

(* While a copy runs, what it owes is stored in it or left to copy.         *)
THEOREM CopiesInvariant == Spec => []CopyInv
<1>1. Init => CopyInv
  <2> SUFFICES ASSUME Init
               PROVE  CopyInv
    OBVIOUS
  <2>1. \A q \in Requests : req[q].op = "none" /\ req[q].base = {}
    BY DEF Init, NoRequest
  <2>2. \A c \in CopyIds : states[c] = <<>>
    BY DEF Init, Threads
  <2> QED
    BY <2>1, <2>2 DEF CopyInv
<1>2. ThreadInv /\ CopyInv /\ [Next]_vars => CopyInv'
  <2> SUFFICES ASSUME ThreadInv, CopyInv, [Next]_vars
               PROVE  CopyInv'
    OBVIOUS
  <2>1. CASE Tick \/ UNCHANGED vars
    BY <2>1, CopyStillKeeps DEF Tick, vars
  <2>2. CASE \E q \in Requests : \E op \in Ops, t \in Threads : Begin(q, op, t)
    BY <2>2, CopyBeginKeeps
  <2>3. CASE \E q \in Requests : Step(q) \/ CallFails(q)
    BY <2>3, CopyStepKeeps
  <2> QED
    BY <2>1, <2>2, <2>3 DEF Next
<1> QED
  BY <1>1, <1>2, ThreadsInvariant, PTL DEF Spec

(* A copy that is answered holds every state that was owed when it began   *)
(* and still is, up to the states that SQLite copies; and if nobody        *)
(* touched the source meanwhile, its newest state is that of the source    *)
(* (ThreadStates).                                                         *)
THEOREM CopyCompleteCorrect == Spec => []CopyComplete
<1>1. CopyInv => CopyComplete
  BY DEF CopyInv, CopyOK, CopyComplete
<1> QED
  BY <1>1, CopiesInvariant, PTL

-----------------------------------------------------------------------------
(* Clients that make one call at a time.                                   *)

ValuesOf(n) == IF n = None THEN <<>> ELSE n.values

\* SQL Server orders the states of one millisecond either way.
Plain(t) == provider = "sqlserver" => Distinct(states[t])

\* The thread that a request changes.
Here(q) == IF req[q].op = "copy" THEN req[q].target ELSE req[q].thread

\* q is in the middle of changing t and its history.
Busy(q, t) ==
    /\ InFlight(q) /\ Here(q) = t
    /\ \/ req[q].op = "copy" \/ req[q].pc \in {"list", "purge"}
       \/ req[q].op = "edit" /\ req[q].pc \in {"modify", "write"}

\* The newest state has the messages that are owed.
TurnsKept(t) ==
    Plain(t) => \A n \in Newest(states[t]) : owed[t] \subseteq Range(ValuesOf(n))

\* Without a failure, a thread has the values of its newest state.
InStep(t) ==
    faults = 0 /\ (\A q \in Requests : ~Busy(q, t)) /\ Plain(t) =>
        IF thread[t] = None THEN states[t] = <<>>
        ELSE \A n \in Newest(states[t]) : thread[t].values = ValuesOf(n)

\* What a request that runs alone has read is still so.
ReadOK(q) ==
    LET r == req[q]
        t == req[q].thread
        c == req[q].target
    IN  /\ r.pc \in {"newest", "download", "append"} =>
              \A i \in DOMAIN states[t] : states[t][i].at <= r.at
        /\ r.pc \in {"newest", "download", "append", "modify", "write"} => thread[t] # None
        /\ r.pc = "write" => r.old = thread[t]
        /\ r.pc = "download" => \E i \in Latest(states[t]) : states[t][i].at = r.todo[1]
        /\ r.pc = "append" => r.seen \in Newest(states[t])
        /\ r.op = "edit" /\ r.pc \in {"modify", "write"} /\ Plain(t) =>
              \A n \in Newest(states[t]) : n # None /\ n.values = MergedValues(q)
        /\ r.pc \in {"copyInsert", "copyHistory", "copyNext", "copyUpload"} =>
              thread[t] # None /\ r.old = thread[t]
        /\ r.op = "copy" /\ r.pc \in {"find", "copy", "copyInsert"} => thread[c] = None
        /\ r.pc = "copyHistory" /\ provider = "sqlserver" => thread[c] = None
        /\ (r.pc = "copyHistory" /\ provider # "sqlserver") \/ r.pc \in {"copyNext", "copyUpload"} =>
              thread[c] # None /\ thread[c].values = r.old.values

SerialInv ==
    Serial =>
        /\ \A q \in Requests : req[q].with = {} /\ req[q].at <= now
        /\ \A c \in CopyIds \ Minted : thread[c] = None
        /\ \A q \in Requests : ReadOK(q)
        /\ \A t \in Threads : TurnsKept(t) /\ InStep(t)

\* The request of a step runs alone.
LEMMA RunsAlone ==
    ASSUME ThreadInv, SerialInv, Serial, NEW q \in Requests, Step(q) \/ CallFails(q)
    PROVE  /\ Shape /\ Shape' /\ UNCHANGED <<fixed, now>> /\ Serial'
           /\ Moved(q) /\ PlaceOK(provider, req[q]) /\ PlaceOK(provider, req'[q])
           /\ \A p \in Requests : p # q => ~InFlight(p) /\ ~InFlight(p)' /\ req'[p] = req[p]
           /\ req[q].thread \in Threads /\ Here(q) \in Threads /\ Here(q)' = Here(q)
           /\ req[q].with = {} /\ ReadOK(q)
           /\ faults' = 0 => faults = 0
           /\ req[q].op = "copy" => req[q].target # req[q].thread
<1>1. Moved(q) /\ PlaceOK(provider, req'[q]) /\ Shape'
  BY StepMoves
<1>2. Shape /\ PlaceOK(provider, req[q]) /\ req[q] \in ReqStates /\ InFlight(q)
  BY <1>1 DEF ThreadInv, CallsOK, Shape, Moved
<1>3. UNCHANGED <<fixed, now>> /\ Serial'
  <2>1. UNCHANGED fixed
    BY <1>1 DEF Moved
  <2>2. now' = now
    BY DEF Step, CallFails, FindToCreate, Insert, Fails, FindToPatch, Modify, Write, FindToEdit,
           ReadNewest, DownloadNewest, AppendState, RemoveThread, ListHistory, Purge, FindToCopy,
           Copy, CopyInsert, CopyHistory, CopyNext, CopyUpload
  <2> QED
    BY <2>1, <2>2 DEF fixed, Serial
<1>4. faults' = 0 => faults = 0
  <2>1. faults' = faults \/ faults' = faults + 1
    BY DEF Step, CallFails, FindToCreate, Insert, Fails, FindToPatch, Modify, Write, FindToEdit,
           ReadNewest, DownloadNewest, AppendState, RemoveThread, ListHistory, Purge, FindToCopy,
           Copy, CopyInsert, CopyHistory, CopyNext, CopyUpload
  <2>2. faults \in Nat
    BY <1>2, ConstantsAssumption DEF Shape
  <2> QED
    BY <2>1, <2>2
<1>5. \A p \in Requests : p # q => ~InFlight(p)
  BY <1>2 DEF ThreadInv, OverlapOK
<1>6. \A p \in Requests : p # q => ~InFlight(p)' /\ req'[p] = req[p]
  BY <1>1, <1>5 DEF Moved, InFlight
<1>7. req[q].pc # "idle" /\ req[q].pc # "answered"
  BY <1>2 DEF InFlight, Calls
<1>8. req[q].thread \in Threads
  BY <1>2, <1>7 DEF PlaceOK
<1>9. req[q].op = "copy" => req[q].target \in CopyIds /\ req[q].target # req[q].thread
  BY <1>2, <1>7 DEF PlaceOK, ReqStates, ThreadInv, NamesOK
<1>10. Here(q) \in Threads
  BY <1>8, <1>9 DEF Here, Threads
<1>11. Here(q)' = Here(q)
  BY <1>1 DEF Here, Moved
<1>12. req[q].with = {} /\ ReadOK(q)
  BY DEF SerialInv
<1> QED
  BY <1>1, <1>2, <1>3, <1>4, <1>5, <1>6, <1>8, <1>9, <1>10, <1>11, <1>12

LEMMA NewestNext ==
    ASSUME provider' = provider, NEW t, NEW h, states'[t] = h
    PROVE  Newest(states[t])' = Newest(h)
BY DEF Newest

LEMMA BusyHere ==
    ASSUME ThreadInv, SerialInv, Serial, NEW q \in Requests, Step(q) \/ CallFails(q), NEW t
    PROVE  /\ (\A p \in Requests : ~Busy(p, t)) <=> ~Busy(q, t)
           /\ (\A p \in Requests : ~Busy(p, t)') <=> ~Busy(q, t)'
<1>1. \A p \in Requests : p # q => ~InFlight(p) /\ ~InFlight(p)'
  BY RunsAlone
<1>2. \A p \in Requests : p # q => ~Busy(p, t)
  BY <1>1 DEF Busy
<1>3. \A p \in Requests : p # q => ~Busy(p, t)'
  BY <1>1 DEF Busy
<1> QED
  BY <1>2, <1>3

\* Nothing of t changes, and q does not leave it half changed.
LEMMA SameThread ==
    ASSUME ThreadInv, SerialInv, Serial, NEW q \in Requests, Step(q) \/ CallFails(q),
           NEW t \in Threads, thread'[t] = thread[t], states'[t] = states[t], owed'[t] = owed[t],
           faults' = 0 /\ Busy(q, t) => Busy(q, t)'
    PROVE  TurnsKept(t)' /\ InStep(t)'
<1>1. provider' = provider /\ (faults' = 0 => faults = 0) /\ TurnsKept(t) /\ InStep(t)
  BY RunsAlone DEF fixed, SerialInv
<1>2. PICK s : s = states[t]
  OBVIOUS
<1>3. Newest(states[t])' = Newest(s) /\ Newest(states[t]) = Newest(s)
  BY <1>1, <1>2, NewestNext
<1>4. Plain(t)' <=> Plain(t)
  BY <1>1 DEF Plain
<1>5. TurnsKept(t)'
  BY <1>1, <1>3, <1>4 DEF TurnsKept
<1>6. InStep(t)'
  BY <1>1, <1>2, <1>3, <1>4, BusyHere DEF InStep
<1> QED
  BY <1>5, <1>6
\* The other threads stay as they are.
LEMMA ElsewhereSame ==
    ASSUME ThreadInv, SerialInv, Serial, NEW q \in Requests, Step(q) \/ CallFails(q),
           NEW t \in Threads, t # Here(q)
    PROVE  thread'[t] = thread[t] /\ states'[t] = states[t] /\ owed'[t] = owed[t]
<1>1. /\ Shape /\ PlaceOK(provider, req[q]) /\ req[q].thread \in Threads /\ Here(q) \in Threads
      /\ InFlight(q)
  BY RunsAlone DEF Moved
<1>2. /\ thread \in [Threads -> Records \union {None}] /\ states \in [Threads -> Seq(States)]
      /\ owed \in [Threads -> SUBSET Requests]
  BY <1>1 DEF Shape
<1>3. /\ req[q].pc \in {"insert", "modify", "write", "append", "remove", "list", "purge"} =>
            Here(q) = req[q].thread
      /\ req[q].pc \in {"copy", "copyInsert", "copyHistory", "copyNext", "copyUpload"} =>
            Here(q) = req[q].target
  BY <1>1 DEF PlaceOK, Here, Creates, Deletes
<1>4. thread'[t] = thread[t]
  <2>1. RemoveThread(q) => req[q].pc = "remove"
    BY DEF RemoveThread
  <2> QED
    BY <1>1, <1>2, <1>3, <2>1, ThreadStep
<1>5. states'[t] = states[t]
  <2>1. /\ RemoveThread(q) => req[q].pc = "remove"
        /\ AppendState(q) => req[q].pc = "append"
        /\ Purge(q) => req[q].pc = "purge"
    BY DEF RemoveThread, AppendState, Purge
  <2> QED
    BY <1>1, <1>2, <1>3, <2>1, StatesStep
<1>6. owed'[t] = owed[t]
  <2>1. CASE UNCHANGED ghost
    BY <2>1 DEF ghost
  <2>2. CASE Answer(q)
    BY <1>2, <2>2 DEF Answer, Here
  <2>3. CASE RemoveThread(q)
    <3>1. owed' = [owed EXCEPT ![req[q].thread] = {}] /\ t # req[q].thread
      BY <1>3, <2>3 DEF RemoveThread, Forget
    <3> QED
      BY <1>2, <3>1
  <2>4. CASE owed' = owed
    BY <2>4
  <2> QED
    BY <2>1, <2>2, <2>3, <2>4, GhostStep
<1> QED
  BY <1>4, <1>5, <1>6

\* What is left to show of a step of q.
Fits(q) == TurnsKept(Here(q)) /\ InStep(Here(q)) /\ ReadOK(q)

LEMMA TakesTime ==
    ASSUME ThreadInv, SerialInv, Serial, NEW q \in Requests, Step(q) \/ CallFails(q)
    PROVE  req'[q].at <= now
<1>1. /\ Shape /\ Shape' /\ now' = now /\ Moved(q) /\ PlaceOK(provider, req[q])
  BY RunsAlone
<1>2. req[q].at <= now
  BY DEF SerialInv
<1>3. now \in Int /\ req \in [Requests -> ReqStates]
  BY <1>1 DEF Shape, Times
<1>4. CASE req[q].pc # "find"
  BY <1>1, <1>2, <1>4 DEF Moved
<1>5. CASE req[q].pc = "find"
  <2>1. FindToCreate(q) \/ FindToPatch(q) \/ FindToEdit(q) \/ FindToCopy(q) \/ CallFails(q)
    BY <1>5 DEF Step, Insert, Modify, Write, ReadNewest, DownloadNewest, AppendState, RemoveThread,
                ListHistory, Purge, Copy, CopyInsert, CopyHistory, CopyNext, CopyUpload
  <2>2. CASE FindToEdit(q)
    <3>1. req'[q].at = req[q].at \/ req'[q].at = now
      BY <1>3, <2>2 DEF FindToEdit, Goto, ReqStates
    <3> QED
      BY <1>2, <1>3, <3>1
  <2>3. CASE ~FindToEdit(q)
    <3>1. PICK call : req' = Goto(q, call)
      BY <2>1, <2>3 DEF FindToCreate, FindToPatch, FindToCopy, CallFails, Answer
    <3>2. req'[q].at = req[q].at
      BY <1>1, <3>1, GotoSame
    <3> QED
      BY <1>2, <3>2
  <2> QED
    BY <2>2, <2>3
<1> QED
  BY <1>4, <1>5

LEMMA SerialFrame ==
    ASSUME ThreadInv, SerialInv, Serial, NEW q \in Requests, Step(q) \/ CallFails(q), Fits(q)'
    PROVE  SerialInv'
<1>1. /\ Shape /\ now' = now /\ Moved(q) /\ Here(q) \in Threads /\ Here(q)' = Here(q)
      /\ req[q].thread \in Threads /\ req[q].with = {} /\ PlaceOK(provider, req[q])
  BY RunsAlone
<1>2. \A p \in Requests : p # q => ~InFlight(p)' /\ req'[p] = req[p]
  BY RunsAlone
<1>3. \A p \in Requests : req'[p].with = {} /\ req'[p].at <= now'
  BY <1>1, <1>2, TakesTime DEF Moved, SerialInv
<1>4. \A c \in CopyIds \ Minted' : thread'[c] = None
  <2> SUFFICES ASSUME NEW c \in CopyIds \ Minted
               PROVE  thread'[c] = None
    BY <1>1, NamesKept
  <2>1. c \in Threads /\ c \notin ClientIds /\ c # None
    BY ConstantsAssumption DEF Threads
  <2>2. c # req[q].thread
    BY <1>1, <2>1, ConstantsAssumption DEF ThreadInv, NamesOK, Threads
  <2>3. c # Here(q)
    BY <2>2 DEF Here, Minted
  <2> QED
    BY <2>1, <2>3, ElsewhereSame DEF SerialInv
<1>5. \A p \in Requests : ReadOK(p)'
  <2> SUFFICES ASSUME NEW p \in Requests, p # q
               PROVE  ReadOK(p)'
    BY DEF Fits
  <2>1. ~InFlight(p)'
    BY <1>2
  <2> QED
    BY <2>1 DEF ReadOK, InFlight, Calls
<1>6. \A t \in Threads : TurnsKept(t)' /\ InStep(t)'
  <2> SUFFICES ASSUME NEW t \in Threads
               PROVE  TurnsKept(t)' /\ InStep(t)'
    OBVIOUS
  <2>1. CASE t = Here(q)
    <3>1. Here(q)' = t
      BY <1>1, <2>1
    <3> QED
      BY <3>1 DEF Fits
  <2>2. CASE t # Here(q)
    <3>1. ~Busy(q, t)
      BY <2>2 DEF Busy
    <3>2. thread'[t] = thread[t] /\ states'[t] = states[t] /\ owed'[t] = owed[t]
      BY <2>2, ElsewhereSame
    <3> QED
      BY <3>1, <3>2, SameThread
  <2> QED
    BY <2>1, <2>2
<1> QED
  BY <1>3, <1>4, <1>5, <1>6 DEF SerialInv
LEMMA EndsRead ==
    ASSUME NEW q, req'[q].pc \in Ends \union {"insert", "list", "purge"}
    PROVE  ReadOK(q)'
BY DEF ReadOK, Ends

LEMMA StoreSame ==
    ASSUME ThreadInv, SerialInv, Serial, NEW q \in Requests, Step(q) \/ CallFails(q),
           thread' = thread, states' = states, owed' = owed,
           faults' = 0 /\ Busy(q, Here(q)) => Busy(q, Here(q))', ReadOK(q)'
    PROVE  Fits(q)'
<1>1. Here(q) \in Threads /\ Here(q)' = Here(q)
  BY RunsAlone
<1>2. PICK t \in Threads : t = Here(q)
  BY <1>1
<1>3. faults' = 0 /\ Busy(q, t) => Busy(q, t)'
  BY <1>1, <1>2
<1>4. TurnsKept(t)' /\ InStep(t)'
  BY <1>3, SameThread
<1>5. Here(q)' = t
  BY <1>1, <1>2
<1> QED
  BY <1>4, <1>5 DEF Fits

LEMMA FailFits ==
    ASSUME ThreadInv, SerialInv, Serial, NEW q \in Requests, CallFails(q)
    PROVE  Fits(q)'
<1>1. thread' = thread /\ states' = states /\ owed' = owed
  BY DEF CallFails, store, ghost
<1>2. req'[q].pc = "failed"
  BY Landing
<1>3. ~(faults' = 0)
  <2>1. faults' = faults + 1 /\ faults \in Nat
    BY RunsAlone, ConstantsAssumption DEF CallFails, Shape
  <2> QED
    BY <2>1
<1> QED
  BY <1>1, <1>2, <1>3, StoreSame, EndsRead DEF Ends

LEMMA FindFits ==
    ASSUME ThreadInv, SerialInv, Serial, NEW q \in Requests, FindToCreate(q) \/ FindToPatch(q)
    PROVE  Fits(q)'
<1>1. /\ Shape /\ Step(q) /\ req'[q].op = req[q].op /\ req'[q].thread = req[q].thread
      /\ req[q].op \in Creates \union {"patch"} /\ req[q].pc = "find"
      /\ req'[q].pc \in {"answered", "insert", "failed", "modify"}
  BY RunsAlone, Landing DEF Step, FindToCreate, FindToPatch, Moved
<1>2. thread' = thread /\ states' = states
  BY DEF FindToCreate, FindToPatch, store
<1>3. owed' = owed
  BY <1>1 DEF FindToCreate, FindToPatch, ghost, Answer, Creates
<1>4. ~Busy(q, Here(q))
  BY <1>1 DEF Busy, Creates
<1>5. req'[q].pc = "modify" => thread[req[q].thread] # None
  <2> SUFFICES ASSUME thread[req[q].thread] = None
               PROVE  req'[q].pc # "modify"
    OBVIOUS
  <2>1. req' = Goto(q, "insert") \/ req' = Goto(q, "failed")
    BY DEF FindToCreate, FindToPatch
  <2> QED
    BY <1>1, <2>1, GotoSame
<1>6. ReadOK(q)'
  <2>1. CASE req'[q].pc = "modify"
    BY <1>1, <1>2, <1>5, <2>1 DEF ReadOK, Creates
  <2>2. CASE req'[q].pc # "modify"
    BY <1>1, <2>2, EndsRead DEF Ends
  <2> QED
    BY <2>1, <2>2
<1> QED
  BY <1>1, <1>2, <1>3, <1>4, <1>6, StoreSame

LEMMA InsertFits ==
    ASSUME ThreadInv, SerialInv, Serial, NEW q \in Requests, Insert(q)
    PROVE  Fits(q)'
<1>1. /\ Shape /\ Step(q) /\ PlaceOK(provider, req[q]) /\ req[q].pc = "insert"
      /\ req'[q].pc \in Ends /\ provider' = provider
  BY RunsAlone, Landing DEF Step, Insert, fixed
<1>2. req[q].op \in Creates /\ Here(q) = req[q].thread /\ ~Busy(q, Here(q))
  BY <1>1 DEF PlaceOK, Here, Creates, Busy
<1>3. PICK t \in Threads : t = req[q].thread
  BY <1>1, RunsAlone
<1>4. thread[t] = None
  BY <1>1, <1>3 DEF ThreadInv, BornOK
<1>5. /\ PutThread(t, [meta |-> q, values |-> <<>>, tag |-> 0])
      /\ Answer(q) /\ UNCHANGED <<fixed, now, faults, states>>
  BY <1>3, <1>4 DEF Insert
<1>6. owed' = owed /\ states' = states /\ faults' = faults
  BY <1>2, <1>5 DEF Answer, Creates
<1>7. thread'[t] \in Records /\ thread'[t].values = <<>>
  <2>1. [meta |-> q, values |-> <<>>, tag |-> 0] \in Records
    BY DEF Records
  <2> QED
    BY <1>1, <1>5, <2>1, PutThreadShape
<1>8. TurnsKept(t) /\ InStep(t)
  BY DEF SerialInv
<1>9. PICK s : s = states[t]
  OBVIOUS
<1>10. Newest(states[t])' = Newest(s) /\ (Plain(t)' <=> Plain(t))
  BY <1>1, <1>6, <1>9, NewestNext DEF Plain
<1>11. TurnsKept(t)'
  BY <1>6, <1>8, <1>9, <1>10 DEF TurnsKept
<1>12. InStep(t)'
  <2> SUFFICES ASSUME faults = 0, Plain(t)
               PROVE  \A n \in Newest(s) : thread'[t].values = ValuesOf(n)
    BY <1>6, <1>7, <1>10, NoneAssumption DEF InStep
  <2>1. s = <<>>
    BY <1>1, <1>2, <1>3, <1>4, <1>8, <1>9, BusyHere DEF InStep
  <2> QED
    BY <1>7, <2>1 DEF Newest, ValuesOf
<1>13. ReadOK(q)'
  BY <1>1, EndsRead
<1>14. Here(q)' = t
  BY <1>1, <1>2, <1>3, RunsAlone
<1> QED
  BY <1>11, <1>12, <1>13, <1>14 DEF Fits
\* A new state has its own message after those of the state that was read.
LEMMA MergedRange ==
    ASSUME Shape, NEW q \in Requests
    PROVE  /\ q \in Range(MergedValues(q))
           /\ Range(ValuesOf(req[q].seen)) \subseteq Range(MergedValues(q))
<1>1. req[q] \in ReqStates
  BY DEF Shape
<1>2. req[q].seen = None \/ (req[q].seen # None /\ req[q].seen \in States)
  BY <1>1 DEF ReqStates
<1>3. ValuesOf(req[q].seen) \in Seq(Requests)
  BY <1>2 DEF ValuesOf, States
<1>4. PICK v \in Seq(Requests) : v = ValuesOf(req[q].seen)
  BY <1>3
<1>5. MergedValues(q) = Append(v, q)
  BY <1>4 DEF MergedValues, ValuesOf
<1>6. PICK w \in Seq(Requests) : w = Append(v, q)
  BY <1>5, MadeState
<1>7. Len(w) = Len(v) + 1 /\ w[Len(w)] = q /\ \A i \in DOMAIN v : i \in DOMAIN w /\ w[i] = v[i]
  BY <1>6
<1>8. Len(w) \in DOMAIN w
  BY <1>7
<1>9. q \in Range(w) /\ Range(v) \subseteq Range(w)
  BY <1>7, <1>8 DEF Range
<1> QED
  BY <1>4, <1>5, <1>6, <1>9

LEMMA UpdateFits ==
    ASSUME ThreadInv, SerialInv, Serial, NEW q \in Requests, Step(q),
           req[q].pc \in {"modify", "write"},
           PutThread(req[q].thread, Merged(q, thread[req[q].thread])), Answer(q),
           states' = states, faults' = faults
    PROVE  Fits(q)'
<1>1. /\ Shape /\ PlaceOK(provider, req[q]) /\ provider' = provider /\ ReadOK(q) /\ InFlight(q)
  BY RunsAlone DEF fixed, Moved
<1>2. req[q].op \in {"patch", "update", "edit"} /\ Here(q) = req[q].thread
  BY <1>1 DEF PlaceOK, Here
<1>3. PICK t \in Threads : t = req[q].thread
  BY RunsAlone
<1>4. Here(q) = t /\ Here(q)' = t
  BY <1>2, <1>3, RunsAlone
<1>5. PICK record : record = thread[t]
  OBVIOUS
<1>6. record # None /\ record \in Records
  BY <1>1, <1>3, <1>5, SomeRecord DEF ReadOK
<1>7. PICK put : put = Merged(q, record)
  OBVIOUS
<1>8. put \in Records /\ put.values = IF req[q].op = "edit" THEN MergedValues(q) ELSE record.values
  <2>1. put \in Records
    BY <1>1, <1>6, <1>7, MergedRecord
  <2> QED
    BY <1>6, <1>7, <2>1 DEF Merged, Records
<1>9. thread'[t] \in Records /\ thread'[t].values = put.values
  BY <1>1, <1>3, <1>5, <1>7, <1>8, PutThreadShape
<1>10. PICK s : s = states[t]
  OBVIOUS
<1>11. Newest(states[t])' = Newest(s) /\ (Plain(t)' <=> Plain(t)) /\ TurnsKept(t) /\ InStep(t)
  BY <1>1, <1>10, NewestNext DEF Plain, SerialInv
<1>12. req[q].op = "edit" /\ Plain(t) => \A n \in Newest(s) : n # None /\ n.values = MergedValues(q)
  BY <1>1, <1>3, <1>10 DEF ReadOK
<1>13. owed'[t] \subseteq owed[t] \union (IF req[q].op = "edit" THEN {q} ELSE {})
  BY <1>1, <1>3 DEF Answer, Shape
<1>14. TurnsKept(t)'
  <2> SUFFICES ASSUME Plain(t), NEW n \in Newest(s)
               PROVE  owed'[t] \subseteq Range(ValuesOf(n))
    BY <1>11 DEF TurnsKept
  <2>1. owed[t] \subseteq Range(ValuesOf(n))
    BY <1>10, <1>11 DEF TurnsKept
  <2>2. CASE req[q].op = "edit"
    <3>1. ValuesOf(n) = MergedValues(q)
      BY <1>12, <2>2 DEF ValuesOf
    <3> QED
      BY <1>1, <1>13, <2>1, <3>1, MergedRange
  <2>3. CASE req[q].op # "edit"
    BY <1>13, <2>1, <2>3
  <2> QED
    BY <2>2, <2>3
<1>15. InStep(t)'
  <2> SUFFICES ASSUME faults = 0, Plain(t), NEW n \in Newest(s)
               PROVE  put.values = ValuesOf(n)
    BY <1>9, <1>11, NoneAssumption DEF InStep
  <2>1. CASE req[q].op = "edit"
    BY <1>8, <1>12, <2>1 DEF ValuesOf
  <2>2. CASE req[q].op # "edit"
    <3>1. ~Busy(q, t)
      BY <1>2, <2>2 DEF Busy
    <3>2. record.values = ValuesOf(n)
      BY <1>5, <1>6, <1>10, <1>11, <3>1, BusyHere DEF InStep
    <3> QED
      BY <1>8, <2>2, <3>2
  <2> QED
    BY <2>1, <2>2
<1>16. ReadOK(q)'
  <2>1. req'[q].pc = "answered"
    BY <1>1, GotoSame DEF Answer
  <2> QED
    BY <2>1, EndsRead DEF Ends
<1> QED
  BY <1>4, <1>14, <1>15, <1>16 DEF Fits

LEMMA ModifyFits ==
    ASSUME ThreadInv, SerialInv, Serial, NEW q \in Requests, Modify(q)
    PROVE  Fits(q)'
<1>1. /\ Shape /\ Step(q) /\ PlaceOK(provider, req[q]) /\ req[q].pc = "modify" /\ ReadOK(q)
      /\ provider' = provider /\ Here(q)' = Here(q)
  BY RunsAlone DEF Step, Modify, fixed
<1>2. thread[req[q].thread] # None /\ faults' = faults
  BY <1>1 DEF ReadOK, Modify
<1>3. CASE MemoryUpdate(q)
  BY <1>1, <1>2, <1>3, UpdateFits DEF MemoryUpdate
<1>4. CASE UpdateReads(q)
  <2>1. /\ thread' = thread /\ states' = states /\ owed' = owed /\ req \in [Requests -> ReqStates]
        /\ req' = [req EXCEPT ![q].pc = "write", ![q].old = thread[req[q].thread]]
    BY <1>1, <1>4 DEF UpdateReads, store, ghost, Shape
  <2>2. /\ req'[q].pc = "write" /\ req'[q].op = req[q].op /\ req'[q].thread = req[q].thread
        /\ req'[q].old = thread[req[q].thread] /\ req'[q].seen = req[q].seen
    BY <2>1 DEF ReqStates
  <2>3. req[q].op \in {"patch", "update", "edit"}
    BY <1>1 DEF PlaceOK
  <2>4. Busy(q, Here(q)) => Busy(q, Here(q))'
    BY <1>1, <2>2 DEF Busy, InFlight, Calls
  <2>5. PICK t : t = req[q].thread
    OBVIOUS
  <2>6. PICK s : s = states[t]
    OBVIOUS
  <2>7. Newest(states[t])' = Newest(s) /\ (Plain(t)' <=> Plain(t)) /\ MergedValues(q)' = MergedValues(q)
    BY <1>1, <2>1, <2>2, <2>6, NewestNext DEF Plain, MergedValues
  <2>8. req[q].op = "edit" /\ Plain(t) => \A n \in Newest(s) : n # None /\ n.values = MergedValues(q)
    BY <1>1, <2>5, <2>6 DEF ReadOK
  <2>9. (Newest(states[req[q].thread]))' = Newest(s)
    BY <2>2, <2>5, <2>7
  <2>10. ReadOK(q)'
    BY <1>2, <2>1, <2>2, <2>3, <2>5, <2>7, <2>8, <2>9 DEF ReadOK
  <2> QED
    BY <1>1, <2>1, <2>4, <2>10, StoreSame
<1> QED
  BY <1>2, <1>3, <1>4 DEF Modify

LEMMA WriteFits ==
    ASSUME ThreadInv, SerialInv, Serial, NEW q \in Requests, Write(q)
    PROVE  Fits(q)'
<1>1. /\ Shape /\ Step(q) /\ req[q].pc = "write" /\ ReadOK(q)
      /\ states' = states /\ faults' = faults
  BY RunsAlone DEF Step, Write
<1>2. thread[req[q].thread] # None /\ req[q].old = thread[req[q].thread]
  BY <1>1 DEF ReadOK
<1>3. PutThread(req[q].thread, Merged(q, thread[req[q].thread])) /\ Answer(q)
  BY <1>2 DEF Write, SqlUpdateWrites, AzureUpdateWrites
<1> QED
  BY <1>1, <1>3, UpdateFits
LEMMA FindToEditFits ==
    ASSUME ThreadInv, SerialInv, Serial, NEW q \in Requests, FindToEdit(q)
    PROVE  Fits(q)'
<1>1. /\ Shape /\ Step(q) /\ req[q].pc = "find" /\ req[q].op = "edit"
      /\ req'[q].thread = req[q].thread /\ req'[q].op = "edit"
      /\ req'[q].pc \in {"failed", "newest"}
      /\ thread' = thread /\ states' = states /\ owed' = owed
  BY RunsAlone, Landing DEF Step, FindToEdit, store, ghost, Moved
<1>2. ~Busy(q, Here(q))
  BY <1>1 DEF Busy
<1>3. CASE req'[q].pc = "newest"
  <2>1. thread[req[q].thread] # None
    <3> SUFFICES ASSUME req' = Goto(q, "failed")
                 PROVE  FALSE
      BY DEF FindToEdit
    <3> QED
      BY <1>1, <1>3, GotoSame
  <2>2. req' = [req EXCEPT ![q].pc = "newest", ![q].at = now] /\ req \in [Requests -> ReqStates]
    BY <1>1, <2>1 DEF FindToEdit, Shape
  <2>3. req'[q].at = now
    BY <2>2 DEF ReqStates
  <2>4. PICK t \in Threads : t = req[q].thread
    BY <1>1, RunsAlone
  <2>5. \A i \in DOMAIN states[t] : states[t][i].at <= now
    BY <2>4, StoredState DEF StateOf, SerialInv
  <2>6. ReadOK(q)'
    BY <1>1, <1>3, <2>1, <2>3, <2>4, <2>5 DEF ReadOK
  <2> QED
    BY <1>1, <1>2, <2>6, StoreSame
<1>4. CASE req'[q].pc = "failed"
  BY <1>1, <1>2, <1>4, EndsRead, StoreSame DEF Ends
<1> QED
  BY <1>1, <1>3, <1>4

\* The last name of the blobs is that of a newest state.
LEMMA LastStamp ==
    ASSUME NEW T, NEW s \in Seq(T), Timed(s), s # <<>>, NEW at, at = Last(StampsByName(s))
    PROVE  \E i \in Latest(s) : s[i].at = at
<1>1. PICK p : p = StampsByName(s)
  OBVIOUS
<1>2. /\ p \in Seq(Ats(s)) /\ p # <<>>
      /\ \A i, j \in DOMAIN p : i < j => p[i] < p[j]
      /\ \A a \in Ats(s) : \E i \in DOMAIN p : p[i] = a
  BY <1>1, StampsSorted
<1>3. Len(p) \in DOMAIN p /\ at = p[Len(p)] /\ DOMAIN p = 1 .. Len(p) /\ Len(p) \in Nat
  BY <1>1, <1>2 DEF Last
<1>4. at \in Ats(s)
  BY <1>2, <1>3
<1>5. \A i \in DOMAIN p : p[i] \in Int
  BY <1>2 DEF Ats, Timed
<1>6. \A i \in DOMAIN p : p[i] <= at
  <2> SUFFICES ASSUME NEW i \in DOMAIN p
               PROVE  p[i] <= at
    OBVIOUS
  <2>1. p[i] \in Int /\ at \in Int
    BY <1>3, <1>5
  <2>2. i = Len(p) \/ i < Len(p)
    BY <1>3
  <2>3. i < Len(p) => p[i] < at
    BY <1>2, <1>3
  <2> QED
    BY <1>3, <2>1, <2>2, <2>3
<1>7. \A j \in DOMAIN s : s[j].at <= at
  BY <1>2, <1>6 DEF Ats
<1>8. PICK i \in DOMAIN s : s[i].at = at
  BY <1>4 DEF Ats
<1> QED
  BY <1>7, <1>8 DEF Latest

LEMMA ReadNewestFits ==
    ASSUME ThreadInv, SerialInv, Serial, NEW q \in Requests, ReadNewest(q)
    PROVE  Fits(q)'
<1>1. /\ Shape /\ Step(q) /\ req[q].pc = "newest" /\ req[q].op = "edit" /\ ReadOK(q)
      /\ req[q].thread \in Threads
      /\ req'[q].thread = req[q].thread /\ req'[q].op = "edit" /\ req'[q].at = req[q].at
      /\ req'[q].pc \in {"download", "append"} /\ provider' = provider
      /\ thread' = thread /\ states' = states /\ owed' = owed
  BY RunsAlone, Landing DEF Step, ReadNewest, store, ghost, Moved, PlaceOK, fixed
<1>2. ~Busy(q, Here(q))
  BY <1>1 DEF Busy
<1>3. PICK t \in Threads : t = req[q].thread
  BY <1>1
<1>4. PICK s \in Seq(States) : s = states[t] /\ Timed(s)
  BY <1>1, StateTypes
<1>5. req \in [Requests -> ReqStates] /\ thread[t] # None /\ \A i \in DOMAIN s : s[i].at <= req[q].at
  BY <1>1, <1>3, <1>4 DEF Shape, ReadOK
<1>6. CASE provider = "azure" /\ s # <<>>
  <2>1. PICK at : at = Last(StampsByName(s))
    OBVIOUS
  <2>2. req' = [req EXCEPT ![q].pc = "download", ![q].todo = <<at>>]
    BY <1>3, <1>4, <1>6, <2>1 DEF ReadNewest
  <2>3. req'[q].pc = "download" /\ req'[q].todo = <<at>>
    BY <1>5, <2>2 DEF ReqStates
  <2>4. req'[q].todo[1] = at
    BY <2>3
  <2>5. \E i \in Latest(s) : s[i].at = at
    BY <1>4, <1>6, <2>1, LastStamp
  <2>6. states'[req'[q].thread] = s /\ thread'[req'[q].thread] # None
    BY <1>1, <1>3, <1>4, <1>5
  <2>7. ReadOK(q)'
    BY <1>1, <1>5, <2>3, <2>4, <2>5, <2>6 DEF ReadOK
  <2> QED
    BY <1>1, <1>2, <2>7, StoreSame
<1>7. CASE ~(provider = "azure" /\ s # <<>>)
  <2>1. PICK n \in Newest(s) : req' = GotoWith(q, "append", n)
    BY <1>3, <1>4, <1>7 DEF ReadNewest
  <2>2. req' = [req EXCEPT ![q].pc = "append", ![q].seen = n]
    BY <2>1 DEF GotoWith
  <2>3. req'[q].pc = "append" /\ req'[q].seen = n
    BY <1>5, <2>2 DEF ReqStates
  <2>4. Newest(states[t])' = Newest(s)
    BY <1>1, <1>4, NewestNext
  <2>5. Newest(states[req[q].thread])' = Newest(s) /\ thread'[req'[q].thread] # None
        /\ states'[req'[q].thread] = s
    BY <1>1, <1>3, <1>4, <1>5, <2>4
  <2>6. ReadOK(q)'
    BY <1>1, <1>5, <2>1, <2>3, <2>5 DEF ReadOK
  <2> QED
    BY <1>1, <1>2, <2>6, StoreSame
<1> QED
  BY <1>6, <1>7

LEMMA DownloadNewestFits ==
    ASSUME ThreadInv, SerialInv, Serial, NEW q \in Requests, DownloadNewest(q)
    PROVE  Fits(q)'
<1>1. /\ Shape /\ Step(q) /\ req[q].pc = "download" /\ req[q].op = "edit" /\ ReadOK(q)
      /\ req[q].thread \in Threads /\ req[q].todo # <<>> /\ req[q].todo \in Seq(Int)
      /\ req'[q].thread = req[q].thread /\ req'[q].op = "edit" /\ req'[q].at = req[q].at
      /\ provider' = provider /\ provider = "azure"
      /\ thread' = thread /\ states' = states /\ owed' = owed
  BY RunsAlone DEF Step, DownloadNewest, store, ghost, Moved, PlaceOK, fixed
<1>2. ~Busy(q, Here(q))
  BY <1>1 DEF Busy
<1>3. PICK t \in Threads : t = req[q].thread
  BY <1>1
<1>4. PICK s \in Seq(States) : s = states[t] /\ Timed(s)
  BY <1>1, StateTypes
<1>5. /\ req \in [Requests -> ReqStates] /\ thread[t] # None
      /\ \A i \in DOMAIN s : s[i].at <= req[q].at
  BY <1>1, <1>3, <1>4 DEF Shape, ReadOK
<1>6. PICK at : at = Head(req[q].todo) /\ at = req[q].todo[1]
  BY <1>1
<1>7. PICK i \in Latest(s) : s[i].at = at
  BY <1>1, <1>3, <1>4, <1>6 DEF ReadOK
<1>8. PICK blob : blob = Blob(t, at)
  OBVIOUS
<1>9. i \in DOMAIN s /\ at \in Ats(s)
  BY <1>7 DEF Latest, Ats
<1>10. blob = s[i]
  <2>1. \E j \in DOMAIN s : blob = s[j] /\ s[j].at = at
    BY <1>1, <1>4, <1>8, <1>9, BlobStored
  <2>2. Distinct(s)
    BY <1>1, <1>4, StoredState
  <2> QED
    BY <1>7, <1>9, <2>1, <2>2 DEF Distinct
<1>11. blob \in Newest(s)
  <2>1. s # <<>>
    BY <1>9
  <2> QED
    BY <1>1, <1>7, <1>10, <2>1 DEF Newest, AzureGetState
<1>12. req' = [req EXCEPT ![q].pc = "append", ![q].todo = <<>>, ![q].seen = blob]
  BY <1>3, <1>6, <1>8 DEF DownloadNewest
<1>13. req'[q].pc = "append" /\ req'[q].seen = blob
  BY <1>5, <1>12 DEF ReqStates
<1>14. Newest(states[t])' = Newest(s)
  BY <1>1, <1>4, NewestNext
<1>15. Newest(states[req[q].thread])' = Newest(s) /\ thread'[req'[q].thread] # None
       /\ states'[req'[q].thread] = s
  BY <1>1, <1>3, <1>4, <1>5, <1>14
<1>16. ReadOK(q)'
  BY <1>1, <1>5, <1>11, <1>13, <1>15 DEF ReadOK
<1> QED
  BY <1>1, <1>2, <1>16, StoreSame
\* A state that is not older than the others becomes the newest one.
LEMMA AppendedNewest ==
    ASSUME NEW s \in Seq(States), Timed(s), NEW x \in States, x.at \in Int,
           \A i \in DOMAIN s : s[i].at <= x.at,
           NEW h, h = AddState(s, x), provider = "azure" => Distinct(s),
           provider = "sqlserver" => Distinct(h), provider \in Providers
    PROVE  Newest(h) = {x} /\ (provider = "sqlserver" => Distinct(s))
<1>1. CASE provider = "azure"
  <2>1. h = AzureAddState(s, x) /\ Distinct(s)
    BY <1>1 DEF AddState
  <2>2. /\ h # <<>>
        /\ \A i \in DOMAIN h : h[i] = x \/ \E j \in DOMAIN s : h[i] = s[j] /\ s[j].at # x.at
        /\ \E i \in DOMAIN h : h[i] = x
    <3>1. h # <<>>
      BY <2>1, AzureAddStateKeeps
    <3>2. \A i \in DOMAIN h : h[i] = x \/ \E j \in DOMAIN s : h[i] = s[j] /\ s[j].at # x.at
      BY <2>1, AzureAddStateKeeps
    <3>3. \E i \in DOMAIN h : h[i] = x
      BY <2>1, AzureAddStateKeeps
    <3> QED
      BY <3>1, <3>2, <3>3
  <2>3. \A i \in DOMAIN h : h[i] = x \/ (h[i].at < x.at /\ h[i].at \in Int)
    BY <2>2 DEF Timed
  <2>4. \A i \in DOMAIN h : h[i].at <= x.at
    BY <2>3
  <2>5. PICK k \in DOMAIN h : h[k] = x
    BY <2>2
  <2>6. k \in Latest(h)
    BY <2>4, <2>5 DEF Latest
  <2>7. \A i \in Latest(h) : h[i] = x
    BY <2>3, <2>5 DEF Latest
  <2>8. AzureGetState(h) = {x}
    BY <2>6, <2>7 DEF AzureGetState
  <2> QED
    BY <1>1, <2>2, <2>8 DEF Newest
<1>2. CASE provider # "azure"
  <2>1. h = Append(s, x)
    BY <1>2 DEF AddState
  <2>2. /\ h \in Seq(States) /\ Len(h) = Len(s) + 1 /\ h[Len(h)] = x
        /\ \A i \in DOMAIN h : h[i] = x \/ \E j \in DOMAIN s : h[i] = s[j]
        /\ \A j \in DOMAIN s : j \in DOMAIN h /\ h[j] = s[j]
    BY <2>1, AppendKeeps
  <2>3. h # <<>> /\ DOMAIN h = 1 .. Len(h) /\ Len(h) \in DOMAIN h
    BY <2>2
  <2>4. \A i \in DOMAIN h : h[i].at <= x.at
    BY <2>2 DEF Timed
  <2>5. Len(h) \in Latest(h)
    BY <2>2, <2>3, <2>4 DEF Latest
  <2>6. MemoryGetState(h) = {x}
    BY <2>2 DEF MemoryGetState
  <2>7. SqliteGetState(h) = {x}
    <3>1. \A i \in Latest(h) : i \in 1 .. Len(h)
      BY <2>3 DEF Latest
    <3>2. (CHOOSE i \in Latest(h) : \A j \in Latest(h) : j <= i) = Len(h)
      BY <2>3, <2>5, <3>1
    <3> QED
      BY <2>2, <3>2 DEF SqliteGetState
  <2>8. provider = "sqlserver" => SqlServerGetState(h) = {x}
    <3> SUFFICES ASSUME provider = "sqlserver"
                 PROVE  SqlServerGetState(h) = {x}
      OBVIOUS
    <3>1. \A i \in Latest(h) : h[i].at = x.at
      <4> SUFFICES ASSUME NEW i \in Latest(h)
                   PROVE  h[i].at = x.at
        OBVIOUS
      <4>1. i \in DOMAIN h /\ x.at <= h[i].at
        BY <2>2, <2>3 DEF Latest
      <4>2. h[i].at <= x.at /\ h[i].at \in Int
        BY <2>2, <2>4, <4>1 DEF Timed
      <4> QED
        BY <4>1, <4>2
    <3>2. \A i \in Latest(h) : i = Len(h)
      BY <2>2, <2>3, <3>1 DEF Distinct, Latest
    <3> QED
      BY <2>2, <2>5, <3>2 DEF SqlServerGetState
  <2>9. Newest(h) = {x}
    BY <1>2, <2>3, <2>6, <2>7, <2>8 DEF Newest, Providers, Sql
  <2>10. provider = "sqlserver" => Distinct(s)
    BY <2>2 DEF Distinct
  <2> QED
    BY <2>9, <2>10
<1> QED
  BY <1>1, <1>2

LEMMA AppendStateFits ==
    ASSUME ThreadInv, SerialInv, Serial, NEW q \in Requests, AppendState(q)
    PROVE  Fits(q)'
<1>1. /\ Shape /\ Step(q) /\ req[q].pc = "append" /\ req[q].op = "edit" /\ ReadOK(q)
      /\ req[q].thread \in Threads /\ req[q].with = {} /\ Here(q)' = Here(q)
      /\ req'[q].thread = req[q].thread /\ req'[q].op = "edit"
      /\ provider' = provider /\ Here(q) = req[q].thread
  BY RunsAlone DEF Step, AppendState, Moved, PlaceOK, fixed, Here
<1>2. PICK t \in Threads : t = req[q].thread
  BY <1>1
<1>3. PICK s \in Seq(States) : s = states[t] /\ Timed(s)
  BY <1>1, StateTypes
<1>4. /\ thread[t] # None /\ req[q].seen \in Newest(s)
      /\ \A i \in DOMAIN s : s[i].at <= req[q].at
  BY <1>1, <1>2, <1>3 DEF ReadOK
<1>5. PICK x : x = [by |-> q, at |-> req[q].at, values |-> MergedValues(q)]
  OBVIOUS
<1>6. x \in States /\ x.at = req[q].at /\ x.at \in Int /\ x.values = MergedValues(q) /\ x # None
  BY <1>1, <1>5, MadeState, NoneAssumption DEF States, Times
<1>7. PICK h : h = AddState(s, x)
  OBVIOUS
<1>8. /\ states' = [states EXCEPT ![t] = h] /\ req' = Goto(q, "modify")
      /\ thread' = thread /\ owed' = owed
  BY <1>2, <1>3, <1>4, <1>5, <1>7 DEF AppendState, ghost
<1>9. states'[t] = h
  BY <1>1, <1>8 DEF Shape
<1>10. req'[q].pc = "modify" /\ req'[q].seen = req[q].seen
  BY <1>1, <1>8, GotoSame
<1>11. provider = "azure" => Distinct(s)
  BY <1>3, StoredState
<1>12. ASSUME Plain(t)'
       PROVE  Newest(h) = {x} /\ Plain(t)
  <2>1. provider = "sqlserver" => Distinct(h)
    BY <1>1, <1>9, <1>12 DEF Plain
  <2>2. Newest(h) = {x} /\ (provider = "sqlserver" => Distinct(s))
    BY <1>1, <1>3, <1>4, <1>6, <1>7, <1>11, <2>1, AppendedNewest DEF Shape
  <2> QED
    BY <1>3, <2>2 DEF Plain
<1>13. Newest(states[t])' = Newest(h)
  BY <1>1, <1>9, NewestNext
<1>14. TurnsKept(t)'
  <2> SUFFICES ASSUME Plain(t)', NEW n \in Newest(h)
               PROVE  owed[t] \subseteq Range(ValuesOf(n))
    BY <1>8, <1>13 DEF TurnsKept
  <2>1. owed[t] \subseteq Range(ValuesOf(req[q].seen))
    BY <1>3, <1>4, <1>12 DEF SerialInv, TurnsKept
  <2>2. ValuesOf(n) = MergedValues(q)
    BY <1>6, <1>12 DEF ValuesOf
  <2> QED
    BY <1>1, <2>1, <2>2, MergedRange
<1>15. Busy(q, t)'
  <2>1. Here(q)' = t
    BY <1>1, <1>2
  <2> QED
    BY <1>1, <1>10, <2>1 DEF Busy, InFlight, Calls
<1>16. InStep(t)'
  BY <1>15 DEF InStep
<1>17. ReadOK(q)'
  <2>1. MergedValues(q)' = MergedValues(q)
    BY <1>10 DEF MergedValues
  <2>2. Newest(states[req[q].thread])' = Newest(h) /\ (Plain(req[q].thread)' <=> Plain(t)')
    BY <1>1, <1>2, <1>13 DEF Plain
  <2>3. Plain(t)' => \A n \in Newest(h) : n # None /\ n.values = MergedValues(q)
    BY <1>6, <1>12
  <2> QED
    BY <1>1, <1>2, <1>4, <1>8, <1>10, <2>1, <2>2, <2>3 DEF ReadOK
<1>18. Here(q)' = t
  BY <1>1, <1>2
<1> QED
  BY <1>14, <1>16, <1>17, <1>18 DEF Fits
\* What is left of a thread whose delete was alone.
LEMMA DeletedWhole ==
    ASSUME ThreadInv, SerialInv, Serial, NEW q \in Requests,
           RemoveThread(q) \/ ListHistory(q) \/ Purge(q), req'[q].pc \in Ends,
           NEW t \in Threads, t = req[q].thread
    PROVE  thread'[t] = None /\ states'[t] = <<>>
<1>1. /\ Step(q) /\ Shape /\ PlaceOK(provider, req[q]) /\ req[q].with = {}
      /\ states \in [Threads -> Seq(States)] /\ thread \in [Threads -> Records \union {None}]
  BY RunsAlone DEF Step, Shape
<1>2. Undisturbed(q)
  BY <1>1 DEF Undisturbed
<1>3. CASE RemoveThread(q)
  <2>1. ~AzureRemove(q)
    <3> SUFFICES ASSUME AzureRemove(q)
                 PROVE  FALSE
      OBVIOUS
    <3>1. req' = [req EXCEPT ![q].pc = "list", ![q].found = thread[req[q].thread] # None]
      BY DEF AzureRemove
    <3>2. req'[q].pc = "list"
      BY <1>1, <3>1 DEF Shape, ReqStates
    <3> QED
      BY <3>2 DEF Ends
  <2> QED
    BY <1>1, <1>3, <2>1 DEF RemoveThread, RemoveAtOnce
<1>4. CASE ListHistory(q)
  <2>1. thread[t] = None
    BY <1>2, <1>4 DEF ListHistory, ThreadInv, GoneOK
  <2>2. states[t] = <<>>
    <3> SUFFICES ASSUME states[t] # <<>>
                 PROVE  FALSE
      OBVIOUS
    <3>1. req' = [req EXCEPT ![q].pc = "purge", ![q].todo = StampsByName(states[t])]
      BY <1>4 DEF ListHistory
    <3>2. req'[q].pc = "purge"
      BY <1>1, <3>1 DEF Shape, ReqStates
    <3> QED
      BY <3>2 DEF Ends
  <2> QED
    BY <1>1, <1>4, <2>1, <2>2 DEF ListHistory, store
<1>5. CASE Purge(q)
  <2>1. thread[t] = None /\ Listed(states[t], req[q].todo) /\ req[q].pc = "purge"
    BY <1>2, <1>5 DEF Purge, ThreadInv, GoneOK
  <2>2. Len(req[q].todo) = 1
    <3> SUFFICES ASSUME Len(req[q].todo) # 1
                 PROVE  FALSE
      OBVIOUS
    <3>1. PICK found : found = (req[q].found \/ Head(req[q].todo) \in Ats(states[req[q].thread]))
      OBVIOUS
    <3>2. req' = [req EXCEPT ![q].todo = Tail(@), ![q].found = found]
      BY <1>5, <3>1 DEF Purge
    <3>3. req'[q].pc = "purge"
      BY <1>1, <2>1, <3>2 DEF Shape, ReqStates
    <3> QED
      BY <3>3 DEF Ends
  <2>3. req[q].todo \in Seq(Int) /\ req[q].todo # <<>> /\ provider = "azure"
    BY <1>1, <2>1 DEF PlaceOK
  <2>4. PICK s \in Seq(States) : s = states[t]
    BY <1>1
  <2>5. PICK w : w = Without(s, Head(req[q].todo))
    OBVIOUS
  <2>6. Distinct(s)
    BY <2>3, <2>4, StoredState
  <2>7. w = <<>>
    BY <2>1, <2>2, <2>3, <2>4, <2>5, <2>6, ListedTail
  <2> QED
    BY <1>1, <1>5, <2>1, <2>4, <2>5, <2>7 DEF Purge
<1> QED
  BY <1>3, <1>4, <1>5

LEMMA DeleteFits ==
    ASSUME ThreadInv, SerialInv, Serial, NEW q \in Requests,
           RemoveThread(q) \/ ListHistory(q) \/ Purge(q)
    PROVE  Fits(q)'
<1>1. /\ Shape /\ Step(q) /\ PlaceOK(provider, req[q]) /\ Here(q)' = Here(q)
      /\ req'[q].pc \in Ends \union {"list", "purge"}
      /\ req[q].pc \in {"remove", "list", "purge"}
  BY RunsAlone, Landing DEF Step, RemoveThread, ListHistory, Purge
<1>2. Here(q) = req[q].thread
  BY <1>1 DEF PlaceOK, Here, Deletes
<1>3. PICK t \in Threads : t = req[q].thread
  BY <1>1, RunsAlone
<1>4. owed'[t] = {}
  <2>1. CASE RemoveThread(q)
    BY <1>1, <1>3, <2>1 DEF RemoveThread, Forget, Shape
  <2>2. CASE ListHistory(q) \/ Purge(q)
    <3>1. owed' = owed /\ req[q].pc \in {"list", "purge"}
      BY <2>2 DEF ListHistory, Purge
    <3> QED
      BY <1>3, <3>1 DEF ThreadInv, KeptOK
  <2> QED
    BY <2>1, <2>2
<1>5. TurnsKept(t)'
  BY <1>4 DEF TurnsKept
<1>6. InStep(t)'
  <2>1. CASE req'[q].pc \in {"list", "purge"}
    <3>1. Busy(q, t)'
      <4>1. Here(q)' = t
        BY <1>1, <1>2, <1>3
      <4> QED
        BY <2>1, <4>1 DEF Busy, InFlight, Calls
    <3> QED
      BY <3>1 DEF InStep
  <2>2. CASE req'[q].pc \in Ends
    BY <1>3, <2>2, DeletedWhole DEF InStep
  <2> QED
    BY <1>1, <2>1, <2>2
<1>7. ReadOK(q)'
  BY <1>1, EndsRead
<1>8. Here(q)' = t
  BY <1>1, <1>2, <1>3
<1> QED
  BY <1>5, <1>6, <1>7, <1>8 DEF Fits
\* A copy runs alone.
LEMMA CopiesAlone ==
    ASSUME ThreadInv, CopyInv, SerialInv, Serial, NEW q \in Requests, Step(q),
           req[q].op = "copy", NEW t, t = req[q].thread, NEW c, c = req[q].target
    PROVE  /\ Shape /\ Shape' /\ Moved(q) /\ UNCHANGED fixed
           /\ t \in Threads /\ c \in Threads /\ t # c /\ req[q].with = {}
           /\ req'[q].op = "copy" /\ req'[q].thread = t /\ req'[q].target = c
           /\ Here(q) = c /\ Here(q)' = c
           /\ thread'[t] = thread[t] /\ states'[t] = states[t]
           /\ owed' = owed /\ owed[c] = {}
           /\ ReadOK(q) /\ CopyOK(q) /\ PlaceOK(provider, req[q])
<1>1. /\ Shape /\ Shape' /\ Moved(q) /\ UNCHANGED fixed /\ req[q].with = {}
      /\ t \in Threads /\ c \in Threads /\ t # c /\ Here(q) = c /\ Here(q)' = Here(q)
      /\ ReadOK(q) /\ PlaceOK(provider, req[q])
  BY RunsAlone DEF Here
<1>2. req'[q].op = "copy" /\ req'[q].thread = t /\ req'[q].target = c
  BY <1>1 DEF Moved
<1>3. thread'[t] = thread[t] /\ states'[t] = states[t]
  BY <1>1, ElsewhereSame
<1>4. owed' = owed
  <2>1. \/ FindToCopy(q) \/ Copy(q) \/ CopyInsert(q) \/ CopyHistory(q)
        \/ CopyNext(q) \/ CopyUpload(q) \/ CallFails(q)
    BY CopyFacts
  <2> QED
    BY <2>1 DEF FindToCopy, Copy, CopyInsert, CopyHistory, CopyNext, CopyUpload, CallFails, ghost
<1>5. owed[c] = {}
  <2> SUFFICES ASSUME NEW e \in owed[c]
               PROVE  FALSE
    OBVIOUS
  <2>1. e \in Requests /\ req[e].thread = c
    BY <1>1 DEF ThreadInv, TalesOK, Shape
  <2>2. req[q].pc # "answered"
    BY <1>1 DEF Moved, InFlight, Calls
  <2> QED
    BY <2>1, <2>2 DEF ThreadInv, NamesOK
<1>6. CopyOK(q)
  BY DEF CopyInv
<1> QED
  BY <1>1, <1>2, <1>3, <1>4, <1>5, <1>6

LEMMA CopyFrame ==
    ASSUME ThreadInv, CopyInv, SerialInv, Serial, NEW q \in Requests, Step(q),
           req[q].op = "copy", NEW c, c = req[q].target,
           req'[q].pc \notin Calls => InStep(c)', ReadOK(q)'
    PROVE  Fits(q)'
<1>1. req'[q].op = "copy" /\ Here(q)' = c /\ owed' = owed /\ owed[c] = {}
  BY CopiesAlone
<1>2. TurnsKept(c)'
  BY <1>1 DEF TurnsKept
<1>3. InStep(c)'
  <2>1. CASE req'[q].pc \in Calls
    <3>1. Busy(q, c)'
      BY <1>1, <2>1 DEF Busy, InFlight
    <3> QED
      BY <3>1 DEF InStep
  <2> QED
    BY <2>1
<1> QED
  BY <1>1, <1>2, <1>3 DEF Fits

\* A history in the order of time has distinct times only if the history has.
LEMMA DistinctByTime ==
    ASSUME NEW T, NEW s \in Seq(T), Timed(s), NEW b, b = ByTime(s), Distinct(b)
    PROVE  Distinct(s)
<1>1. b \in Seq(T) /\ Len(b) = Len(s)
  BY ByTimeOrders
<1>2. PICK order : TimeOrder(Len(s), s, b, order)
  BY ByTimeOrders
<1>3. DOMAIN s = 1 .. Len(s) /\ DOMAIN b = 1 .. Len(s)
  BY <1>1
<1> SUFFICES ASSUME NEW i \in DOMAIN s, NEW j \in DOMAIN s, s[i].at = s[j].at
             PROVE  i = j
  BY DEF Distinct
<1>4. PICK k \in DOMAIN b : order[k] = i
  BY <1>2, <1>3 DEF TimeOrder
<1>5. PICK l \in DOMAIN b : order[l] = j
  BY <1>2, <1>3 DEF TimeOrder
<1>6. b[k] = s[i] /\ b[l] = s[j]
  BY <1>2, <1>3, <1>4, <1>5 DEF TimeOrder
<1>7. k = l
  BY <1>6 DEF Distinct
<1> QED
  BY <1>4, <1>5, <1>7

\* A copy that is answered has the newest state and the values of its source.
LEMMA CopyAnswers ==
    ASSUME ThreadInv, CopyInv, SerialInv, Serial, NEW q \in Requests, Step(q),
           req[q].op = "copy", req[q].pc \in {"copy", "copyHistory", "copyNext", "copyUpload"},
           NEW t, t = req[q].thread, NEW c, c = req[q].target,
           NEW h \in Seq(States), states'[c] = h, Copied(q, h),
           thread[t] # None, thread'[c] # None, thread'[c].values = thread[t].values,
           provider = "sqlserver" /\ Distinct(h) => Distinct(states[t])
    PROVE  Fits(q)'
<1>1. /\ Shape /\ provider' = provider /\ UNCHANGED fixed /\ t \in Threads /\ c \in Threads
      /\ t # c /\ req[q].with = {} /\ Here(q) = c /\ req'[q].op = "copy"
      /\ (faults' = 0 => faults = 0)
  BY CopiesAlone, RunsAlone DEF fixed
<1>2. /\ req'[q].pc = "answered"
      /\ req'[q].behind <=> (req[q].with = {} /\ Newest(h) # Newest(states[t]))
  <2>1. CallsOK
    BY DEF ThreadInv
  <2> QED
    BY <1>1, <2>1, CopiedMoves
<1>3. Newest(h) = Newest(states[t])
  <2>1. CopyInv'
    BY CopyStepKeeps
  <2>2. CopyOK(q)'
    BY <1>1, <2>1 DEF CopyInv
  <2>3. ~req'[q].behind
    BY <1>2, <2>2 DEF CopyOK
  <2> QED
    BY <1>1, <1>2, <2>3
<1>4. InStep(c)'
  <2> SUFFICES ASSUME faults' = 0, Plain(c)'
               PROVE  \A n \in Newest(states[c])' : thread'[c].values = ValuesOf(n)
    BY DEF InStep
  <2>1. Newest(states[c])' = Newest(h)
    BY <1>1, NewestNext
  <2>2. Plain(t)
    BY <1>1 DEF Plain
  <2>3. ~Busy(q, t)
    BY <1>1 DEF Busy
  <2>4. InStep(t)
    BY <1>1 DEF SerialInv
  <2>5. \A n \in Newest(states[t]) : thread[t].values = ValuesOf(n)
    BY <1>1, <2>2, <2>3, <2>4, BusyHere DEF InStep
  <2> QED
    BY <1>3, <2>1, <2>5
<1>5. ReadOK(q)'
  BY <1>2, EndsRead DEF Ends
<1> QED
  BY <1>4, <1>5, CopyFrame
LEMMA CopyBeginsFits ==
    ASSUME ThreadInv, CopyInv, SerialInv, Serial, NEW q \in Requests, FindToCopy(q) \/ Copy(q)
    PROVE  Fits(q)'
<1>1. Step(q) /\ req[q].pc \in {"find", "copy"} /\ faults' = faults
  BY DEF Step, FindToCopy, Copy
<1>2. req[q].op = "copy"
  BY <1>1, RunsAlone DEF FindToCopy, Copy, PlaceOK
<1>3. PICK t, c : t = req[q].thread /\ c = req[q].target
  OBVIOUS
<1>4. /\ Shape /\ provider' = provider /\ t \in Threads /\ c \in Threads
      /\ req'[q].op = "copy" /\ req'[q].thread = t /\ req'[q].target = c
      /\ thread'[t] = thread[t] /\ ReadOK(q) /\ CopyOK(q) /\ req \in [Requests -> ReqStates]
  BY <1>1, <1>2, <1>3, CopiesAlone DEF fixed, Shape
<1>5. thread[c] = None /\ states[c] = <<>>
  BY <1>1, <1>2, <1>3, <1>4 DEF ReadOK, CopyOK
<1>6. CASE /\ UNCHANGED store
           /\ req' = Goto(q, "failed") \/ (req' = Goto(q, "copy") /\ thread[t] # None)
  <2>1. thread' = thread /\ states' = states
    BY <1>6 DEF store
  <2>2. req'[q].pc = "failed" \/ (req'[q].pc = "copy" /\ thread[t] # None)
    BY <1>4, <1>6, GotoSame
  <2>3. InStep(c)'
    BY <1>5, <2>1 DEF InStep
  <2>4. ReadOK(q)'
    <3>1. CASE req'[q].pc = "failed"
      BY <3>1, EndsRead DEF Ends
    <3>2. CASE req'[q].pc = "copy"
      BY <1>4, <1>5, <2>1, <3>2 DEF ReadOK
    <3> QED
      BY <2>2, <3>1, <3>2
  <2> QED
    BY <1>1, <1>2, <1>3, <2>3, <2>4, CopyFrame
<1>7. CASE req[q].pc = "copy" /\ thread[t] # None /\ MemoryCopyThread(q)
  <2>1. PICK h \in Seq(States) : h = states[t]
    BY <1>4, StateTypes
  <2>2. /\ PutThread(c, thread[t]) /\ states' = [states EXCEPT ![c] = h] /\ Copied(q, h)
        /\ provider = "memory"
    BY <1>3, <1>7, <2>1 DEF MemoryCopyThread
  <2>3. thread[t] \in Records /\ states'[c] = h
    BY <1>4, <1>7, <2>2, SomeRecord DEF Shape
  <2>4. thread'[c] \in Records /\ thread'[c].values = thread[t].values
    BY <1>4, <2>2, <2>3, PutThreadShape
  <2>5. thread'[c] # None
    BY <2>4, NoneAssumption
  <2> QED
    BY <1>1, <1>2, <1>3, <1>7, <2>2, <2>3, <2>4, <2>5, CopyAnswers
<1>8. CASE req[q].pc = "copy" /\ thread[t] # None /\ CopyReads(q)
  <2>1. PICK call \in {"copyHistory", "copyInsert"} :
           call = IF provider = "sqlserver" THEN "copyHistory" ELSE "copyInsert"
    OBVIOUS
  <2>2. /\ req' = [req EXCEPT ![q].pc = call, ![q].old = thread[t]]
        /\ thread' = thread /\ states' = states
    BY <1>3, <1>8, <2>1 DEF CopyReads, store
  <2>3. req'[q].pc = call /\ req'[q].old = thread[t]
    BY <1>4, <2>2 DEF ReqStates
  <2>4. req'[q].pc \in Calls
    BY <2>3 DEF Calls
  <2>5. ReadOK(q)'
    <3>1. provider = "sqlserver" <=> req'[q].pc = "copyHistory"
      BY <2>1, <2>3
    <3> QED
      BY <1>4, <1>5, <1>8, <2>1, <2>2, <2>3, <3>1 DEF ReadOK
  <2> QED
    BY <1>1, <1>2, <1>3, <2>4, <2>5, CopyFrame
<1> QED
  BY <1>1, <1>3, <1>6, <1>7, <1>8 DEF FindToCopy, Copy, store

LEMMA CopyInsertFits ==
    ASSUME ThreadInv, CopyInv, SerialInv, Serial, NEW q \in Requests, CopyInsert(q)
    PROVE  Fits(q)'
<1>1. Step(q) /\ req[q].pc = "copyInsert"
  BY DEF Step, CopyInsert
<1>2. req[q].op = "copy" /\ provider \in {"sqlite", "azure"}
  BY <1>1, RunsAlone DEF PlaceOK
<1>3. PICK t, c : t = req[q].thread /\ c = req[q].target
  OBVIOUS
<1>4. /\ Shape /\ provider' = provider /\ t \in Threads /\ c \in Threads
      /\ req'[q].op = "copy" /\ req'[q].thread = t /\ req'[q].target = c
      /\ thread'[t] = thread[t] /\ ReadOK(q)
  BY <1>1, <1>2, <1>3, CopiesAlone DEF fixed
<1>5. thread[t] # None /\ req[q].old = thread[t]
  BY <1>1, <1>3, <1>4 DEF ReadOK
<1>6. PutThread(c, req[q].old) /\ req' = Goto(q, "copyHistory")
  BY <1>3 DEF CopyInsert
<1>7. req'[q].pc = "copyHistory" /\ req'[q].old = req[q].old
  BY <1>4, <1>6, GotoSame
<1>8. thread'[c] \in Records /\ thread'[c].values = req[q].old.values
  BY <1>4, <1>5, <1>6, SomeRecord, PutThreadShape
<1>9. ReadOK(q)'
  BY <1>2, <1>4, <1>5, <1>7, <1>8, NoneAssumption DEF ReadOK
<1>10. req'[q].pc \in Calls
  BY <1>7 DEF Calls
<1> QED
  BY <1>1, <1>2, <1>3, <1>9, <1>10, CopyFrame
LEMMA CopyHistoryFits ==
    ASSUME ThreadInv, CopyInv, SerialInv, Serial, NEW q \in Requests, CopyHistory(q)
    PROVE  Fits(q)'
<1>1. Step(q) /\ req[q].pc = "copyHistory"
  BY DEF Step, CopyHistory
<1>2. req[q].op = "copy"
  BY <1>1, RunsAlone DEF PlaceOK
<1>3. PICK t, c : t = req[q].thread /\ c = req[q].target
  OBVIOUS
<1>4. /\ Shape /\ provider' = provider /\ t \in Threads /\ c \in Threads
      /\ req'[q].op = "copy" /\ req'[q].thread = t /\ req'[q].target = c
      /\ thread'[t] = thread[t] /\ ReadOK(q) /\ CopyOK(q) /\ req \in [Requests -> ReqStates]
      /\ states \in [Threads -> Seq(States)]
  BY <1>1, <1>2, <1>3, CopiesAlone DEF fixed, Shape
<1>5. /\ thread[t] # None /\ req[q].old = thread[t] /\ states[c] = <<>>
      /\ provider # "sqlserver" => thread[c] # None /\ thread[c].values = thread[t].values
  BY <1>1, <1>2, <1>3, <1>4 DEF ReadOK, CopyOK
<1>6. PICK s \in Seq(States) : s = states[t] /\ Timed(s)
  BY <1>4, StateTypes
<1>7. PICK source : source = CopySource(s)
  OBVIOUS
<1>8. CASE provider = "sqlserver"
  <2>1. source \in Seq(States) /\ source = ByTime(s)
    BY <1>4, <1>6, <1>7, <1>8, CopySourceShape DEF Sql
  <2>2. /\ PutThread(c, thread[t]) /\ states' = [states EXCEPT ![c] = source]
        /\ Copied(q, source)
    BY <1>3, <1>5, <1>6, <1>7, <1>8 DEF CopyHistory, SqlServerCopyCommit
  <2>3. thread'[c] \in Records /\ thread'[c].values = thread[t].values
    BY <1>4, <1>5, <2>2, SomeRecord, PutThreadShape
  <2>4. thread'[c] # None /\ states'[c] = source
    BY <1>4, <2>2, <2>3, NoneAssumption
  <2>5. Distinct(source) => Distinct(states[t])
    BY <1>6, <2>1, DistinctByTime
  <2> QED
    BY <1>1, <1>2, <1>3, <1>5, <2>1, <2>2, <2>3, <2>4, <2>5, CopyAnswers
<1>9. CASE provider # "sqlserver"
  <2>1. /\ thread' = thread /\ states' = states
        /\ IF source = <<>> THEN Copied(q, <<>>)
           ELSE req' = [req EXCEPT ![q].pc = "copyNext", ![q].todo = source]
    BY <1>3, <1>6, <1>7, <1>9 DEF CopyHistory, store
  <2>2. CASE source = <<>>
    <3> DEFINE h == <<>>
    <3>1. h \in Seq(States)
      OBVIOUS
    <3> HIDE DEF h
    <3>2. Copied(q, h) /\ states'[c] = h
      BY <1>5, <2>1, <2>2 DEF h
    <3> QED
      BY <1>1, <1>2, <1>3, <1>5, <1>9, <2>1, <3>1, <3>2, CopyAnswers
  <2>3. CASE source # <<>>
    <3>1. req'[q].pc = "copyNext" /\ req'[q].old = req[q].old
      BY <1>4, <2>1, <2>3 DEF ReqStates
    <3>2. ReadOK(q)'
      BY <1>4, <1>5, <1>9, <2>1, <3>1 DEF ReadOK
    <3>3. req'[q].pc \in Calls
      BY <3>1 DEF Calls
    <3> QED
      BY <1>1, <1>2, <1>3, <3>2, <3>3, CopyFrame
  <2> QED
    BY <2>2, <2>3
<1> QED
  BY <1>8, <1>9

LEMMA CopyAdvancesFits ==
    ASSUME ThreadInv, CopyInv, SerialInv, Serial, NEW q \in Requests, Step(q),
           req[q].op = "copy", req[q].pc \in {"copyNext", "copyUpload"},
           NEW c, c = req[q].target, NEW g \in Seq(States), states'[c] = g, CopyAdvances(q, g),
           thread' = thread
    PROVE  Fits(q)'
<1>1. PICK t : t = req[q].thread
  OBVIOUS
<1>2. /\ Shape /\ UNCHANGED fixed /\ provider' = provider /\ t \in Threads
      /\ req'[q].op = "copy" /\ req'[q].thread = t /\ req'[q].target = c
      /\ ReadOK(q) /\ req \in [Requests -> ReqStates] /\ PlaceOK(provider, req[q])
  BY <1>1, CopiesAlone DEF fixed, Shape
<1>3. /\ thread[t] # None /\ req[q].old = thread[t] /\ thread[c] # None
      /\ thread[c].values = thread[t].values /\ provider # "sqlserver"
  BY <1>1, <1>2 DEF ReadOK, PlaceOK
<1>4. CASE Len(req[q].todo) = 1
  <2>1. Copied(q, g)
    BY <1>4 DEF CopyAdvances
  <2> QED
    BY <1>1, <1>3, <2>1, CopyAnswers
<1>5. CASE Len(req[q].todo) # 1
  <2>1. PICK rest : rest = Tail(req[q].todo)
    OBVIOUS
  <2>2. req' = [req EXCEPT ![q].pc = "copyNext", ![q].todo = rest, ![q].seen = None]
    BY <1>5, <2>1 DEF CopyAdvances
  <2>3. req'[q].pc = "copyNext" /\ req'[q].old = req[q].old
    BY <1>2, <2>2 DEF ReqStates
  <2>4. ReadOK(q)'
    BY <1>2, <1>3, <2>3 DEF ReadOK
  <2>5. req'[q].pc \in Calls
    BY <2>3 DEF Calls
  <2> QED
    BY <2>4, <2>5, CopyFrame
<1> QED
  BY <1>4, <1>5

LEMMA CopyMovesFits ==
    ASSUME ThreadInv, CopyInv, SerialInv, Serial, NEW q \in Requests,
           CopyNext(q) \/ CopyUpload(q)
    PROVE  Fits(q)'
<1>1. Step(q) /\ req[q].pc \in {"copyNext", "copyUpload"} /\ thread' = thread
  BY DEF Step, CopyNext, CopyUpload
<1>2. req[q].op = "copy"
  BY <1>1, RunsAlone DEF PlaceOK
<1>3. PICK t, c : t = req[q].thread /\ c = req[q].target
  OBVIOUS
<1>4. /\ Shape /\ t \in Threads /\ c \in Threads /\ provider' = provider
      /\ req'[q].op = "copy" /\ req'[q].thread = t /\ req'[q].target = c
      /\ ReadOK(q) /\ req \in [Requests -> ReqStates] /\ PlaceOK(provider, req[q])
      /\ states \in [Threads -> Seq(States)] /\ states' \in [Threads -> Seq(States)]
  BY <1>1, <1>2, <1>3, CopiesAlone DEF fixed, Shape
<1>5. PICK g \in Seq(States) : g = states'[c]
  BY <1>4
<1>6. CASE CopyAdvances(q, g)
  BY <1>1, <1>2, <1>3, <1>5, <1>6, CopyAdvancesFits
<1>7. CASE \E blob : req' = GotoWith(q, "copyUpload", blob)
  <2>1. PICK blob : req' = [req EXCEPT ![q].pc = "copyUpload", ![q].seen = blob]
    BY <1>7 DEF GotoWith
  <2>2. req'[q].pc = "copyUpload" /\ req'[q].old = req[q].old
    BY <1>4, <2>1 DEF ReqStates
  <2>3. /\ thread[t] # None /\ req[q].old = thread[t] /\ thread[c] # None
        /\ thread[c].values = thread[t].values
    BY <1>1, <1>3, <1>4 DEF ReadOK
  <2>4. ReadOK(q)'
    BY <1>1, <1>4, <2>2, <2>3 DEF ReadOK
  <2>5. req'[q].pc \in Calls
    BY <2>2 DEF Calls
  <2> QED
    BY <1>1, <1>2, <1>3, <2>4, <2>5, CopyFrame
<1>8. CASE CopyNext(q)
  <2>1. CASE SqliteCopyNext(q)
    <3>1. PICK h : h = Append(states[c], Head(req[q].todo))
      OBVIOUS
    <3>2. states' = [states EXCEPT ![c] = h] /\ CopyAdvances(q, h)
      BY <1>3, <2>1, <3>1 DEF SqliteCopyNext
    <3>3. h = g
      BY <1>4, <1>5, <3>2
    <3> QED
      BY <1>6, <3>2, <3>3
  <2>2. CASE AzureCopyNext(q)
    <3>1. states' = states
      BY <2>2 DEF AzureCopyNext
    <3>2. CopyAdvances(q, g) \/ \E blob : req' = GotoWith(q, "copyUpload", blob)
      BY <1>3, <1>5, <2>2, <3>1 DEF AzureCopyNext
    <3> QED
      BY <1>6, <1>7, <3>2
  <2> QED
    BY <1>8, <2>1, <2>2 DEF CopyNext
<1>9. CASE CopyUpload(q)
  <2>1. PICK h : h = AzureAddState(states[c], req[q].seen)
    OBVIOUS
  <2>2. states' = [states EXCEPT ![c] = h] /\ CopyAdvances(q, h)
    BY <1>3, <1>9, <2>1 DEF CopyUpload
  <2>3. h = g
    BY <1>4, <1>5, <2>2
  <2> QED
    BY <1>6, <2>2, <2>3
<1> QED
  BY <1>8, <1>9
LEMMA SerialStepKeeps ==
    ASSUME ThreadInv, CopyInv, SerialInv, NEW q \in Requests, Step(q) \/ CallFails(q)
    PROVE  SerialInv'
<1>1. UNCHANGED fixed
  BY StepMoves DEF Moved
<1> SUFFICES ASSUME Serial
             PROVE  SerialInv'
  BY <1>1 DEF SerialInv, Serial, fixed
<1>2. Fits(q)'
  BY FailFits, FindFits, InsertFits, ModifyFits, WriteFits, FindToEditFits, ReadNewestFits,
     DownloadNewestFits, AppendStateFits, DeleteFits, CopyBeginsFits, CopyInsertFits,
     CopyHistoryFits, CopyMovesFits DEF Step
<1> QED
  BY <1>2, SerialFrame

LEMMA SerialBeginKeeps ==
    ASSUME ThreadInv, SerialInv, NEW q \in Requests, NEW op \in Ops, NEW t \in Threads,
           Begin(q, op, t)
    PROVE  SerialInv'
<1>1. /\ req' \in [Requests -> ReqStates] /\ Begun(q, op, t)
      /\ \A p \in Requests : p # q => Told(p, q, t)
      /\ UNCHANGED <<fixed, now, faults, store, owed, born>> /\ (Serial => Idle)
  BY BeginFacts
<1>2. /\ provider' = provider /\ now' = now /\ faults' = faults /\ thread' = thread
      /\ states' = states /\ owed' = owed /\ (Serial' <=> Serial)
  BY <1>1 DEF fixed, store, Serial
<1> SUFFICES ASSUME Serial
             PROVE  SerialInv'
  BY <1>2 DEF SerialInv
<1>3. \A p \in Requests : ~InFlight(p)
  BY <1>1 DEF Idle
<1>4. now \in Int /\ 0 <= now
  BY DEF ThreadInv, Shape, Times
<1>5. \A p \in Requests : req'[p].with = {} /\ req'[p].at <= now'
  <2> SUFFICES ASSUME NEW p \in Requests
               PROVE  req'[p].with = {} /\ req'[p].at <= now
    BY <1>2
  <2>1. CASE p = q
    BY <1>1, <1>3, <1>4, <2>1 DEF Begun
  <2>2. CASE p # q
    BY <1>1, <1>3, <2>2 DEF Told, SerialInv
  <2> QED
    BY <2>1, <2>2
<1>6. \A c \in CopyIds \ Minted : thread[c] = None
  BY DEF SerialInv
<1>7. \A c \in CopyIds \ Minted' : thread'[c] = None
  <2>1. req[q].target = None
    BY <1>1 DEF Begun, ThreadInv, CallsOK, PlaceOK, NoRequest
  <2>2. \A m \in Minted : m = None \/ m \in Minted'
    BY <1>1, <2>1 DEF Minted, Told
  <2> QED
    BY <1>2, <1>6, <2>2, ConstantsAssumption
<1>8. ASSUME NEW p \in Requests
      PROVE  ReadOK(p)'
  <2>1. CASE p = q
    <3>1. req'[q].pc \in {"find", "remove"} /\ (req'[q].op = "copy" => req'[q].target \in CopyIds \ Minted)
      BY <1>1 DEF Begun
    <3> QED
      BY <1>2, <1>6, <2>1, <3>1 DEF ReadOK
  <2>2. CASE p # q
    <3>1. ~InFlight(p)'
      BY <1>1, <1>3, <2>2 DEF Told, InFlight
    <3> QED
      BY <3>1 DEF ReadOK, InFlight, Calls
  <2> QED
    BY <2>1, <2>2
<1>9. ASSUME NEW u \in Threads
      PROVE  TurnsKept(u)' /\ InStep(u)'
  <2>1. PICK s : s = states[u]
    OBVIOUS
  <2>2. Newest(states[u])' = Newest(s) /\ (Plain(u)' <=> Plain(u))
    BY <1>2, <2>1, NewestNext DEF Plain
  <2>3. TurnsKept(u) /\ InStep(u) /\ \A p \in Requests : ~Busy(p, u)
    BY <1>3 DEF SerialInv, Busy
  <2>4. TurnsKept(u)'
    BY <1>2, <2>1, <2>2, <2>3 DEF TurnsKept
  <2>5. InStep(u)'
    BY <1>2, <2>1, <2>2, <2>3 DEF InStep
  <2> QED
    BY <2>4, <2>5
<1> QED
  BY <1>5, <1>7, <1>8, <1>9 DEF SerialInv

LEMMA SerialStillKeeps ==
    ASSUME ThreadInv, SerialInv, now' \in Nat, now <= now',
           UNCHANGED <<fixed, faults, store, req, ghost>>
    PROVE  SerialInv'
<1>1. /\ provider' = provider /\ faults' = faults /\ thread' = thread /\ states' = states
      /\ req' = req /\ owed' = owed /\ (Serial' <=> Serial)
  BY DEF fixed, store, ghost, Serial
<1> SUFFICES ASSUME Serial
             PROVE  SerialInv'
  BY <1>1 DEF SerialInv
<1>2. \A p \in Requests : req'[p].with = {} /\ req'[p].at <= now'
  <2> SUFFICES ASSUME NEW p \in Requests
               PROVE  req[p].with = {} /\ req[p].at <= now'
    BY <1>1
  <2>1. req[p].at \in Int /\ now \in Int
    BY DEF ThreadInv, Shape, ReqStates, Times
  <2> QED
    BY <2>1 DEF SerialInv
<1>3. \A c \in CopyIds \ Minted' : thread'[c] = None
  BY <1>1 DEF SerialInv, Minted
<1>4. ASSUME NEW p \in Requests
      PROVE  ReadOK(p)'
  <2>1. ReadOK(p)
    BY DEF SerialInv
  <2> QED
    BY <1>1, <2>1 DEF ReadOK, Plain, MergedValues, Newest
<1>5. ASSUME NEW u \in Threads
      PROVE  TurnsKept(u)' /\ InStep(u)'
  <2>1. TurnsKept(u) /\ InStep(u)
    BY DEF SerialInv
  <2>2. TurnsKept(u)'
    BY <1>1, <2>1 DEF TurnsKept, Plain, Newest
  <2>3. InStep(u)'
    BY <1>1, <2>1 DEF InStep, Plain, Newest, Busy, InFlight, Here
  <2> QED
    BY <2>2, <2>3
<1> QED
  BY <1>2, <1>3, <1>4, <1>5 DEF SerialInv

LEMMA SerialInitHolds == Init => SerialInv
<1> SUFFICES ASSUME Init
             PROVE  SerialInv
  OBVIOUS
<1>1. \A q \in Requests : /\ req[q].pc = "idle" /\ req[q].op = "none"
                          /\ req[q].with = {} /\ req[q].at = 0
  BY DEF Init, NoRequest
<1>2. \A q \in Requests : req[q].with = {} /\ req[q].at <= now
  BY <1>1 DEF Init
<1>3. \A c \in CopyIds : thread[c] = None
  BY DEF Init
<1>4. \A q \in Requests : ReadOK(q)
  BY <1>1 DEF ReadOK
<1>5. ASSUME NEW t \in Threads
      PROVE  TurnsKept(t) /\ InStep(t)
  <2>1. states[t] = <<>> /\ owed[t] = {}
    BY DEF Init
  <2>2. Newest(states[t]) = {None}
    BY <2>1 DEF Newest
  <2>3. thread[t] = None \/ thread[t].values = <<>>
    BY DEF Init
  <2> QED
    BY <2>1, <2>2, <2>3 DEF TurnsKept, InStep, ValuesOf
<1> QED
  BY <1>2, <1>3, <1>4, <1>5 DEF SerialInv

LEMMA KeepsConversation ==
    ASSUME ThreadInv, SerialInv
    PROVE  ConversationKept
<1> SUFFICES ASSUME Serial, NEW t \in Threads, provider = "sqlserver" => Distinct(states[t]),
                    NEW n \in Newest(states[t])
             PROVE  /\ n # None => owed[t] \subseteq Range(n.values)
                    /\ n = None => owed[t] = {}
                    /\ Idle /\ faults = 0 /\ thread[t] # None
                           => thread[t].values = IF n = None THEN <<>> ELSE n.values
  BY DEF ConversationKept
<1>1. TurnsKept(t) /\ InStep(t) /\ Plain(t)
  BY DEF SerialInv, Plain
<1>2. owed[t] \subseteq Range(ValuesOf(n))
  BY <1>1 DEF TurnsKept
<1>3. Range(<<>>) = {}
  <2>1. PICK none : none = <<>>
    OBVIOUS
  <2>2. DOMAIN none = {}
    BY <2>1
  <2> QED
    BY <2>1, <2>2 DEF Range
<1>4. Idle /\ faults = 0 /\ thread[t] # None => thread[t].values = ValuesOf(n)
  <2> SUFFICES ASSUME Idle, faults = 0, thread[t] # None
               PROVE  thread[t].values = ValuesOf(n)
    OBVIOUS
  <2>1. \A q \in Requests : ~Busy(q, t)
    BY DEF Idle, Busy
  <2> QED
    BY <1>1, <2>1 DEF InStep
<1> QED
  BY <1>2, <1>3, <1>4 DEF ValuesOf

LEMMA SerialInvariant == Spec => []SerialInv
<1>1. ThreadInv /\ CopyInv /\ SerialInv /\ [Next]_vars => SerialInv'
  <2> SUFFICES ASSUME ThreadInv, CopyInv, SerialInv, [Next]_vars
               PROVE  SerialInv'
    OBVIOUS
  <2>1. now \in Nat
    BY DEF ThreadInv, Shape, Times
  <2>2. CASE Tick
    BY <2>1, <2>2, SerialStillKeeps DEF Tick
  <2>3. CASE UNCHANGED vars
    BY <2>1, <2>3, SerialStillKeeps DEF vars
  <2>4. CASE \E q \in Requests : \E op \in Ops, t \in Threads : Begin(q, op, t)
    BY <2>4, SerialBeginKeeps
  <2>5. CASE \E q \in Requests : Step(q) \/ CallFails(q)
    BY <2>5, SerialStepKeeps
  <2> QED
    BY <2>2, <2>3, <2>4, <2>5 DEF Next
<1> QED
  BY <1>1, SerialInitHolds, ThreadsInvariant, CopiesInvariant, PTL DEF Spec

(* For a client that makes one call at a time: the newest state of a       *)
(* thread holds the messages of every answered edit, and is what the       *)
(* thread's record shows (threads.service.ts, updateState and getState).   *)
THEOREM ConversationKeptCorrect == Spec => []ConversationKept
BY SerialInvariant, KeepsConversation, ThreadsInvariant, PTL


-----------------------------------------------------------------------------
(***************************************************************************)
(* Pages of a history.  What is filtered, cut and turned around is         *)
(* followed by its elements and by the order of their times: of distinct   *)
(* times, these tell the sequence.                                         *)
(***************************************************************************)
Ascends(s)  == \A i, j \in DOMAIN s : i < j => s[i].at < s[j].at
Descends(s) == \A i, j \in DOMAIN s : i < j => s[j].at < s[i].at

\* Every element of l is one of s.
Within(l, s) == \A i \in DOMAIN l : \E k \in DOMAIN s : l[i] = s[k]

\* What l lacks of s is older than all it has; it lacks nothing of n or less.
Newer(l, s, n) ==
    \A k \in DOMAIN s : \/ \E i \in DOMAIN l : l[i] = s[k]
                        \/ Len(s) > n /\ \A i \in DOMAIN l : s[k].at < l[i].at

LEMMA PickedKeeps ==
    ASSUME NEW T, NEW s \in Seq(T), NEW I \in SUBSET DOMAIN s, NEW l, l = Picked(s, I)
    PROVE  /\ l \in Seq(T)
           /\ \A i \in DOMAIN l : \E k \in I : l[i] = s[k]
           /\ \A k \in I : \E i \in DOMAIN l : l[i] = s[k]
           /\ Ascends(s) => Ascends(l)
           /\ Descends(s) => Descends(l)
           /\ Len(l) <= Len(s)
<1>1. PICK n \in Nat : n = Len(s) /\ DOMAIN s = 1 .. n
  OBVIOUS
<1>2. IsFiniteSet(1 .. n) /\ Cardinality(1 .. n) = n
  BY NumbersFinite
<1>3. IsFiniteSet(I) /\ Cardinality(I) \in Nat /\ Cardinality(I) <= n
  BY <1>1, <1>2, FS_Subset, FS_CardinalityType
<1>4. PICK R : R = {p \in I \X I : p[1] < p[2]}
  OBVIOUS
<1>5. \A a, b \in I : <<a, b>> \in R <=> a < b
  BY <1>4
<1>6. \A a \in I : a \in Int
  BY <1>1
<1>7. IsOrder(I, R)
  BY <1>5, <1>6 DEF IsOrder
<1>8. PICK p : p = InOrder(I, R)
  OBVIOUS
<1>9. /\ p \in Seq(I) /\ Len(p) = Cardinality(I)
      /\ \A i, j \in DOMAIN p : i < j => <<p[i], p[j]>> \in R
      /\ \A x \in I : \E i \in DOMAIN p : p[i] = x
  BY <1>3, <1>7, <1>8, InOrderSorts
<1>10. PICK m \in Nat : m = Cardinality(I)
  BY <1>3
<1>11. l = [i \in 1 .. m |-> s[p[i]]]
  BY <1>4, <1>8, <1>10 DEF Picked
<1>12. DOMAIN p = 1 .. m /\ DOMAIN l = 1 .. m /\ \A i \in 1 .. m : p[i] \in I /\ l[i] = s[p[i]]
  BY <1>9, <1>10, <1>11
<1>13. \A k \in I : s[k] \in T
  BY <1>1
<1>14. l \in Seq(T) /\ Len(l) = m
  BY <1>11, <1>12, <1>13
<1>15. \A i, j \in 1 .. m : i < j => p[i] < p[j]
  BY <1>5, <1>9, <1>12
<1>16. \A i \in 1 .. m : p[i] \in DOMAIN s
  BY <1>12
<1>17. Ascends(s) => Ascends(l)
  BY <1>12, <1>15, <1>16 DEF Ascends
<1>18. Descends(s) => Descends(l)
  BY <1>12, <1>15, <1>16 DEF Descends
<1> QED
  BY <1>1, <1>3, <1>9, <1>10, <1>12, <1>14, <1>17, <1>18

LEMMA ReverseTurns ==
    ASSUME NEW T, NEW s \in Seq(T), NEW r, r = Reverse(s)
    PROVE  /\ r \in Seq(T) /\ Len(r) = Len(s)
           /\ Within(r, s) /\ Within(s, r)
           /\ Ascends(s) => Descends(r)
<1>1. PICK n \in Nat : n = Len(s) /\ DOMAIN s = 1 .. n
  OBVIOUS
<1>2. r = [i \in 1 .. n |-> s[(n - i) + 1]]
  BY <1>1 DEF Reverse
<1>3. \A i \in 1 .. n : (n - i) + 1 \in 1 .. n /\ (n - ((n - i) + 1)) + 1 = i
  BY <1>1
<1>4. r \in Seq(T) /\ Len(r) = n /\ DOMAIN r = 1 .. n
  BY <1>1, <1>2, <1>3
<1>5. \A i \in 1 .. n : r[i] = s[(n - i) + 1]
  BY <1>2
<1>6. \A k \in 1 .. n : r[(n - k) + 1] = s[k]
  BY <1>3, <1>5
<1>7. \A i, j \in 1 .. n : i < j => (n - j) + 1 < (n - i) + 1
  BY <1>1
<1>8. Ascends(s) => Descends(r)
  <2> SUFFICES ASSUME Ascends(s), NEW i \in 1 .. n, NEW j \in 1 .. n, i < j
               PROVE  r[j].at < r[i].at
    BY <1>4 DEF Descends
  <2>1. PICK a \in 1 .. n : a = (n - j) + 1
    BY <1>3
  <2>2. PICK b \in 1 .. n : b = (n - i) + 1
    BY <1>3
  <2>3. a < b /\ r[j] = s[a] /\ r[i] = s[b]
    BY <1>5, <1>7, <2>1, <2>2
  <2> QED
    BY <1>1, <2>3 DEF Ascends
<1>9. Within(r, s) /\ Within(s, r)
  BY <1>1, <1>3, <1>4, <1>5, <1>6 DEF Within
<1> QED
  BY <1>1, <1>4, <1>8, <1>9

LEMMA LastOfTop ==
    ASSUME NEW T, NEW s \in Seq(T), Ascends(s), NEW n \in Nat, NEW l, l = LastOf(s, n)
    PROVE  /\ l \in Seq(T) /\ Ascends(l)
           /\ Within(l, s) /\ Newer(l, s, n)
           /\ n # 0 /\ s # <<>> => l # <<>>
<1>1. PICK m \in Nat : m = Len(s) /\ DOMAIN s = 1 .. m
  OBVIOUS
<1>2. /\ l \in Seq(T) /\ Len(l) = IF Len(s) <= n THEN Len(s) ELSE n
      /\ \A i \in 1 .. Len(l) : l[i] = s[Len(s) - Len(l) + i]
  BY LastOfKeeps
<1>3. PICK q \in Nat : q = Len(l) /\ DOMAIN l = 1 .. q
  BY <1>2
<1>4. q <= m /\ (q = m \/ (q = n /\ m > n))
  BY <1>1, <1>2, <1>3
<1>5. \A i \in 1 .. q : (m - q) + i \in 1 .. m /\ l[i] = s[(m - q) + i]
  <2>1. \A i \in 1 .. q : (m - q) + i \in 1 .. m
    BY <1>4
  <2> QED
    BY <1>1, <1>2, <1>3, <2>1
<1>6. Ascends(l)
  <2> SUFFICES ASSUME NEW i \in 1 .. q, NEW j \in 1 .. q, i < j
               PROVE  l[i].at < l[j].at
    BY <1>3 DEF Ascends
  <2>1. PICK a \in 1 .. m : a = (m - q) + i /\ l[i] = s[a]
    BY <1>5
  <2>2. PICK b \in 1 .. m : b = (m - q) + j /\ l[j] = s[b]
    BY <1>5
  <2>3. a < b
    BY <1>1, <1>3, <2>1, <2>2
  <2> QED
    BY <1>1, <2>1, <2>2, <2>3 DEF Ascends
<1>7. ASSUME NEW k \in 1 .. m
      PROVE  \/ \E i \in 1 .. q : l[i] = s[k]
             \/ m > n /\ \A i \in 1 .. q : s[k].at < l[i].at
  <2>1. CASE k > m - q
    <3>1. k - (m - q) \in 1 .. q /\ (m - q) + (k - (m - q)) = k
      BY <1>1, <1>3, <1>4, <2>1
    <3> QED
      BY <1>5, <3>1
  <2>2. CASE ~(k > m - q)
    <3>1. m > n
      BY <1>1, <1>3, <1>4, <2>2
    <3>2. \A i \in 1 .. q : k < (m - q) + i
      BY <1>1, <1>3, <2>2
    <3> QED
      BY <1>1, <1>5, <3>1, <3>2 DEF Ascends
  <2> QED
    BY <2>1, <2>2
<1>8. n # 0 /\ s # <<>> => l # <<>>
  <2>1. s # <<>> => m # 0
    BY <1>1
  <2>2. q # 0 => l # <<>>
    BY <1>3
  <2> QED
    BY <1>4, <2>1, <2>2
<1>9. Within(l, s)
  BY <1>1, <1>3, <1>5 DEF Within
<1>10. Newer(l, s, n)
  BY <1>1, <1>3, <1>7 DEF Newer
<1> QED
  BY <1>2, <1>6, <1>8, <1>9, <1>10

\* A set of numbers has a least one.
LEMMA LeastElement ==
    ASSUME NEW S \in SUBSET Nat, S # {}
    PROVE  \E m \in S : \A n \in S : m <= n
<1>1. PICK m \in S : \A n \in S : <<n, m>> \notin OpToRel(<, Nat)
  BY NatLessThanWellFounded, WFMin
<1>2. ASSUME NEW n \in S PROVE m <= n
  <2>1. ~(n < m)
    BY <1>1 DEF OpToRel
  <2> QED
    BY <2>1
<1> QED
  BY <1>2

\* Two sequences with falling times and the same elements are one.
LEMMA SameElements ==
    ASSUME NEW T, NEW a \in Seq(T), NEW b \in Seq(T), Timed(a), Timed(b),
           Descends(a), Descends(b),
           \A i \in DOMAIN a : \E k \in DOMAIN b : a[i] = b[k],
           \A i \in DOMAIN b : \E k \in DOMAIN a : b[i] = a[k]
    PROVE  a = b
<1>1. PICK n \in Nat : n = Len(a) /\ DOMAIN a = 1 .. n
  OBVIOUS
<1>2. PICK m \in Nat : m = Len(b) /\ DOMAIN b = 1 .. m
  OBVIOUS
<1>3. /\ \A i \in 1 .. n : a[i].at \in Int
      /\ \A i \in 1 .. m : b[i].at \in Int
  BY <1>1, <1>2 DEF Timed
<1>0. PICK Bad : Bad = {i \in Nat : i \in (1 .. n) \union (1 .. m)
                                    /\ ~(i \in 1 .. n /\ i \in 1 .. m /\ a[i] = b[i])}
  OBVIOUS
<1>4. Bad = {}
  <2> SUFFICES ASSUME Bad # {}
               PROVE  FALSE
    OBVIOUS
  <2>1. PICK d \in Bad : \A i \in Bad : d <= i
    <3>1. Bad \in SUBSET Nat
      BY <1>0
    <3> QED
      BY <3>1, LeastElement
  <2>2. d \in Nat /\ d \in (1 .. n) \union (1 .. m)
    BY <1>0
  <2>3. ASSUME NEW k \in (1 .. n) \union (1 .. m), k < d
        PROVE  k \in 1 .. n /\ k \in 1 .. m /\ a[k] = b[k]
    <3>1. k \in Nat /\ ~(d <= k)
      BY <2>2, <2>3
    <3> QED
      BY <1>0, <2>1, <2>3, <3>1
  <2>4. ASSUME NEW k \in 1 .. m, d \in 1 .. n, a[d] = b[k]
        PROVE  ~(k < d)
    <3> SUFFICES ASSUME k < d
                 PROVE  FALSE
      OBVIOUS
    <3>1. k \in 1 .. n /\ a[k] = b[k]
      BY <2>3
    <3>2. a[d].at < a[k].at
      BY <1>1, <2>4, <3>1 DEF Descends
    <3> QED
      BY <1>3, <2>4, <3>1, <3>2
  <2>5. ASSUME NEW k \in 1 .. n, d \in 1 .. m, b[d] = a[k]
        PROVE  ~(k < d)
    <3> SUFFICES ASSUME k < d
                 PROVE  FALSE
      OBVIOUS
    <3>1. k \in 1 .. m /\ a[k] = b[k]
      BY <2>3
    <3>2. b[d].at < b[k].at
      BY <1>2, <2>5, <3>1 DEF Descends
    <3> QED
      BY <1>3, <2>5, <3>1, <3>2
  <2>6. d \in 1 .. n => d \in 1 .. m
    <3> SUFFICES ASSUME d \in 1 .. n
                 PROVE  d \in 1 .. m
      OBVIOUS
    <3>1. PICK k \in 1 .. m : a[d] = b[k]
      BY <1>1, <1>2
    <3>2. ~(k < d)
      BY <2>4, <3>1
    <3> QED
      BY <1>2, <3>2
  <2>7. d \in 1 .. m => d \in 1 .. n
    <3> SUFFICES ASSUME d \in 1 .. m
                 PROVE  d \in 1 .. n
      OBVIOUS
    <3>1. PICK k \in 1 .. n : b[d] = a[k]
      BY <1>1, <1>2
    <3>2. ~(k < d)
      BY <2>5, <3>1
    <3> QED
      BY <1>1, <3>2
  <2>8. d \in 1 .. n /\ d \in 1 .. m
    BY <2>2, <2>6, <2>7
  <2>9. PICK k \in 1 .. m : a[d] = b[k]
    BY <1>1, <1>2, <2>8
  <2>10. PICK l \in 1 .. n : b[d] = a[l]
    BY <1>1, <1>2, <2>8
  <2>11. ~(k < d) /\ ~(l < d)
    BY <2>4, <2>5, <2>8, <2>9, <2>10
  <2>12. k # d => b[k].at < b[d].at
    <3>1. k # d => d < k
      BY <1>2, <2>8, <2>11
    <3> QED
      BY <1>2, <2>8, <3>1 DEF Descends
  <2>13. l # d => a[l].at < a[d].at
    <3>1. l # d => d < l
      BY <1>1, <2>8, <2>11
    <3> QED
      BY <1>1, <2>8, <3>1 DEF Descends
  <2>14. k = d
    <3>1. a[d].at = b[k].at /\ b[d].at = a[l].at
      BY <2>9, <2>10
    <3>2. l = d => a[l].at = a[d].at
      OBVIOUS
    <3>3. a[d].at \in Int /\ b[d].at \in Int
      BY <1>3, <2>8
    <3> QED
      BY <2>12, <2>13, <3>1, <3>2, <3>3
  <2>15. a[d] = b[d]
    BY <2>9, <2>14
  <2> QED
    BY <1>0, <2>8, <2>15
<1>5. \A i \in (1 .. n) \union (1 .. m) : i \in 1 .. n /\ i \in 1 .. m /\ a[i] = b[i]
  <2> SUFFICES ASSUME NEW i \in (1 .. n) \union (1 .. m)
               PROVE  i \in 1 .. n /\ i \in 1 .. m /\ a[i] = b[i]
    OBVIOUS
  <2>1. i \in Nat /\ i \notin Bad
    BY <1>4
  <2> QED
    BY <1>0, <2>1
<1>6. n = m
  <2>1. n # 0 => n \in 1 .. n
    BY <1>1
  <2>2. m # 0 => m \in 1 .. m
    BY <1>2
  <2>3. n # 0 => n \in 1 .. m
    BY <1>5, <2>1
  <2>4. m # 0 => m \in 1 .. n
    BY <1>5, <2>2
  <2> QED
    BY <1>1, <1>2, <2>3, <2>4
<1>7. a \in [1 .. n -> T] /\ b \in [1 .. n -> T]
  BY <1>1, <1>2, <1>6
<1>8. \A i \in 1 .. n : a[i] = b[i]
  BY <1>5
<1> QED
  BY <1>7, <1>8

(* The history s of distinct times in their order: as it is stored in      *)
(* memory, by time elsewhere.                                              *)
Chronicle(s) == IF provider = "memory" THEN s ELSE ByTime(s)

\* A history from which pages can be read.
Paged(s) ==
    /\ s \in Seq(States) /\ Distinct(s) /\ provider \in Providers
    /\ provider = "memory" => Ascends(s)

LEMMA PagedTimed ==
    ASSUME NEW s \in Seq(States)
    PROVE  Timed(s)
<1>1. \A x \in States : x.at \in Int
  BY ConstantsAssumption DEF States, Times
<1>2. \A i \in DOMAIN s : s[i] \in States
  OBVIOUS
<1> QED
  BY <1>1, <1>2 DEF Timed

LEMMA ChronicleAscends ==
    ASSUME NEW s, Paged(s), NEW c, c = Chronicle(s)
    PROVE  /\ c \in Seq(States) /\ Len(c) = Len(s) /\ Ascends(c)
           /\ \A i \in DOMAIN c : \E j \in DOMAIN s : c[i] = s[j]
           /\ \A j \in DOMAIN s : \E i \in DOMAIN c : c[i] = s[j]
<1>1. s \in Seq(States) /\ Distinct(s)
  BY DEF Paged
<1>2. CASE provider = "memory"
  BY <1>1, <1>2 DEF Paged, Chronicle
<1>3. CASE provider # "memory"
  <2>1. c = ByTime(s) /\ Timed(s)
    BY <1>1, <1>3, PagedTimed DEF Chronicle
  <2>2. /\ c \in Seq(States) /\ Len(c) = Len(s)
        /\ \A i \in DOMAIN c : \E j \in DOMAIN s : c[i] = s[j]
        /\ \A j \in DOMAIN s : \E i \in DOMAIN c : c[i] = s[j]
    BY <1>1, <2>1, ByTimeKeeps
  <2>3. PICK order : TimeOrder(Len(s), s, c, order)
    BY <1>1, <2>1, ByTimeOrders
  <2>4. PICK n \in Nat : n = Len(s) /\ DOMAIN s = 1 .. n /\ DOMAIN c = 1 .. n
    BY <1>1, <2>2
  <2>5. \A i \in 1 .. n : order[i] \in 1 .. n /\ c[i] = s[order[i]]
    BY <2>3, <2>4 DEF TimeOrder
  <2>6. ASSUME NEW i \in 1 .. n, NEW j \in 1 .. n, i < j
        PROVE  c[i].at < c[j].at
    <3>1. \/ s[order[i]].at < s[order[j]].at
          \/ s[order[i]].at = s[order[j]].at /\ order[i] < order[j]
      BY <2>3, <2>4, <2>6 DEF TimeOrder
    <3>2. s[order[i]].at = s[order[j]].at => order[i] = order[j]
      BY <1>1, <2>4, <2>5 DEF Distinct
    <3>3. ~(order[i] = order[j] /\ order[i] < order[j])
      BY <2>5
    <3> QED
      BY <2>5, <3>1, <3>2, <3>3
  <2>7. Ascends(c)
    BY <2>4, <2>6 DEF Ascends
  <2> QED
    BY <2>2, <2>7
<1> QED
  BY <1>2, <1>3

\* Those of the history s that a page may have.
Eligible(x, before, fits) == x.at < before /\ x.by \in fits

(* A page has wanted states only, the newest first; a wanted state it      *)
(* lacks is older than all it has, and there is none if the limit allows   *)
(* for the whole history.                                                  *)
IsPage(page, s, limit, before, fits) ==
    /\ page \in Seq(States) /\ Descends(page)
    /\ \A i \in DOMAIN page : \E j \in DOMAIN s : page[i] = s[j] /\ Eligible(s[j], before, fits)
    /\ \A j \in DOMAIN s : Eligible(s[j], before, fits) =>
          \/ \E i \in DOMAIN page : page[i] = s[j]
          \/ Len(s) > limit /\ \A i \in DOMAIN page : s[j].at < page[i].at

LEMMA FilteredPage ==
    ASSUME NEW s, Paged(s), NEW c, c = Chronicle(s), NEW limit \in Nat \ {0}, NEW before, NEW fits,
           NEW page,
           page = Reverse(LastOf(Picked(c, Before(c, before) \intersect Fitting(c, fits)), limit))
    PROVE  /\ IsPage(page, s, limit, before, fits)
           /\ page = <<>> => \A j \in DOMAIN s : ~Eligible(s[j], before, fits)
<1>1. /\ c \in Seq(States) /\ Len(c) = Len(s) /\ Ascends(c)
      /\ \A i \in DOMAIN c : \E j \in DOMAIN s : c[i] = s[j]
      /\ \A j \in DOMAIN s : \E i \in DOMAIN c : c[i] = s[j]
  BY ChronicleAscends
<1>2. PICK I : I = Before(c, before) \intersect Fitting(c, fits)
  OBVIOUS
<1>3. I \in SUBSET DOMAIN c /\ \A i \in DOMAIN c : i \in I <=> Eligible(c[i], before, fits)
  BY <1>2 DEF Before, Fitting, Eligible
<1>4. PICK l : l = Picked(c, I)
  OBVIOUS
<1>5. /\ l \in Seq(States) /\ Ascends(l) /\ Len(l) <= Len(c)
      /\ \A i \in DOMAIN l : \E k \in I : l[i] = c[k]
      /\ \A k \in I : \E i \in DOMAIN l : l[i] = c[k]
  BY <1>1, <1>3, <1>4, PickedKeeps
<1>6. PICK w : w = LastOf(l, limit)
  OBVIOUS
<1>7a. /\ w \in Seq(States) /\ Ascends(w) /\ Within(w, l) /\ Newer(w, l, limit)
       /\ l # <<>> => w # <<>>
  <2>1. limit \in Nat /\ limit # 0
    OBVIOUS
  <2>2. l \in Seq(States) /\ Ascends(l)
    BY <1>5
  <2> QED
    BY <1>6, <2>1, <2>2, LastOfTop
<1>7. /\ w \in Seq(States) /\ Ascends(w)
      /\ \A i \in DOMAIN w : \E k \in DOMAIN l : w[i] = l[k]
      /\ \A k \in DOMAIN l : \/ \E i \in DOMAIN w : w[i] = l[k]
                             \/ Len(l) > limit /\ \A i \in DOMAIN w : l[k].at < w[i].at
      /\ l # <<>> => w # <<>>
  BY <1>7a DEF Within, Newer
<1>8. page = Reverse(w)
  BY <1>2, <1>4, <1>6
<1>9a. page \in Seq(States) /\ Len(page) = Len(w) /\ Descends(page) /\ Within(page, w) /\ Within(w, page)
  <2>1. w \in Seq(States) /\ Ascends(w)
    BY <1>7
  <2> QED
    BY <1>8, <2>1, ReverseTurns
<1>9. /\ page \in Seq(States) /\ Len(page) = Len(w) /\ Descends(page)
      /\ \A i \in DOMAIN page : \E k \in DOMAIN w : page[i] = w[k]
      /\ \A k \in DOMAIN w : \E i \in DOMAIN page : page[i] = w[k]
  BY <1>9a DEF Within
<1>10. ASSUME NEW i \in DOMAIN page
       PROVE  \E j \in DOMAIN s : page[i] = s[j] /\ Eligible(s[j], before, fits)
  <2>1. PICK k \in DOMAIN w : page[i] = w[k]
    BY <1>9
  <2>2. PICK m \in DOMAIN l : w[k] = l[m]
    BY <1>7
  <2>3. PICK n \in I : l[m] = c[n]
    BY <1>5
  <2>4. PICK j \in DOMAIN s : c[n] = s[j]
    BY <1>1, <1>3
  <2> QED
    BY <1>3, <2>1, <2>2, <2>3, <2>4
<1>11. ASSUME NEW j \in DOMAIN s, Eligible(s[j], before, fits)
       PROVE  \E m \in DOMAIN l : l[m] = s[j]
  <2>1. PICK n \in DOMAIN c : c[n] = s[j]
    BY <1>1
  <2>2. n \in I
    BY <1>3, <1>11, <2>1
  <2> QED
    BY <1>5, <2>1, <2>2
<1>12. ASSUME NEW j \in DOMAIN s, Eligible(s[j], before, fits)
       PROVE  \/ \E i \in DOMAIN page : page[i] = s[j]
              \/ Len(s) > limit /\ \A i \in DOMAIN page : s[j].at < page[i].at
  <2>1. PICK m \in DOMAIN l : l[m] = s[j]
    BY <1>11, <1>12
  <2>2. CASE \E i \in DOMAIN w : w[i] = l[m]
    <3>1. PICK i \in DOMAIN w : w[i] = l[m]
      BY <2>2
    <3>2. PICK k \in DOMAIN page : page[k] = w[i]
      BY <1>9
    <3>3. page[k] = s[j]
      BY <2>1, <3>1, <3>2
    <3> QED
      BY <3>3
  <2>3. CASE Len(l) > limit /\ \A i \in DOMAIN w : l[m].at < w[i].at
    <3>1. Len(l) \in Nat /\ Len(s) \in Nat /\ Len(l) <= Len(s)
      BY <1>1, <1>5
    <3>2. Len(s) > limit
      BY <2>3, <3>1
    <3>3. \A i \in DOMAIN page : s[j].at < page[i].at
      BY <1>9, <2>1, <2>3
    <3> QED
      BY <3>2, <3>3
  <2> QED
    BY <1>7, <2>2, <2>3
<1>13. page = <<>> => \A j \in DOMAIN s : ~Eligible(s[j], before, fits)
  <2>1. page = <<>> => w = <<>>
    BY <1>7, <1>9
  <2>2. page = <<>> => l = <<>>
    BY <1>7, <2>1
  <2> QED
    BY <1>11, <2>2
<1> QED
  BY <1>9, <1>10, <1>12, <1>13 DEF IsPage

LEMMA CutPage ==
    ASSUME NEW s, Paged(s), NEW c, c = Chronicle(s), NEW limit \in Nat \ {0}, NEW before, NEW fits,
           NEW cut, cut = Reverse(LastOf(Picked(c, Before(c, before)), limit)),
           NEW page, page = Picked(cut, Fitting(cut, fits))
    PROVE  /\ IsPage(page, s, limit, before, fits)
           /\ page = <<>> /\ fits = Requests => \A j \in DOMAIN s : ~Eligible(s[j], before, fits)
<1>1. /\ c \in Seq(States) /\ Len(c) = Len(s) /\ Ascends(c)
      /\ \A i \in DOMAIN c : \E j \in DOMAIN s : c[i] = s[j]
      /\ \A j \in DOMAIN s : \E i \in DOMAIN c : c[i] = s[j]
  BY ChronicleAscends
<1>2. PICK I : I = Before(c, before)
  OBVIOUS
<1>3. I \in SUBSET DOMAIN c /\ \A i \in DOMAIN c : i \in I <=> c[i].at < before
  BY <1>2 DEF Before
<1>4. PICK l : l = Picked(c, I)
  OBVIOUS
<1>5. /\ l \in Seq(States) /\ Ascends(l) /\ Len(l) <= Len(c)
      /\ \A i \in DOMAIN l : \E k \in I : l[i] = c[k]
      /\ \A k \in I : \E i \in DOMAIN l : l[i] = c[k]
  BY <1>1, <1>3, <1>4, PickedKeeps
<1>6. PICK w : w = LastOf(l, limit)
  OBVIOUS
<1>7a. /\ w \in Seq(States) /\ Ascends(w) /\ Within(w, l) /\ Newer(w, l, limit)
       /\ l # <<>> => w # <<>>
  <2>1. limit \in Nat /\ limit # 0
    OBVIOUS
  <2>2. l \in Seq(States) /\ Ascends(l)
    BY <1>5
  <2> QED
    BY <1>6, <2>1, <2>2, LastOfTop
<1>7. /\ w \in Seq(States) /\ Ascends(w)
      /\ \A i \in DOMAIN w : \E k \in DOMAIN l : w[i] = l[k]
      /\ \A k \in DOMAIN l : \/ \E i \in DOMAIN w : w[i] = l[k]
                             \/ Len(l) > limit /\ \A i \in DOMAIN w : l[k].at < w[i].at
      /\ l # <<>> => w # <<>>
  BY <1>7a DEF Within, Newer
<1>8. cut = Reverse(w)
  BY <1>2, <1>4, <1>6
<1>9a. cut \in Seq(States) /\ Len(cut) = Len(w) /\ Descends(cut) /\ Within(cut, w) /\ Within(w, cut)
  <2>1. w \in Seq(States) /\ Ascends(w)
    BY <1>7
  <2> QED
    BY <1>8, <2>1, ReverseTurns
<1>9. /\ cut \in Seq(States) /\ Len(cut) = Len(w) /\ Descends(cut)
      /\ \A i \in DOMAIN cut : \E k \in DOMAIN w : cut[i] = w[k]
      /\ \A k \in DOMAIN w : \E i \in DOMAIN cut : cut[i] = w[k]
  BY <1>9a DEF Within
<1>10. PICK F : F = Fitting(cut, fits)
  OBVIOUS
<1>11. F \in SUBSET DOMAIN cut /\ \A i \in DOMAIN cut : i \in F <=> cut[i].by \in fits
  BY <1>10 DEF Fitting
<1>12. /\ page \in Seq(States) /\ Descends(page)
       /\ \A i \in DOMAIN page : \E k \in F : page[i] = cut[k]
       /\ \A k \in F : \E i \in DOMAIN page : page[i] = cut[k]
  BY <1>9, <1>10, <1>11, PickedKeeps
<1>13. ASSUME NEW i \in DOMAIN page
       PROVE  \E j \in DOMAIN s : page[i] = s[j] /\ Eligible(s[j], before, fits)
  <2>0. PICK f \in F : page[i] = cut[f]
    BY <1>12
  <2>1. PICK k \in DOMAIN w : cut[f] = w[k]
    BY <1>9, <1>11
  <2>2. PICK m \in DOMAIN l : w[k] = l[m]
    BY <1>7
  <2>3. PICK n \in I : l[m] = c[n]
    BY <1>5
  <2>4. PICK j \in DOMAIN s : c[n] = s[j]
    BY <1>1, <1>3
  <2>5. s[j].by \in fits /\ s[j].at < before
    BY <1>3, <1>11, <2>0, <2>1, <2>2, <2>3, <2>4
  <2> QED
    BY <2>0, <2>1, <2>2, <2>3, <2>4, <2>5 DEF Eligible
<1>14. ASSUME NEW j \in DOMAIN s, s[j].at < before
       PROVE  \E m \in DOMAIN l : l[m] = s[j]
  <2>1. PICK n \in DOMAIN c : c[n] = s[j]
    BY <1>1
  <2>2. n \in I
    BY <1>3, <1>14, <2>1
  <2> QED
    BY <1>5, <2>1, <2>2
<1>15. ASSUME NEW j \in DOMAIN s, Eligible(s[j], before, fits)
       PROVE  \/ \E i \in DOMAIN page : page[i] = s[j]
              \/ Len(s) > limit /\ \A i \in DOMAIN page : s[j].at < page[i].at
  <2>0. s[j].at < before /\ s[j].by \in fits
    BY <1>15 DEF Eligible
  <2>1. PICK m \in DOMAIN l : l[m] = s[j]
    BY <1>14, <2>0
  <2>2. CASE \E i \in DOMAIN w : w[i] = l[m]
    <3>1. PICK k \in DOMAIN cut : cut[k] = s[j]
      BY <1>9, <2>1, <2>2
    <3>2. k \in F
      BY <1>11, <2>0, <3>1
    <3> QED
      BY <1>12, <3>1, <3>2
  <2>3. CASE Len(l) > limit /\ \A i \in DOMAIN w : l[m].at < w[i].at
    <3>1. Len(l) \in Nat /\ Len(s) \in Nat /\ Len(l) <= Len(s)
      BY <1>1, <1>5
    <3>2. Len(s) > limit
      BY <2>3, <3>1
    <3>3. ASSUME NEW i \in DOMAIN page
          PROVE  s[j].at < page[i].at
      <4>1. PICK k \in DOMAIN cut : page[i] = cut[k]
        BY <1>11, <1>12
      <4> QED
        BY <1>9, <2>1, <2>3, <4>1
    <3> QED
      BY <3>2, <3>3
  <2> QED
    BY <1>7, <2>2, <2>3
<1>16. ASSUME page = <<>>, fits = Requests
       PROVE  \A j \in DOMAIN s : ~Eligible(s[j], before, fits)
  <2>1. \A i \in DOMAIN cut : cut[i].by \in fits
    <3>1. \A x \in States : x.by \in Requests
      BY DEF States
    <3>2. \A i \in DOMAIN cut : cut[i] \in States
      BY <1>9
    <3> QED
      BY <1>16, <3>1, <3>2
  <2>2. \A k \in DOMAIN cut : \E i \in DOMAIN page : page[i] = cut[k]
    BY <1>11, <1>12, <2>1
  <2>3. cut = <<>>
    BY <1>9, <1>16, <2>2
  <2>4. w = <<>>
    BY <1>7, <1>9, <2>3
  <2>5. l = <<>>
    BY <1>7, <2>4
  <2> QED
    BY <1>14, <2>5 DEF Eligible
<1> QED
  BY <1>12, <1>13, <1>15, <1>16 DEF IsPage

\* A page of each provider; in SQL it may be empty because it was cut first.
LEMMA HistoryPage ==
    ASSUME NEW s, Paged(s), NEW limit \in Nat \ {0}, NEW before, NEW fits,
           NEW page, page = History(s, limit, before, fits)
    PROVE  /\ IsPage(page, s, limit, before, fits)
           /\ page = <<>> /\ (\E j \in DOMAIN s : Eligible(s[j], before, fits)) =>
                 provider \in Sql /\ fits # Requests
<1>1. PICK c : c = Chronicle(s)
  OBVIOUS
<1>2. provider \in Sql \union {"memory", "azure"}
  BY DEF Paged, Providers
<1>3. CASE provider \in {"memory", "azure"}
  <2>1. c = IF provider = "memory" THEN s ELSE ByTime(s)
    BY <1>1 DEF Chronicle
  <2>2. page = Reverse(LastOf(Picked(c, Before(c, before) \intersect Fitting(c, fits)), limit))
    BY <1>3, <2>1 DEF History, MemoryGetStateHistory, AzureGetStateHistory
  <2> QED
    BY <1>1, <2>2, FilteredPage
<1>4. CASE provider \in Sql
  <2>1. c = ByTime(s)
    BY <1>1, <1>4 DEF Chronicle, Sql
  <2>2. PICK cut : cut = Reverse(LastOf(Picked(c, Before(c, before)), limit))
    OBVIOUS
  <2>3. page = Picked(cut, Fitting(cut, fits))
    BY <1>4, <2>1, <2>2 DEF History, Sql, SqliteGetStateHistory, SqlServerGetStateHistory
  <2>4. /\ IsPage(page, s, limit, before, fits)
        /\ page = <<>> /\ fits = Requests => \A j \in DOMAIN s : ~Eligible(s[j], before, fits)
    BY <1>1, <2>2, <2>3, CutPage
  <2> QED
    BY <1>4, <2>4
<1> QED
  BY <1>2, <1>3, <1>4

\* A page and what is older than its last state are all there is to read.
LEMMA PagesJoin ==
    ASSUME NEW s, NEW limit, NEW full, NEW before, NEW fits, NEW page, NEW all, NEW last, NEW rest,
           Paged(s), full = Len(s), before \in Int, page # <<>>, last = Last(page).at,
           IsPage(page, s, limit, before, fits), IsPage(all, s, full, before, fits),
           IsPage(rest, s, full, last, fits)
    PROVE  all = page \o rest
<1>1. /\ s \in Seq(States) /\ Timed(s)
      /\ page \in Seq(States) /\ Timed(page) /\ Descends(page)
      /\ all \in Seq(States) /\ Timed(all) /\ Descends(all)
      /\ rest \in Seq(States) /\ Timed(rest) /\ Descends(rest)
  BY PagedTimed DEF Paged, IsPage
<1>2. PICK n \in Nat : n = Len(page) /\ DOMAIN page = 1 .. n /\ n # 0
  BY <1>1
<1>3. PICK m \in Nat : m = Len(rest) /\ DOMAIN rest = 1 .. m
  BY <1>1
<1>4. PICK at \in Int : at = page[n].at /\ at = Last(page).at
  BY <1>1, <1>2 DEF Last, Timed
<1>5. /\ \A j \in DOMAIN s : Eligible(s[j], before, fits) => \E i \in DOMAIN all : all[i] = s[j]
      /\ \A j \in DOMAIN s : Eligible(s[j], at, fits) => \E i \in 1 .. m : rest[i] = s[j]
  <2>1. ~(Len(s) > full)
    BY <1>1
  <2> QED
    BY <1>3, <1>4, <2>1 DEF IsPage
<1>6. /\ \A i \in DOMAIN all : \E j \in DOMAIN s : all[i] = s[j] /\ Eligible(s[j], before, fits)
      /\ \A i \in 1 .. n : \E j \in DOMAIN s : page[i] = s[j] /\ Eligible(s[j], before, fits)
      /\ \A i \in 1 .. m : \E j \in DOMAIN s : rest[i] = s[j] /\ Eligible(s[j], at, fits)
  <2>1. \A i \in DOMAIN all : \E j \in DOMAIN s : all[i] = s[j] /\ Eligible(s[j], before, fits)
    BY DEF IsPage
  <2>2. \A i \in 1 .. n : \E j \in DOMAIN s : page[i] = s[j] /\ Eligible(s[j], before, fits)
    BY <1>2 DEF IsPage
  <2>3. IsPage(rest, s, full, at, fits)
    BY <1>4
  <2>4. \A i \in 1 .. m : \E j \in DOMAIN s : rest[i] = s[j] /\ Eligible(s[j], at, fits)
    BY <1>3, <2>3 DEF IsPage
  <2> QED
    BY <2>1, <2>2, <2>4
<1>7. PICK both : both = page \o rest
  OBVIOUS
<1>8. /\ both \in Seq(States) /\ Len(both) = n + m /\ DOMAIN both = 1 .. n + m
      /\ \A i \in 1 .. n + m : both[i] = IF i <= n THEN page[i] ELSE rest[i - n]
  BY <1>1, <1>2, <1>3, <1>7
<1>9. at < before
  <2>1. n \in 1 .. n
    BY <1>2
  <2>2. PICK j \in DOMAIN s : page[n] = s[j] /\ Eligible(s[j], before, fits)
    BY <1>6, <2>1
  <2> QED
    BY <1>4, <2>2 DEF Eligible
<1>10. \A i \in 1 .. n : at <= page[i].at
  <2> SUFFICES ASSUME NEW i \in 1 .. n
               PROVE  at <= page[i].at
    OBVIOUS
  <2>1. i = n \/ (i < n /\ n \in 1 .. n)
    BY <1>2
  <2>2. i < n => at < page[i].at
    BY <1>1, <1>2, <1>4, <2>1 DEF Descends
  <2>3. page[i].at \in Int
    BY <1>1, <1>2 DEF Timed
  <2>4. CASE i = n
    <3>1. page[i].at = at
      BY <1>4, <2>4
    <3> QED
      BY <3>1
  <2>5. CASE i < n
    BY <2>2, <2>3, <2>5
  <2> QED
    BY <2>1, <2>4, <2>5
<1>11. \A i \in 1 .. m : rest[i].at < at
  BY <1>6 DEF Eligible
<1>12. ASSUME NEW i \in 1 .. n + m, NEW j \in 1 .. n + m, i < j
       PROVE  both[j].at < both[i].at
  <2>1. CASE j <= n
    <3>1. i \in 1 .. n /\ j \in 1 .. n /\ i <= n
      BY <1>2, <1>12, <2>1
    <3>2. both[i] = page[i] /\ both[j] = page[j]
      BY <1>8, <2>1, <3>1
    <3> QED
      BY <1>1, <1>2, <1>12, <3>1, <3>2 DEF Descends
  <2>2. CASE ~(j <= n) /\ i <= n
    <3>1. j - n \in 1 .. m /\ i \in 1 .. n
      BY <1>2, <1>3, <2>2
    <3>2. both[i] = page[i] /\ both[j] = rest[j - n]
      BY <1>8, <2>2
    <3>3. rest[j - n].at < at /\ at <= page[i].at
      BY <1>10, <1>11, <3>1
    <3>4. rest[j - n].at \in Int /\ page[i].at \in Int
      BY <1>1, <1>2, <1>3, <3>1 DEF Timed
    <3> QED
      BY <3>2, <3>3, <3>4
  <2>3. CASE ~(i <= n)
    <3>1. i - n \in 1 .. m /\ j - n \in 1 .. m /\ i - n < j - n /\ ~(j <= n)
      BY <1>2, <1>3, <1>12, <2>3
    <3>2. both[i] = rest[i - n] /\ both[j] = rest[j - n]
      BY <1>8, <2>3, <3>1
    <3> QED
      BY <1>1, <1>3, <3>1, <3>2 DEF Descends
  <2> QED
    BY <2>1, <2>2, <2>3
<1>13. Descends(both) /\ Timed(both)
  BY <1>8, <1>12, PagedTimed DEF Descends
<1>14. ASSUME NEW i \in 1 .. n + m
       PROVE  \E j \in DOMAIN s : both[i] = s[j] /\ Eligible(s[j], before, fits)
  <2>1. CASE i <= n
    <3>1. i \in 1 .. n /\ both[i] = page[i]
      BY <1>2, <1>8, <2>1
    <3> QED
      BY <1>6, <3>1
  <2>2. CASE ~(i <= n)
    <3>1. i - n \in 1 .. m /\ both[i] = rest[i - n]
      BY <1>2, <1>3, <1>8, <2>2
    <3>2. PICK j \in DOMAIN s : rest[i - n] = s[j] /\ Eligible(s[j], at, fits)
      BY <1>6, <3>1
    <3>3. s[j].at \in Int
      BY <1>1 DEF Timed
    <3>4. Eligible(s[j], before, fits)
      BY <1>9, <3>2, <3>3 DEF Eligible
    <3> QED
      BY <3>1, <3>2, <3>4
  <2> QED
    BY <2>1, <2>2
<1>15. ASSUME NEW j \in DOMAIN s, Eligible(s[j], before, fits)
       PROVE  \E i \in 1 .. n + m : both[i] = s[j]
  <2>1. CASE \E i \in 1 .. n : page[i] = s[j]
    <3>1. PICK i \in 1 .. n : page[i] = s[j]
      BY <2>1
    <3>2. i \in 1 .. n + m /\ i <= n
      BY <1>2, <1>3
    <3>3. both[i] = s[j]
      BY <1>8, <3>1, <3>2
    <3> QED
      BY <3>2, <3>3
  <2>2. CASE \A i \in 1 .. n : s[j].at < page[i].at
    <3>1. n \in 1 .. n
      BY <1>2
    <3>2. Eligible(s[j], at, fits)
      BY <1>4, <1>15, <2>2, <3>1 DEF Eligible
    <3>3. PICK i \in 1 .. m : rest[i] = s[j]
      BY <1>5, <3>2
    <3>4. n + i \in 1 .. n + m /\ ~(n + i <= n) /\ (n + i) - n = i
      BY <1>2, <1>3
    <3>5. both[n + i] = s[j]
      BY <1>8, <3>3, <3>4
    <3> QED
      BY <3>4, <3>5
  <2> QED
    BY <1>2, <1>15, <2>1, <2>2 DEF IsPage
<1>16. /\ \A i \in DOMAIN all : \E k \in DOMAIN both : all[i] = both[k]
       /\ \A i \in DOMAIN both : \E k \in DOMAIN all : both[i] = all[k]
  <2>1. ASSUME NEW i \in DOMAIN all
        PROVE  \E k \in DOMAIN both : all[i] = both[k]
    <3>1. PICK j \in DOMAIN s : all[i] = s[j] /\ Eligible(s[j], before, fits)
      BY <1>6
    <3>2. PICK k \in 1 .. n + m : both[k] = s[j]
      BY <1>15, <3>1
    <3> QED
      BY <1>8, <3>1, <3>2
  <2>2. ASSUME NEW i \in DOMAIN both
        PROVE  \E k \in DOMAIN all : both[i] = all[k]
    <3>1. PICK j \in DOMAIN s : both[i] = s[j] /\ Eligible(s[j], before, fits)
      BY <1>8, <1>14
    <3> QED
      BY <1>5, <3>1
  <2> QED
    BY <2>1, <2>2
<1>17. all = both
  BY <1>1, <1>8, <1>13, <1>16, SameElements
<1> QED
  BY <1>7, <1>17

-----------------------------------------------------------------------------
(* In memory, clients that wait store their states in the order of time.   *)
Rises(s) == \A i, j \in DOMAIN s : i < j => s[i].at <= s[j].at

RisingInv == provider = "memory" /\ Serial => \A t \in Threads : Rises(states[t])

LEMMA RisesAppended ==
    ASSUME NEW s \in Seq(States), Rises(s), NEW x \in States, \A i \in DOMAIN s : s[i].at <= x.at,
           NEW h, h = Append(s, x)
    PROVE  Rises(h)
<1>1. PICK n \in Nat : n = Len(s) /\ DOMAIN s = 1 .. n
  OBVIOUS
<1>2. DOMAIN h = 1 .. n + 1 /\ h[n + 1] = x /\ \A i \in 1 .. n : h[i] = s[i]
  BY <1>1
<1> SUFFICES ASSUME NEW i \in 1 .. n + 1, NEW j \in 1 .. n + 1, i < j
             PROVE  h[i].at <= h[j].at
  BY <1>2 DEF Rises
<1>3. i \in 1 .. n
  BY <1>1
<1>4. CASE j = n + 1
  BY <1>1, <1>2, <1>3, <1>4
<1>5. CASE j # n + 1
  <2>1. j \in 1 .. n
    BY <1>1, <1>5
  <2> QED
    BY <1>1, <1>2, <1>3, <2>1 DEF Rises
<1> QED
  BY <1>4, <1>5

\* A copy in memory has the history of its source.
LEMMA MemoryCopies ==
    ASSUME NEW q \in Requests, Step(q) \/ CallFails(q), provider = "memory", req[q].pc = "copy"
    PROVE  \/ states' = states
           \/ states' = [states EXCEPT ![req[q].target] = states[req[q].thread]]
<1>1. CASE CallFails(q)
  BY <1>1 DEF CallFails, Fails, store
<1>2. CASE Step(q)
  <2>1. Copy(q)
    BY <1>2 DEF Step, FindToCreate, Insert, FindToPatch, Modify, Write, FindToEdit,
           ReadNewest, DownloadNewest, AppendState, RemoveThread, ListHistory, Purge, FindToCopy,
           CopyInsert, CopyHistory, CopyNext, CopyUpload
  <2> QED
    BY <2>1 DEF Copy, MemoryCopyThread, CopyReads, store
<1> QED
  BY <1>1, <1>2

LEMMA RisingKept ==
    ASSUME ThreadInv, SerialInv, RisingInv, NEW q \in Requests, Step(q) \/ CallFails(q)
    PROVE  RisingInv'
<1>1. UNCHANGED fixed
  BY StepMoves DEF Moved
<1> SUFFICES ASSUME provider = "memory", Serial
             PROVE  \A t \in Threads : Rises(states'[t])
  BY <1>1 DEF RisingInv, fixed, Serial, Rises
<1>2. /\ PlaceOK(provider, req[q]) /\ ReadOK(q) /\ req[q].thread \in Threads
      /\ req[q].op = "copy" => req[q].target \in Threads
      /\ states \in [Threads -> Seq(States)]
  <2>1. req[q] \in ReqStates /\ Shape
    BY DEF ThreadInv, Shape
  <2> QED
    BY <2>1, RunsAlone DEF Shape, ReqStates, PlaceOK, Threads
<1>3. \A t \in Threads : Rises(states[t])
  BY DEF RisingInv
<1>4. Rises(<<>>)
  BY DEF Rises
<1>5. CASE states' = states
  BY <1>3, <1>5
<1>6. CASE /\ AppendState(q) /\ req'[q].pc = "modify"
           /\ states' = [states EXCEPT ![req[q].thread] = states'[req[q].thread]]
           /\ Added(q, states'[req[q].thread])
  <2>1. PICK h : h = states'[req[q].thread]
    OBVIOUS
  <2>2. PICK x \in States : x.at = req[q].at /\ h = AddState(states[req[q].thread], x)
    BY <1>6, <2>1 DEF Added
  <2>3. h = Append(states[req[q].thread], x)
    BY <2>2 DEF AddState
  <2>4. \A i \in DOMAIN states[req[q].thread] : states[req[q].thread][i].at <= x.at
    BY <1>2, <1>6, <2>2 DEF ReadOK, AppendState
  <2>5. Rises(h)
    BY <1>2, <1>3, <2>3, <2>4, RisesAppended
  <2>6. states' = [states EXCEPT ![req[q].thread] = h]
    BY <1>6, <2>1
  <2> QED
    BY <1>2, <1>3, <2>5, <2>6
<1>7. CASE states' = [states EXCEPT ![req[q].thread] = <<>>]
  BY <1>2, <1>3, <1>4, <1>7
<1>8. CASE /\ req[q].pc \in {"copy", "copyHistory", "copyNext", "copyUpload"}
           /\ states' = [states EXCEPT ![req[q].target] = states'[req[q].target]]
  <2>1. req[q].pc = "copy" /\ req[q].op = "copy"
    BY <1>2, <1>8 DEF PlaceOK
  <2>2. \/ states' = states
        \/ states' = [states EXCEPT ![req[q].target] = states[req[q].thread]]
    BY <2>1, MemoryCopies
  <2> QED
    BY <1>2, <1>3, <2>1, <2>2
<1> QED
  BY <1>5, <1>6, <1>7, <1>8, StatesStep

LEMMA RisingInvariant == Spec => []RisingInv
<1>1. Init => RisingInv
  BY DEF Init, RisingInv, Rises
<1>2. ThreadInv /\ SerialInv /\ RisingInv /\ [Next]_vars => RisingInv'
  <2> SUFFICES ASSUME ThreadInv, SerialInv, RisingInv, [Next]_vars
               PROVE  RisingInv'
    OBVIOUS
  <2>1. UNCHANGED <<fixed, states>> => RisingInv'
    BY DEF RisingInv, fixed, Serial, Rises
  <2>2. CASE Tick
    BY <2>1, <2>2 DEF Tick, store
  <2>3. CASE UNCHANGED vars
    BY <2>1, <2>3 DEF vars, store
  <2>4. CASE \E q \in Requests : \E op \in Ops, t \in Threads : Begin(q, op, t)
    BY <2>1, <2>4 DEF Begin, store
  <2>5. CASE \E q \in Requests : Step(q) \/ CallFails(q)
    BY <2>5, RisingKept
  <2> QED
    BY <2>2, <2>3, <2>4, <2>5 DEF Next
<1> QED
  BY <1>1, <1>2, ThreadsInvariant, SerialInvariant, PTL DEF Spec

(* A history is the sequence of its pages, however they are limited and    *)
(* filtered: reading on from the time of the last state of a page answers  *)
(* what is left, without a state twice, and a page is empty only if        *)
(* nothing is left or SQL has cut it before it filtered it.                *)
THEOREM PagesPartitionCorrect == Spec => []PagesPartition
<1>1. ThreadInv /\ RisingInv => PagesPartition
  <2> SUFFICES ASSUME ThreadInv, RisingInv,
                      NEW t \in Threads, Serial \/ provider # "memory", Distinct(states[t]),
                      NEW limit \in 1 .. Len(states[t]), NEW before \in 0 .. MaxTime + 1,
                      NEW fits \in SUBSET Requests
               PROVE  LET page == History(states[t], limit, before, fits)
                          all  == History(states[t], Len(states[t]), before, fits)
                      IN  IF page = <<>> THEN all # <<>> => provider \in Sql /\ fits # Requests
                          ELSE all = page \o History(states[t], Len(states[t]), Last(page).at, fits)
    BY Zenon DEF PagesPartition
  <2>a. PICK page : page = History(states[t], limit, before, fits)
    OBVIOUS
  <2>b. PICK all : all = History(states[t], Len(states[t]), before, fits)
    OBVIOUS
  <2>1. PICK s \in Seq(States) : s = states[t]
    BY DEF ThreadInv, Shape
  <2>2. PICK full \in Nat : full = Len(s)
    BY <2>1
  <2>3. limit \in Nat \ {0} /\ full \in Nat \ {0} /\ before \in Int
    BY <2>1, <2>2, ConstantsAssumption
  <2>4. Paged(s)
    <3>1. provider = "memory" => Rises(s)
      BY <2>1 DEF RisingInv
    <3>2. Timed(s)
      BY PagedTimed
    <3>3. provider = "memory" => Ascends(s)
      BY <2>1, <3>1, <3>2 DEF Rises, Ascends, Distinct, Timed
    <3> QED
      BY <2>1, <3>3 DEF Paged, ThreadInv, Shape
  <2>5. /\ IsPage(page, s, limit, before, fits)
        /\ page = <<>> /\ (\E j \in DOMAIN s : Eligible(s[j], before, fits)) =>
              provider \in Sql /\ fits # Requests
    BY <2>a, <2>1, <2>3, <2>4, HistoryPage
  <2>6. IsPage(all, s, full, before, fits)
    BY <2>b, <2>1, <2>2, <2>3, <2>4, HistoryPage
  <2>7. ASSUME page = <<>>, all # <<>>
        PROVE  provider \in Sql /\ fits # Requests
    <3>1. all \in Seq(States)
      BY <2>6 DEF IsPage
    <3>2. 1 \in DOMAIN all
      BY <2>7, <3>1
    <3>3. \E j \in DOMAIN s : Eligible(s[j], before, fits)
      BY <2>6, <3>2 DEF IsPage
    <3> QED
      BY <2>5, <2>7, <3>3
  <2>8. ASSUME page # <<>>
        PROVE  all = page \o History(states[t], Len(states[t]), Last(page).at, fits)
    <3>0. PICK last : last = Last(page).at
      OBVIOUS
    <3>1. PICK rest : rest = History(s, full, last, fits)
      OBVIOUS
    <3>2. IsPage(rest, s, full, last, fits)
      BY <2>3, <2>4, <3>1, HistoryPage
    <3>3. all = page \o rest
      <4>1. before \in Int
        BY <2>3
      <4>2. IsPage(page, s, limit, before, fits)
        BY <2>5
      <4> QED
        BY <2>2, <2>4, <2>6, <2>8, <3>0, <3>2, <4>1, <4>2, PagesJoin, Zenon
    <3> QED
      BY <2>1, <2>2, <3>0, <3>1, <3>3
  <2> QED
    BY <2>a, <2>b, <2>7, <2>8
<1> QED
  BY <1>1, ThreadsInvariant, RisingInvariant, PTL
=============================================================================
