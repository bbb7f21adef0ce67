-------------------------- MODULE FeedClientProofs --------------------------
(***************************************************************************)
(* Theorems about FeedClient, for any number of messages, page sizes and   *)
(* failures.                                                               *)
(***************************************************************************)
EXTENDS FeedClient, OrderFacts, FiniteSetTheorems, SequenceTheorems, TLAPS

-----------------------------------------------------------------------------
(* Least and greatest numbers.                                              *)

LEMMA MinNat ==
  ASSUME NEW S \in SUBSET Nat, S # {}
  PROVE  Min(S) \in S /\ \A n \in S : Min(S) <= n
<1>1. \E m \in S : \A n \in S : m =< n
  BY LeastNat
<1> QED
  BY <1>1 DEF Min

LEMMA MaxNat ==
  ASSUME NEW top \in Nat, NEW S \in SUBSET (0..top), S # {}
  PROVE  Max(S) \in S /\ \A n \in S : n <= Max(S)
<1> DEFINE U == {u \in Nat : \A n \in S : n <= u}
<1>1. U # {} /\ U \in SUBSET Nat
  <2>1. top \in U
    OBVIOUS
  <2> QED
    BY <2>1
<1>2. PICK m \in U : \A u \in U : m <= u
  BY <1>1, LeastNat
<1>3. m \in S
  <2>1. CASE m = 0
    <3>1. PICK n \in S : TRUE
      OBVIOUS
    <3>2. n \in Nat /\ n <= m
      BY <1>2
    <3>3. n = m
      BY <2>1, <3>2
    <3> QED
      BY <3>1, <3>3
  <2>2. CASE m # 0 /\ m \notin S
    <3>1. m - 1 \in U
      BY <2>2, <1>2
    <3> QED
      BY <3>1, <1>2
  <2> QED
    BY <2>1, <2>2
<1>4. \E x \in S : \A y \in S : x >= y
  BY <1>2, <1>3
<1>5. Max(S) \in S /\ \A y \in S : Max(S) >= y
  BY <1>4 DEF Max
<1> QED
  BY <1>5

(* The draining loops stop, and at the first ordinal that is missing.       *)
LEMMA FirstGapStops ==
  ASSUME NEW n \in Nat, NEW S, NEW top \in Nat, n <= top, top <= MaxOrdinal + 1, top \notin S
  PROVE  /\ FirstGap(n, S) \in n..top
         /\ n..(FirstGap(n, S) - 1) \subseteq S /\ FirstGap(n, S) \notin S
<1> DEFINE T == {m \in n..top : m \notin S}
<1>1. MaxOrdinal \in Nat
  BY FeedAssumption
<1>2. top \in T /\ T \in SUBSET Nat
  OBVIOUS
<1>3. PICK m \in T : \A k \in T : m <= k
  BY <1>2, LeastNat
<1>4. m \in n..(MaxOrdinal + 1) /\ n..(m - 1) \subseteq S /\ m \notin S
  <2>1. ASSUME NEW k \in n..(m - 1) PROVE k \in S
    BY <1>3
  <2> QED
    BY <1>1, <1>3, <2>1
<1> DEFINE P(k) == n..(k - 1) \subseteq S /\ k \notin S
<1>5. FirstGap(n, S) \in n..(MaxOrdinal + 1) /\ P(FirstGap(n, S))
  BY <1>4 DEF FirstGap
<1>6. FirstGap(n, S) <= top
  BY <1>1, <1>5
<1> QED
  BY <1>1, <1>5, <1>6

-----------------------------------------------------------------------------
(* Sorted lists.                                                            *)

Increasing(s) == \A i, j \in DOMAIN s : i < j => s[i] < s[j]

LEMMA AscendingSorts ==
  ASSUME NEW top \in Nat, NEW S \in SUBSET (0..top)
  PROVE  /\ IsFiniteSet(S) /\ Len(Ascending(S)) = Cardinality(S)
         /\ Ascending(S) \in Seq(S) /\ ToSet(Ascending(S)) = S /\ Increasing(Ascending(S))
<1> DEFINE below == [x \in S |-> {y \in S : y < x}]
           n == Cardinality(S)
           s == Ascending(S)
<1>1. IsFiniteSet(S)
  <2>1. IsFiniteSet(0..top)
    BY FS_Interval
  <2> QED
    BY <2>1, FS_Subset
<1>2. Chain(S, below)
  <2>1. \A x \in S : x \in Nat
    OBVIOUS
  <2>2. /\ below \in [S -> SUBSET S]
        /\ \A x, y \in S : x \in below[y] <=> x < y
    OBVIOUS
  <2>3. /\ \A x \in S : ~(x < x)
        /\ \A x, y \in S : x # y => x < y \/ y < x
        /\ \A x, y, z \in S : z < x /\ x < y => z < y
    BY <2>1
  <2> HIDE DEF below
  <2>4. \A x, y \in S : x \in below[y] => below[x] \subseteq below[y]
    BY <2>2, <2>3
  <2> QED
    BY <2>2, <2>3, <2>4 DEF Chain
<1>3. /\ n \in Nat
      /\ \A x \in S : Cardinality({y \in S : y < x}) \in 0..(n - 1)
      /\ \A x, y \in S : x < y => Cardinality({z \in S : z < x}) < Cardinality({z \in S : z < y})
      /\ \A i \in 1..n : \E x \in S : Cardinality({y \in S : y < x}) = i - 1
  <2> HIDE DEF n
  <2>1. /\ n \in Nat
        /\ \A x \in S : Cardinality(below[x]) \in 0..(n - 1)
        /\ \A x, y \in S : x \in below[y] => Cardinality(below[x]) < Cardinality(below[y])
        /\ \A i \in 1..n : \E x \in S : Cardinality(below[x]) = i - 1
    <3> HIDE DEF below
    <3> QED
      BY <1>1, <1>2, Ranks DEF n
  <2>2. \A x \in S : below[x] = {y \in S : y < x}
    OBVIOUS
  <2>3. \A x, y \in S : x < y => x \in below[y]
    BY <2>2
  <2> QED
    BY <2>1, <2>2, <2>3
<1> DEFINE rank(x) == Cardinality({y \in S : y < x})
<1>11. /\ \A x \in S : rank(x) \in 0..(n - 1)
       /\ \A x, y \in S : x < y => rank(x) < rank(y)
  BY <1>3
<1>12. ASSUME NEW x \in S, NEW y \in S
       PROVE  /\ rank(x) < rank(y) => x < y
              /\ rank(x) = rank(y) => x = y
  <2> HIDE DEF rank, n
  <2>1. rank(x) \in Int /\ rank(y) \in Int
    BY <1>3, <1>11
  <2>2. x < y \/ y < x \/ x = y
    OBVIOUS
  <2>3. /\ x < y => rank(x) < rank(y)
        /\ y < x => rank(y) < rank(x)
    BY <1>11
  <2> QED
    BY <2>1, <2>2, <2>3
<1>4. \A i \in 1..n : s[i] \in S /\ rank(s[i]) = i - 1
  <2>1. ASSUME NEW i \in 1..n PROVE s[i] \in S /\ rank(s[i]) = i - 1
    <3>1. \E x \in S : rank(x) = i - 1
      BY <1>3
    <3>2. s[i] = CHOOSE x \in S : rank(x) = i - 1
      BY DEF Ascending
    <3> HIDE DEF rank, s
    <3> QED
      BY <3>1, <3>2
  <2> QED
    BY <2>1
<1>5. s \in [1..n -> S] /\ DOMAIN s = 1..n
  <2>1. s = [i \in 1..n |-> s[i]]
    BY DEF Ascending
  <2> HIDE DEF s, rank, n
  <2> QED
    BY <1>4, <2>1
<1>6. s \in Seq(S) /\ Len(s) = n
  <2> HIDE DEF s, rank, n
  <2> QED
    BY <1>3, <1>5, SeqDef, LenProperties
<1>8. ASSUME NEW i \in 1..n, NEW j \in 1..n, i < j PROVE s[i] < s[j]
  <2> HIDE DEF s, rank, n
  <2>1. /\ s[i] \in S /\ s[j] \in S /\ rank(s[i]) \in Int /\ rank(s[j]) \in Int
        /\ rank(s[i]) < rank(s[j])
    BY <1>3, <1>4, <1>8, <1>11
  <2> QED
    BY <1>12, <2>1
<1>9. ASSUME NEW x \in S PROVE \E i \in 1..n : s[i] = x
  <2> HIDE DEF s, rank, n
  <2>1. rank(x) + 1 \in 1..n /\ rank(x) = (rank(x) + 1) - 1 /\ rank(x) \in Nat
    BY <1>3, <1>11
  <2>2. PICK i \in 1..n : i = rank(x) + 1
    BY <2>1
  <2>3. s[i] \in S /\ rank(s[i]) = rank(x)
    BY <1>4, <2>1, <2>2
  <2> QED
    BY <1>12, <2>3
<1>10. ToSet(s) = S /\ Increasing(s)
  <2> HIDE DEF s, n, rank
  <2> QED
    BY <1>4, <1>5, <1>8, <1>9 DEF ToSet, Increasing
<1> QED
  BY <1>1, <1>6, <1>10

(* Sorting a list without duplicates keeps its elements.                    *)
LEMMA SortedSorts ==
  ASSUME NEW S \in SUBSET Nat, NEW s \in Seq(S),
         \A i, j \in DOMAIN s : i # j => s[i] # s[j]
  PROVE  /\ Sorted(s) \in Seq(S) /\ ToSet(Sorted(s)) = ToSet(s) /\ Increasing(Sorted(s))
<1> DEFINE n == Len(s)
           r == Sorted(s)
           below == [k \in 1..n |-> Before(s, k)]
<1>1. /\ n \in Nat /\ DOMAIN s = 1..n
      /\ \A k \in 1..n : s[k] \in S /\ s[k] \in Nat
  BY LenProperties, ElementOfSeq
<1>2. IsFiniteSet(1..n) /\ Cardinality(1..n) = n
  <2>1. 1 \in Int /\ n \in Int
    BY <1>1
  <2>2. IsFiniteSet(1..n) /\ Cardinality(1..n) = IF 1 > n THEN 0 ELSE n - 1 + 1
    BY <2>1, FS_Interval
  <2> HIDE DEF n
  <2> QED
    BY <1>1, <2>2
<1>3. \A j, k \in 1..n : /\ j \in Before(s, k) <=> s[j] < s[k]
                         /\ Before(s, k) \subseteq 1..n
  <2> SUFFICES ASSUME NEW j \in 1..n, NEW k \in 1..n
               PROVE  /\ j \in Before(s, k) <=> s[j] < s[k]
                      /\ Before(s, k) \subseteq 1..n
    OBVIOUS
  <2>1. s[j] = s[k] => j = k
    BY <1>1
  <2>2. ~(j < j)
    BY <1>1
  <2> HIDE DEF n
  <2> QED
    BY <1>1, <2>1, <2>2 DEF Before
<1>4. Chain(1..n, below)
  <2>1. below \in [1..n -> SUBSET (1..n)]
    BY <1>3
  <2>2. \A j, k \in 1..n : j \in below[k] <=> s[j] < s[k]
    BY <1>3
  <2>3. /\ \A k \in 1..n : ~(s[k] < s[k])
        /\ \A j, k \in 1..n : j # k => s[j] < s[k] \/ s[k] < s[j]
        /\ \A i, j, k \in 1..n : s[i] < s[j] /\ s[j] < s[k] => s[i] < s[k]
    BY <1>1
  <2> HIDE DEF below, n
  <2>4. \A j, k \in 1..n : j \in below[k] => below[j] \subseteq below[k]
    BY <2>1, <2>2, <2>3
  <2> QED
    BY <2>1, <2>2, <2>3, <2>4 DEF Chain
<1> DEFINE rank(k) == Cardinality(Before(s, k))
<1>5. /\ \A k \in 1..n : rank(k) \in 0..(n - 1)
      /\ \A j, k \in 1..n : s[j] < s[k] => rank(j) < rank(k)
      /\ \A i \in 1..n : \E k \in 1..n : rank(k) = i - 1
  <2>1. /\ \A k \in 1..n : Cardinality(below[k]) \in 0..(n - 1)
        /\ \A j, k \in 1..n : j \in below[k] => Cardinality(below[j]) < Cardinality(below[k])
        /\ \A i \in 1..n : \E k \in 1..n : Cardinality(below[k]) = i - 1
    <3> HIDE DEF below, n
    <3>1. /\ \A x \in 1..n : Cardinality(below[x]) \in 0..(Cardinality(1..n) - 1)
          /\ \A x, y \in 1..n : x \in below[y] => Cardinality(below[x]) < Cardinality(below[y])
          /\ \A i \in 1..Cardinality(1..n) : \E x \in 1..n : Cardinality(below[x]) = i - 1
      BY <1>2, <1>4, Ranks
    <3> QED
      BY <1>2, <3>1
  <2>2. \A k \in 1..n : below[k] = Before(s, k)
    OBVIOUS
  <2> HIDE DEF n, below
  <2> QED
    BY <1>3, <2>1, <2>2
<1>6. ASSUME NEW j \in 1..n, NEW k \in 1..n
      PROVE  /\ rank(j) < rank(k) => s[j] < s[k]
             /\ rank(j) = rank(k) => j = k
  <2> HIDE DEF rank, n
  <2>1. rank(j) \in Int /\ rank(k) \in Int
    BY <1>1, <1>5
  <2>2. s[j] < s[k] \/ s[k] < s[j] \/ j = k
    BY <1>1
  <2>3. /\ s[j] < s[k] => rank(j) < rank(k)
        /\ s[k] < s[j] => rank(k) < rank(j)
    BY <1>5
  <2> QED
    BY <2>1, <2>2, <2>3
<1> DEFINE at == [i \in 1..n |-> CHOOSE k \in 1..n : rank(k) = i - 1]
<1>7. \A i \in 1..n : at[i] \in 1..n /\ rank(at[i]) = i - 1
  <2> HIDE DEF rank, n
  <2> QED
    BY <1>5
<1>8. r = [i \in 1..n |-> s[at[i]]]
  BY <1>1 DEF Sorted
<1>9. ASSUME NEW k \in 1..n PROVE \E i \in 1..n : at[i] = k
  <2> HIDE DEF rank, n, at
  <2>1. PICK i \in 1..n : i = rank(k) + 1
    BY <1>1, <1>5
  <2>2. rank(at[i]) = rank(k) /\ at[i] \in 1..n
    BY SMTT(30), <1>1, <1>5, <1>7, <2>1
  <2> QED
    BY <1>6, <2>2
<1>10. r \in [1..n -> S] /\ r \in Seq(S) /\ DOMAIN r = 1..n
  <2> HIDE DEF r, at, rank, n
  <2>1. r \in [1..n -> S] /\ DOMAIN r = 1..n
    BY <1>1, <1>7, <1>8
  <2> QED
    BY <1>1, <2>1, SeqDef
<1>11. ToSet(r) = ToSet(s)
  <2> HIDE DEF r, at, rank, n
  <2>1. ToSet(r) = {r[i] : i \in 1..n} /\ ToSet(s) = {s[i] : i \in 1..n}
    BY <1>1, <1>10 DEF ToSet
  <2>2. \A i \in 1..n : at[i] \in 1..n /\ r[i] = s[at[i]]
    BY <1>7, <1>8
  <2>3. ASSUME NEW k \in 1..n PROVE \E i \in 1..n : r[i] = s[k]
    <3>1. PICK i \in 1..n : at[i] = k
      BY <1>9
    <3> QED
      BY <2>2, <3>1
  <2>4. ASSUME NEW x \in {r[i] : i \in 1..n} PROVE x \in {s[i] : i \in 1..n}
    BY <2>2
  <2>5. ASSUME NEW x \in {s[i] : i \in 1..n} PROVE x \in {r[i] : i \in 1..n}
    <3>1. PICK k \in 1..n : x = s[k]
      OBVIOUS
    <3>2. PICK i \in 1..n : r[i] = s[k]
      BY <2>3
    <3> QED
      BY <3>1, <3>2
  <2> QED
    BY <2>1, <2>4, <2>5
<1>12. ASSUME NEW i \in 1..n, NEW j \in 1..n, i < j PROVE r[i] < r[j]
  <2> HIDE DEF r, at, rank, n
  <2>1. rank(at[i]) < rank(at[j]) /\ at[i] \in 1..n /\ at[j] \in 1..n
    BY <1>1, <1>7, <1>12
  <2> QED
    BY <1>6, <1>8, <2>1
<1> HIDE DEF r, n
<1> QED
  BY <1>10, <1>11, <1>12 DEF r, Increasing

LEMMA ListElements ==
  ASSUME NEW S, NEW s \in Seq(S)
  PROVE  /\ ToSet(s) \subseteq S /\ DOMAIN s = 1..Len(s) /\ Len(s) \in Nat
         /\ s # <<>> => Len(s) > 0 /\ s[1] \in ToSet(s)
<1>1. DOMAIN s = 1..Len(s) /\ Len(s) \in Nat /\ (s # <<>> => Len(s) # 0)
  BY LenProperties, EmptySeq
<1> QED
  BY <1>1, ElementOfSeq DEF ToSet

LEMMA ListAppend ==
  ASSUME NEW S, NEW s \in Seq(S), NEW t \in Seq(S)
  PROVE  /\ s \o t \in Seq(S) /\ ToSet(s \o t) = ToSet(s) \cup ToSet(t)
         /\ \A i \in 1..Len(s \o t) :
              \/ i \in 1..Len(s) /\ (s \o t)[i] = s[i]
              \/ i > Len(s) /\ i - Len(s) \in 1..Len(t) /\ (s \o t)[i] = t[i - Len(s)]
<1>1. /\ s \o t \in Seq(S) /\ Len(s \o t) = Len(s) + Len(t)
      /\ \A i \in 1..(Len(s) + Len(t)) : (s \o t)[i] = IF i <= Len(s) THEN s[i] ELSE t[i - Len(s)]
  BY ConcatProperties
<1>2. /\ Len(s) \in Nat /\ Len(t) \in Nat /\ DOMAIN s = 1..Len(s) /\ DOMAIN t = 1..Len(t)
      /\ DOMAIN (s \o t) = 1..Len(s \o t)
  BY <1>1, LenProperties
<1>3. \A i \in 1..Len(s \o t) :
        \/ i \in 1..Len(s) /\ (s \o t)[i] = s[i]
        \/ i > Len(s) /\ i - Len(s) \in 1..Len(t) /\ (s \o t)[i] = t[i - Len(s)]
  BY <1>1, <1>2
<1>4. ToSet(s \o t) \subseteq ToSet(s) \cup ToSet(t)
  BY <1>2, <1>3 DEF ToSet
<1>5. ToSet(s) \subseteq ToSet(s \o t)
  <2>1. \A i \in 1..Len(s) : i \in 1..Len(s \o t) /\ (s \o t)[i] = s[i]
    BY <1>1, <1>2
  <2> QED
    BY <1>2, <2>1 DEF ToSet
<1>6. ToSet(t) \subseteq ToSet(s \o t)
  <2>1. \A i \in 1..Len(t) : /\ i + Len(s) \in 1..Len(s \o t)
                             /\ (s \o t)[i + Len(s)] = t[i]
    <3> SUFFICES ASSUME NEW i \in 1..Len(t)
                 PROVE  i + Len(s) \in 1..Len(s \o t) /\ (s \o t)[i + Len(s)] = t[i]
      OBVIOUS
    <3>1. i + Len(s) \in 1..(Len(s) + Len(t)) /\ ~(i + Len(s) <= Len(s))
          /\ (i + Len(s)) - Len(s) = i
      BY <1>2
    <3> QED
      BY <1>1, <3>1
  <2> QED
    BY <1>2, <2>1 DEF ToSet
<1> QED
  BY <1>1, <1>3, <1>4, <1>5, <1>6

LEMMA IncreasingAppend ==
  ASSUME NEW S \in SUBSET Nat, NEW s \in Seq(S), NEW t \in Seq(S),
         Increasing(s), Increasing(t), \A a \in ToSet(s), b \in ToSet(t) : a < b
  PROVE  Increasing(s \o t)
<1>1. /\ Len(s) \in Nat /\ DOMAIN s = 1..Len(s) /\ DOMAIN t = 1..Len(t) /\ Len(t) \in Nat
  BY ListElements
<1>2. s \o t \in Seq(S) /\ DOMAIN (s \o t) = 1..Len(s \o t) /\ Len(s \o t) \in Nat
  BY ListAppend, LenProperties
<1> SUFFICES ASSUME NEW i \in 1..Len(s \o t), NEW j \in 1..Len(s \o t), i < j
             PROVE  (s \o t)[i] < (s \o t)[j]
  BY <1>2 DEF Increasing
<1>3. /\ \/ i \in 1..Len(s) /\ (s \o t)[i] = s[i]
         \/ i > Len(s) /\ i - Len(s) \in 1..Len(t) /\ (s \o t)[i] = t[i - Len(s)]
      /\ \/ j \in 1..Len(s) /\ (s \o t)[j] = s[j]
         \/ j > Len(s) /\ j - Len(s) \in 1..Len(t) /\ (s \o t)[j] = t[j - Len(s)]
  BY ListAppend
<1>4. CASE i \in 1..Len(s) /\ j \in 1..Len(s)
  BY <1>1, <1>3, <1>4 DEF Increasing
<1>5. CASE i \in 1..Len(s) /\ j > Len(s)
  <2>1. s[i] \in ToSet(s) /\ t[j - Len(s)] \in ToSet(t)
    BY <1>1, <1>3, <1>5 DEF ToSet
  <2> QED
    BY <1>1, <1>3, <1>5, <2>1
<1>6. CASE i > Len(s) /\ j > Len(s)
  <2>1. i - Len(s) < j - Len(s)
    BY <1>1, <1>2
  <2>2. i - Len(s) \in DOMAIN t /\ j - Len(s) \in DOMAIN t
    BY <1>1, <1>3, <1>6
  <2> QED
    BY <1>1, <1>3, <1>6, <2>1, <2>2 DEF Increasing
<1> QED
  BY <1>1, <1>2, <1>3, <1>4, <1>5, <1>6

-----------------------------------------------------------------------------
(* The inductive invariant.                                                 *)

(* The rendered list, what is expected next and what is held back.          *)
ListInv ==
  /\ last \in 0..MaxOrdinal /\ messages \in Seq(0..last)
  /\ nextExpected \in 0..(last + 1) /\ buffer \subseteq 0..last
  /\ Increasing(messages)
  /\ \A o \in Shown : o < nextExpected
  /\ \A o \in buffer : o > nextExpected

(* An answer holds stored messages, and one of history older ones only; the *)
(* first page has no hole.                                                  *)
AnswersInv ==
  /\ first.rows \subseteq 0..last /\ repair.rows \subseteq 0..last
  /\ older.rows \subseteq 0..last /\ \A o \in older.rows : o < older.cursor
  /\ \A a, b \in first.rows : a..b \subseteq first.rows

(* Until the first page has arrived the list begins at the oldest message,  *)
(* so history asked for then has no rows.                                   *)
PageInv ==
  /\ first # Idle => pageStart = 0 /\ takenBack = {} /\ older.cursor = 0
  /\ older.cursor \in 0..nextExpected

(* No delivered message is forgotten but by the first page.                 *)
Accounted == \A o \in given : o \in Shown \cup buffer \cup takenBack \/ o < pageStart

FeedInv == TypeOK /\ ListInv /\ AnswersInv /\ PageInv /\ NoHole /\ Accounted

LEMMA SeqWiden ==
  ASSUME NEW S, NEW T, S \subseteq T, NEW s \in Seq(S)
  PROVE  s \in Seq(T)
<1>1. Len(s) \in Nat /\ s \in [1..Len(s) -> S]
  BY LenProperties
<1>2. s \in [1..Len(s) -> T]
  BY <1>1
<1> QED
  BY <1>1, <1>2, SeqDef

(* Appending, in order, messages that all come after those of the list.     *)
LEMMA AppendLater ==
  ASSUME NEW top \in Nat, NEW n \in Nat, NEW s \in Seq(0..top), NEW T \in SUBSET (0..top),
         Increasing(s), \A o \in ToSet(s) : o < n, \A o \in T : o >= n
  PROVE  /\ s \o Ascending(T) \in Seq(0..top) /\ Increasing(s \o Ascending(T))
         /\ ToSet(s \o Ascending(T)) = ToSet(s) \cup T
<1>1. Ascending(T) \in Seq(T) /\ ToSet(Ascending(T)) = T /\ Increasing(Ascending(T))
  BY AscendingSorts
<1>2. Ascending(T) \in Seq(0..top)
  BY <1>1, SeqWiden
<1>3. \A a \in ToSet(s), b \in ToSet(Ascending(T)) : a < b
  <2>1. ToSet(s) \subseteq 0..top
    BY ListElements
  <2>2. ASSUME NEW a \in ToSet(s), NEW b \in T PROVE a < b
    <3>1. a \in Int /\ b \in Int
      BY <2>1
    <3>2. a < n /\ b >= n
      OBVIOUS
    <3> QED
      BY <3>1, <3>2
  <2> QED
    BY <1>1, <2>2
<1>4. Increasing(s \o Ascending(T))
  <2>1. 0..top \in SUBSET Nat
    OBVIOUS
  <2> QED
    BY <1>1, <1>2, <1>3, <2>1, IncreasingAppend
<1>5. s \o Ascending(T) \in Seq(0..top) /\ ToSet(s \o Ascending(T)) = ToSet(s) \cup ToSet(Ascending(T))
  BY <1>2, ListAppend
<1> QED
  BY <1>1, <1>4, <1>5

(* What a reducer step other than the first page does to the list.          *)
Grown ==
  /\ messages' \in Seq(0..last) /\ Increasing(messages')
  /\ nextExpected' \in nextExpected..(last + 1) /\ buffer' \subseteq 0..last
  /\ \A o \in ToSet(messages') : o < nextExpected'
  /\ \A o \in buffer' : o > nextExpected'
  /\ Shown \subseteq ToSet(messages')
  /\ nextExpected..(nextExpected' - 1) \subseteq ToSet(messages')
  /\ buffer \subseteq ToSet(messages') \cup buffer'

LEMMA ListTypes ==
  ASSUME ListInv
  PROVE  /\ last \in Nat /\ last <= MaxOrdinal /\ MaxOrdinal \in Nat /\ nextExpected \in Nat
         /\ last + 1 \in Nat /\ last + 1 <= MaxOrdinal + 1 /\ last + 1 \notin 0..last
         /\ Shown \subseteq 0..last /\ buffer \subseteq 0..last
<1>1. MaxOrdinal \in Nat /\ last \in Nat /\ last <= MaxOrdinal
  BY FeedAssumption DEF ListInv
<1>2. Shown \subseteq 0..last
  BY ListElements DEF ListInv, Shown
<1> QED
  BY <1>1, <1>2 DEF ListInv

LEMMA DrainStops ==
  ASSUME ListInv, NEW n \in 0..(last + 1), NEW S \in SUBSET (0..last)
  PROVE  /\ FirstGap(n, S) \in n..(last + 1) /\ FirstGap(n, S) \in Nat
         /\ n..(FirstGap(n, S) - 1) \subseteq S /\ FirstGap(n, S) \notin S
<1>1. n \in Nat /\ n <= last + 1 /\ last + 1 \in Nat /\ last + 1 <= MaxOrdinal + 1 /\ last + 1 \notin S
  BY ListTypes
<1>2. /\ FirstGap(n, S) \in n..(last + 1)
      /\ n..(FirstGap(n, S) - 1) \subseteq S /\ FirstGap(n, S) \notin S
  BY <1>1, FirstGapStops
<1> QED
  BY <1>1, <1>2

LEMMA LateGrows ==
  ASSUME ListInv, NEW o \in 0..last, Late(o)
  PROVE  Grown /\ o \in ToSet(messages')
<1>1. o < nextExpected /\ UNCHANGED <<nextExpected, buffer>>
  BY DEF Late
<1>2. CASE o \in ToSet(messages)
  <2>1. messages' = messages
    BY <1>2 DEF Late
  <2> QED
    BY <1>1, <1>2, <2>1, ListTypes DEF Grown, ListInv, Shown
<1>3. CASE o \notin ToSet(messages)
  <2> DEFINE s == Append(messages, o)
  <2>1. messages' = Sorted(s) /\ messages \in Seq(0..last)
    BY <1>3 DEF Late, ListInv
  <2>2. /\ s \in Seq(0..last) /\ DOMAIN s = 1..(Len(messages) + 1)
        /\ DOMAIN messages = 1..Len(messages) /\ Len(messages) \in Nat
        /\ \A i \in 1..Len(messages) : s[i] = messages[i]
        /\ s[Len(messages) + 1] = o
    <3>1. /\ s \in Seq(0..last) /\ Len(s) = Len(messages) + 1
          /\ \A i \in 1..Len(messages) : s[i] = messages[i]
          /\ s[Len(messages) + 1] = o
      BY <2>1, AppendProperties
    <3>2. DOMAIN s = 1..Len(s) /\ DOMAIN messages = 1..Len(messages) /\ Len(messages) \in Nat
      BY <2>1, <3>1, LenProperties
    <3> QED
      BY <3>1, <3>2
  <2> HIDE DEF s
  <2>3. 1..(Len(messages) + 1) = (1..Len(messages)) \cup {Len(messages) + 1}
    BY <2>2
  <2>4. ToSet(s) = ToSet(messages) \cup {o}
    BY <2>2, <2>3 DEF ToSet
  <2>5. \A i, j \in 1..Len(messages) : i # j => messages[i] # messages[j]
    <3>1. \A i, j \in 1..Len(messages) : i < j => messages[i] < messages[j]
      BY <2>2 DEF ListInv, Increasing
    <3>2. \A i \in 1..Len(messages) : messages[i] \in 0..last
      BY <2>1, ElementOfSeq
    <3> QED
      BY <2>2, <3>1, <3>2
  <2>6. \A i \in 1..Len(messages) : messages[i] # o
    BY <1>3, <2>2 DEF ToSet
  <2>7. \A i, j \in DOMAIN s : i # j => s[i] # s[j]
    BY <2>2, <2>3, <2>5, <2>6
  <2>8. 0..last \in SUBSET Nat
    OBVIOUS
  <2>9. /\ Sorted(s) \in Seq(0..last) /\ ToSet(Sorted(s)) = ToSet(s)
        /\ Increasing(Sorted(s))
    BY <2>2, <2>7, <2>8, SortedSorts
  <2>10. /\ messages' \in Seq(0..last) /\ ToSet(messages') = Shown \cup {o}
         /\ Increasing(messages')
    BY <2>1, <2>4, <2>9 DEF Shown
  <2> QED
    BY <1>1, <2>10, ListTypes DEF Grown, ListInv
<1> QED
  BY <1>2, <1>3

LEMMA ExpectedGrows ==
  ASSUME ListInv, NEW o \in 0..last, Expected(o)
  PROVE  Grown /\ o \in ToSet(messages')
<1> DEFINE stop == FirstGap(o + 1, buffer)
           T == o..(stop - 1)
<1>1. /\ o = nextExpected /\ messages' = messages \o Ascending(T)
      /\ nextExpected' = stop /\ buffer' = {b \in buffer : b >= stop}
  BY DEF Expected
<1>2. o + 1 \in 0..(last + 1) /\ buffer \in SUBSET (0..last)
  BY ListTypes
<1>3. /\ stop \in (o + 1)..(last + 1) /\ stop \in Nat
      /\ (o + 1)..(stop - 1) \subseteq buffer /\ stop \notin buffer
  BY <1>2, DrainStops
<1> HIDE DEF stop
<1>4. T \in SUBSET (0..last) /\ o \in T /\ \A x \in T : x >= o
  BY <1>3, ListTypes
<1>5. /\ messages \in Seq(0..last) /\ Increasing(messages)
      /\ \A x \in ToSet(messages) : x < o
  BY <1>1 DEF ListInv, Shown
<1>6. /\ messages' \in Seq(0..last) /\ Increasing(messages')
      /\ ToSet(messages') = Shown \cup T
  <2> HIDE DEF T
  <2>1. last \in Nat /\ o \in Nat
    BY ListTypes
  <2>2. /\ messages \o Ascending(T) \in Seq(0..last) /\ Increasing(messages \o Ascending(T))
        /\ ToSet(messages \o Ascending(T)) = ToSet(messages) \cup T
    BY SMTT(30), <1>4, <1>5, <2>1, AppendLater
  <2> QED
    BY <1>1, <2>2 DEF Shown
<1>7. nextExpected' \in nextExpected..(last + 1) /\ nextExpected..(nextExpected' - 1) \subseteq ToSet(messages')
  <2>1. T = nextExpected..(nextExpected' - 1)
    BY <1>1
  <2>2. T \subseteq ToSet(messages')
    BY <1>6
  <2>3. nextExpected' \in nextExpected..(last + 1)
    BY <1>1, <1>3, ListTypes
  <2> QED
    BY <2>1, <2>2, <2>3
<1>8. \A x \in ToSet(messages') : x < nextExpected'
  <2>1. \A x \in Shown : x < o /\ x \in Int
    BY <1>5, ListTypes DEF Shown
  <2>2. \A x \in T : x < stop
    BY <1>3
  <2> QED
    BY <1>1, <1>3, <1>6, <2>1, <2>2
<1>9. buffer' \subseteq 0..last /\ \A b \in buffer' : b > nextExpected'
  BY <1>1, <1>3, ListTypes
<1>10. \A b \in buffer : b \in T \/ b \in buffer'
  <2>1. \A b \in buffer : b > o /\ b \in Int
    BY <1>1, ListTypes DEF ListInv
  <2> QED
    BY <1>1, <1>3, <2>1
<1> QED
  BY <1>4, <1>6, <1>7, <1>8, <1>9, <1>10 DEF Grown

LEMMA EarlyGrows ==
  ASSUME ListInv, NEW o \in 0..last, Early(o)
  PROVE  Grown /\ o \in buffer'
BY ListTypes DEF Early, Grown, ListInv, Shown

LEMMA MergeGrows ==
  ASSUME ListInv, NEW rows \in SUBSET (0..last), Merge(rows)
  PROVE  Grown
<1> DEFINE candidates == rows \cup buffer
           stop == FirstGap(nextExpected, candidates)
           T == (nextExpected..(stop - 1)) \ ToSet(messages)
<1>1. /\ messages' = messages \o Ascending(T)
      /\ nextExpected' = stop /\ buffer' = {o \in candidates : o > stop}
  BY DEF Merge
<1>2. candidates \in SUBSET (0..last) /\ nextExpected \in 0..(last + 1)
  BY ListTypes DEF ListInv
<1>3. /\ stop \in nextExpected..(last + 1) /\ stop \in Nat
      /\ nextExpected..(stop - 1) \subseteq candidates /\ stop \notin candidates
  <2> HIDE DEF candidates
  <2> QED
    BY <1>2, DrainStops
<1> HIDE DEF stop
<1>4. T \in SUBSET (0..last) /\ \A x \in T : x >= nextExpected
  BY <1>3, ListTypes
<1>5. /\ messages \in Seq(0..last) /\ Increasing(messages)
      /\ \A x \in ToSet(messages) : x < nextExpected
  BY <1>1 DEF ListInv, Shown
<1>6. /\ messages' \in Seq(0..last) /\ Increasing(messages')
      /\ ToSet(messages') = Shown \cup T
  <2> HIDE DEF T
  <2>1. last \in Nat /\ nextExpected \in Nat
    BY ListTypes
  <2>2. /\ messages \o Ascending(T) \in Seq(0..last) /\ Increasing(messages \o Ascending(T))
        /\ ToSet(messages \o Ascending(T)) = ToSet(messages) \cup T
    BY SMTT(30), <1>4, <1>5, <2>1, AppendLater
  <2> QED
    BY <1>1, <2>2 DEF Shown
<1>7. /\ nextExpected' \in nextExpected..(last + 1)
      /\ nextExpected..(nextExpected' - 1) \subseteq ToSet(messages')
  BY <1>1, <1>3, <1>6, ListTypes DEF Shown
<1>8. \A x \in ToSet(messages') : x < nextExpected'
  <2>1. \A x \in Shown : x < nextExpected /\ x \in Int
    BY <1>5, ListTypes DEF Shown
  <2>2. \A x \in T : x < stop
    BY <1>3
  <2>3. nextExpected \in Nat /\ nextExpected <= stop
    BY <1>3, ListTypes
  <2>4. \A x \in Shown : x < stop
    BY <1>3, <2>1, <2>3
  <2> HIDE DEF T
  <2> QED
    BY <1>1, <1>6, <2>2, <2>4
<1>9. buffer' \subseteq 0..last /\ \A b \in buffer' : b > nextExpected'
  BY <1>1, <1>2
<1>10. \A b \in buffer : b \in ToSet(messages') \/ b \in buffer'
  <2>1. \A b \in buffer : b > nextExpected /\ b \in Int /\ b # stop
    BY <1>1, <1>3, ListTypes DEF ListInv
  <2>2. \A b \in buffer : b > stop \/ b \in nextExpected..(stop - 1)
    BY <1>3, <2>1, ListTypes
  <2> QED
    BY <1>1, <1>6, <2>2 DEF Shown
<1> QED
  BY <1>6, <1>7, <1>8, <1>9, <1>10 DEF Grown

LEMMA HistoryGrows ==
  ASSUME ListInv, NEW rows \in SUBSET (0..last), \A o \in rows : o < nextExpected,
         PREPEND_HISTORY(rows)
  PROVE  Grown
<1> DEFINE S == ToSet(messages) \cup rows
<1>1. messages' = Ascending(S) /\ UNCHANGED <<nextExpected, buffer>>
  BY DEF PREPEND_HISTORY
<1>2. S \in SUBSET (0..last) /\ last \in Nat
  BY ListTypes DEF Shown
<1>3. \A o \in S : o < nextExpected
  BY DEF ListInv, Shown
<1>4. ToSet(messages) \subseteq S
  OBVIOUS
<1> HIDE DEF S
<1>5. Ascending(S) \in Seq(S) /\ ToSet(Ascending(S)) = S /\ Increasing(Ascending(S))
  BY <1>2, AscendingSorts
<1>6. Ascending(S) \in Seq(0..last)
  BY <1>2, <1>5, SeqWiden
<1> QED
  BY <1>1, <1>3, <1>4, <1>5, <1>6, ListTypes DEF Grown, ListInv, Shown

-----------------------------------------------------------------------------
(* The steps.                                                               *)

LEMMA Requests ==
  /\ Idle \in Request /\ Idle.rows = {} /\ Idle.cursor = 0
  /\ \A c \in -1..(MaxOrdinal + 1) :
       Ask(c) \in Request /\ Ask(c).rows = {} /\ Ask(c).cursor = c /\ Ask(c) # Idle
  /\ \A r \in Request, rows \in SUBSET Ordinals :
       /\ Answered(r, rows) \in Request /\ Answered(r, rows).rows = rows
       /\ Answered(r, rows).cursor = r.cursor
<1>1. MaxOrdinal \in Nat
  BY FeedAssumption
<1>2. 0 \in -1..(MaxOrdinal + 1)
  BY <1>1
<1> QED
  BY <1>2 DEF Idle, Ask, Answered, Request

LEMMA InitFeed == Init => FeedInv
<1> SUFFICES ASSUME Init PROVE FeedInv
  OBVIOUS
<1>1. /\ Seeded \in Nat \ {0} /\ MaxOrdinal \in Nat /\ Seeded <= MaxOrdinal /\ MaxFailures \in Nat
  BY FeedAssumption
<1>2. /\ last = Seeded - 1 /\ messages = <<>> /\ nextExpected = 0 /\ buffer = {}
      /\ first = Ask(MaxOrdinal + 1) /\ repair = Idle /\ older = Idle
      /\ hasOlder = TRUE /\ failures = 0 /\ given = {} /\ pageStart = 0 /\ takenBack = {}
  BY DEF Init
<1>3. messages \in Seq(0..last) /\ DOMAIN messages = {} /\ Shown = {}
  BY <1>2, EmptySeq DEF Shown, ToSet
<1>4. last \in (Seeded - 1)..MaxOrdinal /\ last \in 0..MaxOrdinal /\ nextExpected \in 0..(last + 1)
  BY <1>1, <1>2
<1>5. first \in Request /\ first.rows = {} /\ MaxOrdinal + 1 \in -1..(MaxOrdinal + 1)
  BY <1>1, <1>2, Requests
<1>6. TypeOK
  BY <1>1, <1>2, <1>3, <1>4, <1>5, Requests DEF TypeOK, Ordinals
<1>7. ListInv
  BY <1>2, <1>3, <1>4 DEF ListInv, Increasing
<1>8. AnswersInv /\ PageInv /\ Accounted
  BY <1>2, <1>5, Requests DEF AnswersInv, PageInv, Accounted
<1>9. NoHole
  BY <1>2 DEF NoHole
<1> QED
  BY <1>6, <1>7, <1>8, <1>9 DEF FeedInv

LEMMA GrownKeeps ==
  ASSUME FeedInv, Grown, UNCHANGED <<last, pageStart, takenBack>>
  PROVE  /\ ListInv' /\ NoHole'
         /\ given' = given => Accounted'
         /\ \A o \in 0..last : given' = given \cup {o} /\ o \in ToSet(messages') \cup buffer'
              => Accounted'
<1>1. ListInv'
  BY ListTypes DEF FeedInv, ListInv, Grown, Shown
<1>2. NoHole'
  <2>1. pageStart \in Nat /\ nextExpected \in Nat /\ nextExpected' \in Nat
    BY ListTypes, FeedAssumption DEF FeedInv, TypeOK, Ordinals, Grown
  <2>2. \A n \in Nat : \A o \in pageStart..(n - 1) :
           o \in pageStart..(nextExpected - 1) \/ o \in nextExpected..(n - 1)
    BY <2>1
  <2>3. \A o \in pageStart..(nextExpected' - 1) :
           o \in pageStart..(nextExpected - 1) \/ o \in nextExpected..(nextExpected' - 1)
    BY <2>1, <2>2, Zenon
  <2> QED
    BY <2>3 DEF FeedInv, NoHole, Grown, Shown
<1>3. \A o \in given : o \in ToSet(messages') \cup buffer' \cup takenBack' \/ o < pageStart'
  BY DEF FeedInv, Accounted, Grown
<1> QED
  BY <1>1, <1>2, <1>3 DEF Accounted, Shown

LEMMA ReceiveStep ==
  ASSUME FeedInv, NEW o \in Ordinals, Receive(o)
  PROVE  FeedInv'
<1>1. /\ o \in Seeded..last /\ RECEIVE_EVENT(o) /\ given' = given \cup {o}
      /\ UNCHANGED <<last, first, repair, older, hasOlder, failures, pageStart, takenBack>>
  BY DEF Receive
<1>2. o \in 0..last /\ ListInv
  BY <1>1, FeedAssumption DEF FeedInv
<1>3. Grown /\ o \in ToSet(messages') \cup buffer'
  BY <1>1, <1>2, LateGrows, ExpectedGrows, EarlyGrows DEF RECEIVE_EVENT
<1>4. ListInv' /\ NoHole' /\ Accounted'
  BY <1>1, <1>2, <1>3, GrownKeeps
<1>5. TypeOK'
  BY <1>1, <1>4 DEF FeedInv, TypeOK, ListInv
<1>6. AnswersInv' /\ PageInv'
  <2>1. nextExpected \in Nat /\ nextExpected' \in Nat /\ nextExpected <= nextExpected'
    BY <1>2, <1>3, ListTypes DEF Grown
  <2> QED
    BY <1>1, <2>1 DEF FeedInv, AnswersInv, PageInv
<1> QED
  BY <1>4, <1>5, <1>6 DEF FeedInv

LEMMA CommitStep == ASSUME FeedInv, Commit PROVE FeedInv'
<1>1. /\ last < MaxOrdinal /\ last' = last + 1
      /\ UNCHANGED <<messages, nextExpected, buffer, first, repair, older, hasOlder, failures,
                     given, pageStart, takenBack>>
  BY DEF Commit, state, ghost
<1>2. /\ last \in Nat /\ MaxOrdinal \in Nat /\ last' \in 0..MaxOrdinal
      /\ last \in (Seeded - 1)..MaxOrdinal /\ Seeded \in Nat
  BY <1>1, ListTypes, FeedAssumption DEF FeedInv, TypeOK
<1>3. 0..last \subseteq 0..last' /\ Seeded..last \subseteq Seeded..last' /\ last' \in (Seeded - 1)..MaxOrdinal
      /\ 0..(last + 1) \subseteq 0..(last' + 1)
  BY <1>1, <1>2
<1>4. messages \in Seq(0..last')
  BY <1>3, SeqWiden DEF FeedInv, ListInv
<1>5. TypeOK'
  BY <1>1, <1>3, <1>4 DEF FeedInv, TypeOK
<1>6. ListInv'
  BY <1>1, <1>2, <1>3, <1>4 DEF FeedInv, ListInv, Shown
<1>7. AnswersInv' /\ PageInv' /\ NoHole' /\ Accounted'
  BY <1>1, <1>3 DEF FeedInv, AnswersInv, PageInv, NoHole, Accounted, Shown
<1> QED
  BY <1>5, <1>6, <1>7 DEF FeedInv

LEMMA RepairStep ==
  ASSUME FeedInv, StartRepair \/ RepairRead \/ Repaired \/ RepairFails
  PROVE  FeedInv'
<1>1. /\ UNCHANGED <<last, first, older, hasOlder, given, pageStart, takenBack>>
      /\ failures' \in 0..MaxFailures
  <2>1. failures' = failures \/ (failures < MaxFailures /\ failures' = failures + 1)
    BY DEF StartRepair, RepairRead, Repaired, RepairFails, Failure
  <2>2. failures \in 0..MaxFailures /\ MaxFailures \in Nat
    BY FeedAssumption DEF FeedInv, TypeOK
  <2>3. failures' \in 0..MaxFailures
    BY <2>1, <2>2
  <2> QED
    BY <2>3 DEF StartRepair, RepairRead, Repaired, RepairFails, ghost
<1>2. /\ last \in Nat /\ last <= MaxOrdinal /\ MaxOrdinal \in Nat
      /\ nextExpected \in 0..(last + 1) /\ repair \in Request
  BY ListTypes DEF FeedInv, ListInv, TypeOK
<1>3. repair' \in Request /\ repair'.rows \subseteq 0..last
  <2>1. CASE StartRepair
    <3>1. nextExpected - 1 \in -1..(MaxOrdinal + 1)
      BY <1>2
    <3> QED
      BY <2>1, <3>1, Requests DEF StartRepair
  <2>2. CASE RepairRead
    <3> DEFINE rows == RowsAfter(repair.cursor, RepairLimit)
    <3>1. rows \subseteq 0..last
      BY DEF RowsAfter
    <3>2. 0..last \subseteq Ordinals
      BY <1>2 DEF Ordinals
    <3>3. repair' = Answered(repair, rows)
      BY <2>2 DEF RepairRead
    <3>4. rows \in SUBSET Ordinals
      BY <3>1, <3>2
    <3> HIDE DEF rows
    <3>5. Answered(repair, rows) \in Request /\ Answered(repair, rows).rows = rows
      BY <1>2, <3>4, Requests
    <3> QED
      BY <3>1, <3>3, <3>5
  <2>3. CASE Repaired \/ RepairFails
    BY <2>3, Requests DEF Repaired, RepairFails
  <2> QED
    BY <2>1, <2>2, <2>3
<1>4. CASE UNCHANGED state
  <2>1. TypeOK' /\ ListInv' /\ AnswersInv' /\ PageInv' /\ NoHole' /\ Accounted'
    BY <1>1, <1>3, <1>4
       DEF FeedInv, TypeOK, ListInv, AnswersInv, PageInv, NoHole, Accounted, Shown, state
  <2> QED
    BY <2>1 DEF FeedInv
<1>5. CASE Repaired /\ Merge(repair.rows)
  <2>1. Grown
    BY <1>5, MergeGrows DEF FeedInv, AnswersInv
  <2>2. ListInv' /\ NoHole' /\ Accounted'
    BY <1>1, <2>1, GrownKeeps
  <2>3. TypeOK'
    BY <1>1, <1>3, <2>2 DEF FeedInv, TypeOK, ListInv
  <2>4. AnswersInv'
    BY <1>1, <1>3 DEF FeedInv, AnswersInv
  <2>5. PageInv'
    <3>1. nextExpected \in Nat /\ nextExpected' \in Nat /\ nextExpected <= nextExpected'
      BY <1>2, <2>1 DEF Grown
    <3> QED
      BY <1>1, <3>1 DEF FeedInv, PageInv
  <2> QED
    BY <2>2, <2>3, <2>4, <2>5 DEF FeedInv
<1> QED
  BY <1>4, <1>5 DEF StartRepair, RepairRead, Repaired, RepairFails, GAP_REPAIRED

LEMMA BoundedFailures ==
  ASSUME FeedInv, failures' = failures \/ Failure
  PROVE  failures' \in 0..MaxFailures
<1>1. failures' = failures \/ (failures < MaxFailures /\ failures' = failures + 1)
  BY DEF Failure
<1>2. failures \in 0..MaxFailures /\ MaxFailures \in Nat
  BY FeedAssumption DEF FeedInv, TypeOK
<1> QED
  BY <1>1, <1>2

LEMMA AnswerOfRequest ==
  ASSUME FeedInv, NEW r \in Request, NEW rows, rows \subseteq 0..last
  PROVE  /\ Answered(r, rows) \in Request /\ Answered(r, rows).rows = rows
         /\ Answered(r, rows).cursor = r.cursor
<1>1. rows \in SUBSET Ordinals
  BY ListTypes DEF FeedInv, Ordinals
<1> QED
  BY <1>1, Requests

LEMMA OlderStep ==
  ASSUME FeedInv, LoadOlder \/ OlderRead \/ OlderPage \/ OlderFails
  PROVE  FeedInv'
<1>1. /\ UNCHANGED <<last, first, repair, given, pageStart, takenBack>>
      /\ hasOlder' \in BOOLEAN
  BY DEF LoadOlder, OlderRead, OlderPage, OlderFails, ghost, FeedInv, TypeOK
<1>2. failures' \in 0..MaxFailures
  BY BoundedFailures DEF LoadOlder, OlderRead, OlderPage, OlderFails
<1>3. /\ last \in Nat /\ last <= MaxOrdinal /\ MaxOrdinal \in Nat
      /\ nextExpected \in 0..(last + 1) /\ older \in Request /\ older.cursor \in 0..nextExpected
  BY ListTypes DEF FeedInv, ListInv, TypeOK, PageInv
<1>4. CASE LoadOlder
  <2>1. messages # <<>> /\ messages \in Seq(0..last) /\ older' = Ask(messages[1]) /\ UNCHANGED state
    BY <1>4 DEF LoadOlder, FeedInv, ListInv
  <2>2. messages[1] \in Shown /\ DOMAIN messages = 1..Len(messages) /\ Len(messages) > 0
        /\ Len(messages) \in Nat
    BY <2>1, ListElements DEF Shown
  <2>3. messages[1] \in 0..last /\ messages[1] < nextExpected
    BY <2>2, ListTypes DEF FeedInv, ListInv
  <2>4. messages[1] \in -1..(MaxOrdinal + 1) /\ messages[1] \in 0..nextExpected
    BY <1>3, <2>3
  <2>5. older' \in Request /\ older'.rows = {} /\ older'.cursor = messages[1]
    BY <2>1, <2>4, Requests
  <2>6. first # Idle => messages[1] = 0
    <3> SUFFICES ASSUME first # Idle PROVE messages[1] = 0
      OBVIOUS
    <3>1. 0 \in pageStart..(nextExpected - 1)
      BY <1>3, <2>3 DEF FeedInv, PageInv
    <3>2. PICK i \in 1..Len(messages) : messages[i] = 0
      BY <2>2, <3>1 DEF FeedInv, NoHole, Shown, ToSet
    <3>3. i = 1 \/ messages[1] < messages[i]
      BY <2>2 DEF FeedInv, ListInv, Increasing
    <3> QED
      BY <2>3, <3>2, <3>3
  <2>7. TypeOK'
    BY <1>1, <1>2, <2>1, <2>5 DEF FeedInv, TypeOK, state
  <2>8. AnswersInv' /\ PageInv'
    BY <1>1, <2>1, <2>4, <2>5, <2>6 DEF FeedInv, AnswersInv, PageInv, state
  <2>9. ListInv' /\ NoHole' /\ Accounted'
    BY <1>1, <2>1 DEF FeedInv, ListInv, NoHole, Accounted, Shown, state
  <2> QED
    BY <2>7, <2>8, <2>9 DEF FeedInv
<1>5. CASE OlderRead \/ OlderFails
  <2>1. UNCHANGED state
    BY <1>5 DEF OlderRead, OlderFails
  <2>2. /\ older' \in Request /\ older'.rows \subseteq 0..last
        /\ older'.cursor = older.cursor \/ older'.cursor = 0
        /\ \A o \in older'.rows : o < older'.cursor
    <3>1. CASE OlderRead
      <4> DEFINE rows == RowsBefore(older.cursor, PageSize)
      <4>1. rows \subseteq 0..last /\ \A o \in rows : o < older.cursor
        BY DEF RowsBefore
      <4>2. older' = Answered(older, rows)
        BY <3>1 DEF OlderRead
      <4> HIDE DEF rows
      <4>3. /\ Answered(older, rows) \in Request /\ Answered(older, rows).rows = rows
            /\ Answered(older, rows).cursor = older.cursor
        BY <1>3, <4>1, AnswerOfRequest
      <4> QED
        BY <4>1, <4>2, <4>3
    <3>2. CASE OlderFails
      BY <3>2, Requests DEF OlderFails
    <3> QED
      BY <1>5, <3>1, <3>2
  <2>3. TypeOK'
    BY <1>1, <1>2, <2>1, <2>2 DEF FeedInv, TypeOK, state
  <2>4. AnswersInv' /\ PageInv'
    BY <1>1, <1>3, <2>1, <2>2 DEF FeedInv, AnswersInv, PageInv, state
  <2>5. ListInv' /\ NoHole' /\ Accounted'
    BY <1>1, <2>1 DEF FeedInv, ListInv, NoHole, Accounted, Shown, state
  <2> QED
    BY <2>3, <2>4, <2>5 DEF FeedInv
<1>6. CASE OlderPage
  <2>1. PREPEND_HISTORY(older.rows) /\ older' = Idle
    BY <1>6 DEF OlderPage
  <2>2. older.rows \in SUBSET (0..last) /\ \A o \in older.rows : o < nextExpected
    BY <1>3 DEF FeedInv, AnswersInv
  <2>3. Grown
    BY <2>1, <2>2, HistoryGrows DEF FeedInv
  <2>4. ListInv' /\ NoHole' /\ Accounted'
    <3>1. given' = given /\ UNCHANGED <<last, pageStart, takenBack>>
      BY <1>1
    <3> QED
      BY <2>3, <3>1, GrownKeeps
  <2>5. older' \in Request /\ older'.rows = {} /\ older'.cursor = 0
    BY <2>1, Requests
  <2>6. TypeOK'
    BY <1>1, <1>2, <2>4, <2>5 DEF FeedInv, TypeOK, ListInv
  <2>7. 0 \in 0..nextExpected'
    BY <1>3, <2>3 DEF Grown
  <2>8. AnswersInv' /\ PageInv'
    BY <1>1, <2>5, <2>7 DEF FeedInv, AnswersInv, PageInv
  <2> QED
    BY <2>4, <2>6, <2>8 DEF FeedInv
<1> QED
  BY <1>4, <1>5, <1>6

(* The first page replaces the list: what it holds, then what drains.       *)
LEMMA PageReplaces ==
  ASSUME FeedInv, FirstPage
  PROVE  /\ ListInv' /\ NoHole'
         /\ pageStart' \in 0..last
         /\ \A o \in buffer : o \in ToSet(messages') \cup buffer' \/ o < pageStart'
<1> DEFINE page == first.rows
           next == IF page = {} THEN 0 ELSE Max(page) + 1
           stop == FirstGap(next, buffer \ page)
           T == next..(stop - 1)
<1>1. /\ messages' = Ascending(page) \o Ascending(T)
      /\ nextExpected' = stop /\ buffer' = {o \in buffer \ page : o >= stop}
      /\ pageStart' = Min(page \cup {last}) /\ UNCHANGED last
  BY DEF FirstPage, INIT_MESSAGES
<1>2. /\ page \in SUBSET (0..last) /\ \A a, b \in page : a..b \subseteq page
      /\ last \in Nat /\ buffer \subseteq 0..last
  BY ListTypes DEF FeedInv, AnswersInv
<1> HIDE DEF page
<1>3. next \in 0..(last + 1) /\ \A o \in page : o < next
  <2>1. CASE page = {}
    BY <1>2, <2>1
  <2>2. CASE page # {}
    <3>1. Max(page) \in page /\ \A n \in page : n <= Max(page)
      BY <1>2, <2>2, MaxNat
    <3>2. next = Max(page) + 1 /\ Max(page) \in 0..last
      BY <1>2, <2>2, <3>1
    <3> HIDE DEF next
    <3> QED
      BY <1>2, <3>1, <3>2
  <2> QED
    BY <2>1, <2>2
<1>4. /\ pageStart' \in 0..last
      /\ \A o \in 0..last : o >= pageStart' /\ o < next => o \in page
  <2>1. page \cup {last} \in SUBSET Nat /\ page \cup {last} # {}
    BY <1>2
  <2>2. /\ Min(page \cup {last}) \in page \cup {last}
        /\ \A n \in page \cup {last} : Min(page \cup {last}) <= n
    BY <2>1, MinNat
  <2>3. pageStart' \in page \cup {last} /\ \A n \in page \cup {last} : pageStart' <= n
    BY <1>1, <2>2
  <2>4. pageStart' \in 0..last
    BY <1>2, <2>3
  <2>5. ASSUME NEW o \in 0..last, o >= pageStart', o < next PROVE o \in page
    <3>1. page # {}
      BY <1>2, <2>5
    <3>2. Max(page) \in page /\ next = Max(page) + 1 /\ Max(page) \in 0..last
      BY <1>2, <3>1, MaxNat
    <3>3. pageStart' \in page
      BY <1>2, <2>3, <2>4, <3>2
    <3>4. pageStart'..Max(page) \subseteq page
      BY <1>2, <3>2, <3>3
    <3>5. o <= Max(page)
      <4> HIDE DEF next
      <4> QED
        BY <2>5, <3>2
    <3> QED
      BY <2>4, <2>5, <3>2, <3>4, <3>5
  <2> QED
    BY <2>4, <2>5
<1> HIDE DEF next
<1>5. /\ stop \in next..(last + 1) /\ stop \in Nat
      /\ next..(stop - 1) \subseteq buffer \ page /\ stop \notin buffer \ page
  <2>1. buffer \ page \in SUBSET (0..last) /\ ListInv
    BY <1>2 DEF FeedInv
  <2> QED
    BY <1>3, <2>1, DrainStops
<1> HIDE DEF stop
<1>6. next \in Nat /\ T \in SUBSET (0..last) /\ \A o \in T : o >= next /\ o < stop
  BY <1>2, <1>3, <1>5
<1>7. /\ Ascending(page) \in Seq(0..last) /\ Increasing(Ascending(page))
      /\ ToSet(Ascending(page)) = page
  <2>1. /\ Ascending(page) \in Seq(page) /\ Increasing(Ascending(page))
        /\ ToSet(Ascending(page)) = page
    BY <1>2, AscendingSorts
  <2> QED
    BY <1>2, <2>1, SeqWiden
<1> HIDE DEF T
<1>8. /\ messages' \in Seq(0..last) /\ Increasing(messages') /\ ToSet(messages') = page \cup T
  <2> DEFINE s == Ascending(page)
  <2>1. s \in Seq(0..last) /\ Increasing(s) /\ \A o \in ToSet(s) : o < next
    BY <1>3, <1>7
  <2>2. ToSet(s) = page /\ messages' = s \o Ascending(T)
    BY <1>1, <1>7
  <2> HIDE DEF s
  <2>3. /\ s \o Ascending(T) \in Seq(0..last) /\ Increasing(s \o Ascending(T))
        /\ ToSet(s \o Ascending(T)) = ToSet(s) \cup T
    BY SMTT(30), <1>2, <1>6, <2>1, AppendLater
  <2> QED
    BY <2>2, <2>3
<1>9. /\ \A o \in page : o < stop
      /\ stop \in 0..(last + 1)
  BY <1>2, <1>3, <1>5
<1>10. \A o \in 0..last : o >= pageStart' /\ o < stop => o \in ToSet(messages')
  <2>1. \A o \in 0..last : o >= next /\ o < stop => o \in T
    BY <1>5, <1>6 DEF T
  <2>2. \A o \in 0..last : o < next \/ o >= next
    BY <1>6
  <2> QED
    BY <1>4, <1>8, <2>1, <2>2
<1>11. ListInv'
  <2>1. last' \in 0..MaxOrdinal /\ 0..last' = 0..last
    BY <1>1 DEF FeedInv, ListInv
  <2>2. \A o \in buffer' : o > nextExpected'
    BY <1>1, <1>2, <1>5
  <2>3. \A o \in ToSet(messages') : o < nextExpected'
    BY <1>1, <1>6, <1>8, <1>9
  <2>4. nextExpected' \in 0..(last' + 1) /\ buffer' \subseteq 0..last'
    BY <1>1, <1>2, <1>9
  <2> QED
    BY <1>1, <1>8, <2>1, <2>2, <2>3, <2>4 DEF ListInv, Shown
<1>12. NoHole'
  <2>1. \A p \in 0..last : \A o \in p..(stop - 1) : o \in 0..last /\ o >= p /\ o < stop
    BY <1>2, <1>5
  <2>2. \A o \in pageStart'..(stop - 1) : o \in 0..last /\ o >= pageStart' /\ o < stop
    BY <1>4, <2>1, Zenon
  <2> QED
    BY <1>1, <1>10, <2>2 DEF NoHole, Shown
<1>13. \A o \in buffer : o \in ToSet(messages') \cup buffer' \/ o < pageStart'
  <2> SUFFICES ASSUME NEW o \in buffer, o \notin buffer', ~(o < pageStart')
               PROVE  o \in ToSet(messages')
    OBVIOUS
  <2>1. o \in 0..last /\ o >= pageStart'
    BY <1>2, <1>4
  <2>2. o < stop \/ o >= stop
    BY <1>5, <2>1
  <2>3. CASE o >= stop
    BY <1>1, <1>8, <2>3
  <2> QED
    BY <1>10, <2>1, <2>2, <2>3
<1> QED
  BY <1>4, <1>11, <1>12, <1>13

LEMMA FirstStep ==
  ASSUME FeedInv, FirstRead \/ FirstPage \/ FirstFails
  PROVE  FeedInv'
<1>1. /\ UNCHANGED <<last, repair, older, given>> /\ first # Idle
  BY DEF FirstRead, FirstPage, FirstFails, ghost, Idle
<1>2. /\ failures' \in 0..MaxFailures /\ hasOlder' \in BOOLEAN
  BY BoundedFailures DEF FirstRead, FirstPage, FirstFails, FeedInv, TypeOK
<1>3. /\ pageStart = 0 /\ takenBack = {} /\ older.cursor = 0
      /\ last \in Nat /\ last <= MaxOrdinal /\ MaxOrdinal \in Nat
      /\ first \in Request
  BY <1>1, ListTypes DEF FeedInv, PageInv, TypeOK
<1>4. CASE FirstRead
  <2> DEFINE rows == RowsBefore(first.cursor, PageSize)
  <2>1. first' = Answered(first, rows) /\ UNCHANGED <<state, ghost, hasOlder, failures>>
    BY <1>4 DEF FirstRead
  <2>2. rows \subseteq 0..last
    BY DEF RowsBefore
  <2>3. \A a, b \in rows : a..b \subseteq rows
    <3>1. first.cursor \in Int
      BY <1>3 DEF Request
    <3> DEFINE low == Min({first.cursor, last + 1}) - PageSize
    <3>2. rows = {o \in 0..last : o < first.cursor /\ o >= low}
      BY DEF RowsBefore
    <3>3. low \in Int
      <4>1. Min({first.cursor, last + 1}) \in {first.cursor, last + 1}
        <5>1. first.cursor <= last + 1 \/ last + 1 <= first.cursor
          BY <1>3, <3>1
        <5>2. \E x \in {first.cursor, last + 1} : \A y \in {first.cursor, last + 1} : x =< y
          BY <1>3, <3>1, <5>1
        <5> QED
          BY <5>2 DEF Min
      <4> QED
        BY <1>3, <3>1, <4>1, FeedAssumption
    <3> HIDE DEF low, rows
    <3>4. ASSUME NEW a \in rows, NEW b \in rows, NEW o \in a..b PROVE o \in rows
      <4>1. a \in 0..last /\ b \in 0..last /\ a >= low /\ b < first.cursor
        BY <3>2
      <4>2. o \in 0..last /\ o >= low /\ o < first.cursor
        BY <1>3, <3>1, <3>3, <4>1
      <4> QED
        BY <3>2, <4>2
    <3> QED
      BY <3>4
  <2> HIDE DEF rows
  <2>4. first' \in Request /\ first'.rows = rows
    BY <1>3, <2>1, <2>2, AnswerOfRequest
  <2>5. TypeOK'
    BY <1>1, <1>2, <2>1, <2>4 DEF FeedInv, TypeOK, state, ghost
  <2>6. AnswersInv' /\ PageInv'
    BY <1>1, <1>3, <2>1, <2>2, <2>3, <2>4 DEF FeedInv, AnswersInv, PageInv, state, ghost
  <2>7. ListInv' /\ NoHole' /\ Accounted'
    BY <1>1, <2>1 DEF FeedInv, ListInv, NoHole, Accounted, Shown, state, ghost
  <2> QED
    BY <2>5, <2>6, <2>7 DEF FeedInv
<1>5. CASE FirstPage
  <2>1. /\ ListInv' /\ NoHole' /\ pageStart' \in 0..last
        /\ \A o \in buffer : o \in ToSet(messages') \cup buffer' \/ o < pageStart'
    BY <1>5, PageReplaces
  <2>2. first' = Idle /\ takenBack' = {o \in ToSet(messages) : o >= nextExpected'}
    BY <1>5 DEF FirstPage
  <2>3. nextExpected' \in Nat /\ Shown \subseteq 0..last /\ given \subseteq 0..last
    BY <1>1, <2>1, ListTypes, FeedAssumption DEF ListInv, FeedInv, TypeOK
  <2>4. Accounted'
    <3> SUFFICES ASSUME NEW o \in given, ~(o < pageStart')
                 PROVE  o \in ToSet(messages') \cup buffer' \cup takenBack'
      BY <1>1 DEF Accounted, Shown
    <3>1. o \in Shown \/ o \in buffer
      BY <1>3, <2>3 DEF FeedInv, Accounted
    <3>2. CASE o \in buffer
      BY <2>1, <3>2
    <3>3. CASE o \in Shown
      <4>1. o \in 0..last /\ (o >= nextExpected' \/ o < nextExpected')
        BY <2>3
      <4>2. CASE o >= nextExpected'
        BY <2>2, <3>3, <4>2 DEF Shown
      <4>3. CASE o < nextExpected'
        <5>1. \A p \in 0..last, n \in Nat : ~(o < p) /\ o < n => o \in p..(n - 1)
          BY <4>1, <1>3
        <5>2. o \in pageStart'..(nextExpected' - 1)
          BY <2>1, <2>3, <4>3, <5>1, Zenon
        <5> QED
          BY <2>1, <5>2 DEF NoHole, Shown
      <4> QED
        BY <4>1, <4>2, <4>3
    <3> QED
      BY <3>1, <3>2, <3>3
  <2>5. TypeOK'
    <3>1. pageStart' \in Ordinals /\ takenBack' \subseteq Ordinals
      <4>1. 0..last \subseteq 0..MaxOrdinal
        BY <1>3
      <4>2. takenBack' \subseteq 0..last
        BY <2>2, <2>3 DEF Shown
      <4> QED
        BY <2>1, <4>1, <4>2 DEF Ordinals
    <3> QED
      BY <1>1, <1>2, <2>1, <2>2, <3>1, Requests DEF FeedInv, TypeOK, ListInv
  <2>6. AnswersInv' /\ PageInv'
    <3>1. 0 \in 0..nextExpected'
      BY <2>3
    <3> QED
      BY <1>1, <1>3, <2>2, <3>1, Requests DEF FeedInv, AnswersInv, PageInv
  <2> QED
    BY <2>1, <2>4, <2>5, <2>6 DEF FeedInv
<1>6. CASE FirstFails
  <2>1. first' = Idle /\ UNCHANGED <<state, ghost, hasOlder>>
    BY <1>6 DEF FirstFails
  <2>2. TypeOK'
    BY <1>1, <1>2, <2>1, Requests DEF FeedInv, TypeOK, state, ghost
  <2>3. AnswersInv' /\ PageInv'
    BY <1>1, <2>1, Requests DEF FeedInv, AnswersInv, PageInv, state, ghost
  <2>4. ListInv' /\ NoHole' /\ Accounted'
    BY <1>1, <2>1 DEF FeedInv, ListInv, NoHole, Accounted, Shown, state, ghost
  <2> QED
    BY <2>2, <2>3, <2>4 DEF FeedInv
<1> QED
  BY <1>4, <1>5, <1>6

LEMMA FeedStep == ASSUME FeedInv, [Next]_vars PROVE FeedInv'
<1>1. CASE UNCHANGED vars
  BY <1>1 DEF vars, FeedInv, TypeOK, ListInv, AnswersInv, PageInv, NoHole, Accounted, Shown
<1> QED
  BY <1>1, CommitStep, ReceiveStep, FirstStep, RepairStep, OlderStep DEF Next

-----------------------------------------------------------------------------
(* The list, the answers under way and what they may still do: inductive.   *)
THEOREM FeedInductive == Spec => []FeedInv
BY InitFeed, FeedStep, PTL DEF Spec

(* Requests return stored messages only, and every variable keeps its type. *)
THEOREM TypeCorrect == Spec => []TypeOK
<1>1. FeedInv => TypeOK
  BY DEF FeedInv
<1> QED
  BY <1>1, FeedInductive, PTL

(* The list is rendered in feed order without duplicates, and what is held  *)
(* back is beyond a gap, whatever races with the stream (feedReducer.ts).   *)
THEOREM ListInOrder == Spec => []InOrder
<1>1. ASSUME FeedInv PROVE InOrder
  <2>1. messages \in Seq(0..last) /\ Increasing(messages)
    BY <1>1 DEF FeedInv, ListInv
  <2>2. DOMAIN messages = 1..Len(messages) /\ Len(messages) \in Nat
    BY <2>1, LenProperties
  <2>3. \A i \in 1..(Len(messages) - 1) : messages[i] < messages[i + 1]
    <3>1. \A i \in 1..(Len(messages) - 1) :
            i \in 1..Len(messages) /\ i + 1 \in 1..Len(messages) /\ i < i + 1
      BY <2>2
    <3> QED
      BY <2>1, <2>2, <3>1 DEF Increasing
  <2> QED
    BY <1>1, <2>3 DEF FeedInv, ListInv, InOrder
<1> QED
  BY <1>1, FeedInductive, PTL

(* From the first page on, nothing after a gap is rendered before the gap   *)
(* is closed.                                                               *)
THEOREM ListWithoutHole == Spec => []NoHole
<1>1. FeedInv => NoHole
  BY DEF FeedInv
<1> QED
  BY <1>1, FeedInductive, PTL

(* A delivered message is lost only when a first page that was read before  *)
(* it replaces the list (INIT_MESSAGES, feedReducer.ts:29).                 *)
THEOREM LostToFirstPageOnly == Spec => []LossOnlyByFirstPage
<1>1. FeedInv => LossOnlyByFirstPage
  BY DEF FeedInv, Accounted, LossOnlyByFirstPage, Quiet, Rendered
<1> QED
  BY <1>1, FeedInductive, PTL
=============================================================================
