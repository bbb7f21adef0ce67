----------------------------- MODULE OrderFacts -----------------------------
(***************************************************************************)
(* Facts about numbers, finite ordered sets and folds that the proofs of   *)
(* several components rest on: the modules that sort by a key and number   *)
(* the result use them, and those that fold over a set or a sequence.      *)
(***************************************************************************)
EXTENDS Integers, FiniteSetTheorems, WellFoundedInduction, NaturalsInduction, TLAPS

-----------------------------------------------------------------------------
(* A set of naturals has a least element.                                   *)

NatLess == {p \in Nat \X Nat : p[1] < p[2]}

LEMMA NatLessWellFounded == IsWellFoundedOn(NatLess, Nat)
<1>1. OpToRel(<, Nat) = NatLess
  BY DEF OpToRel, NatLess
<1> QED
  BY <1>1, NatLessThanWellFounded

LEMMA LeastNat ==
  ASSUME NEW S \in SUBSET Nat, S # {}
  PROVE  \E m \in S : \A n \in S : m <= n
<1>1. PICK m \in S : \A n \in S : ~ (<<n, m>> \in NatLess)
  BY NatLessWellFounded, WFMin
<1>2. ASSUME NEW n \in S PROVE m <= n
  <2>1. CASE n < m
    <3>1. <<n, m>> \in Nat \X Nat /\ <<n, m>>[1] = n /\ <<n, m>>[2] = m
      OBVIOUS
    <3>2. <<n, m>> \in NatLess
      BY <2>1, <3>1 DEF NatLess
    <3> QED
      BY <1>1, <3>2
  <2> QED
    BY <2>1
<1> QED
  BY <1>2

-----------------------------------------------------------------------------
(* Ranks: in a finite set that is ordered every place is taken.             *)

Chain(T, below) ==
  /\ below \in [T -> SUBSET T]
  /\ \A x \in T : x \notin below[x]
  /\ \A x, y \in T : x # y => x \in below[y] \/ y \in below[x]
  /\ \A x, y \in T : x \in below[y] => below[x] \subseteq below[y]

LEMMA Ranks ==
  ASSUME NEW T, IsFiniteSet(T), NEW below, Chain(T, below)
  PROVE  /\ Cardinality(T) \in Nat
         /\ \A x \in T : Cardinality(below[x]) \in 0..(Cardinality(T) - 1)
         /\ \A x, y \in T : x \in below[y] => Cardinality(below[x]) < Cardinality(below[y])
         /\ \A i \in 1..Cardinality(T) : \E x \in T : Cardinality(below[x]) = i - 1
<1>1. Cardinality(T) \in Nat
  BY FS_CardinalityType
<1>2. ASSUME NEW x \in T
      PROVE  IsFiniteSet(below[x]) /\ Cardinality(below[x]) \in 0..(Cardinality(T) - 1)
  <2>1. below[x] \in SUBSET (T \ {x})
    BY DEF Chain
  <2>2. IsFiniteSet(T \ {x}) /\ Cardinality(T \ {x}) = Cardinality(T) - 1
    BY FS_RemoveElement
  <2>3. IsFiniteSet(below[x]) /\ Cardinality(below[x]) <= Cardinality(T) - 1
    BY <2>1, <2>2, FS_Subset
  <2>4. Cardinality(below[x]) \in Nat
    BY <2>3, FS_CardinalityType
  <2> QED
    BY <1>1, <2>3, <2>4
<1>3. ASSUME NEW x \in T, NEW y \in T, x \in below[y]
      PROVE  Cardinality(below[x]) < Cardinality(below[y])
  <2>1. below[x] \in SUBSET below[y] /\ below[x] # below[y]
    BY <1>3 DEF Chain
  <2>2. /\ Cardinality(below[x]) <= Cardinality(below[y])
        /\ Cardinality(below[y]) # Cardinality(below[x])
    BY <1>2, <2>1, FS_Subset
  <2> QED
    BY <1>2, <2>2
<1> DEFINE rank == [x \in T |-> Cardinality(below[x]) + 1]
<1>4. rank \in [T -> 1..Cardinality(T)]
  BY <1>1, <1>2
<1>5. \A x, y \in T : rank[x] = rank[y] => x = y
  <2> SUFFICES ASSUME NEW x \in T, NEW y \in T, x # y PROVE rank[x] # rank[y]
    OBVIOUS
  <2>1. Cardinality(below[x]) \in Nat /\ Cardinality(below[y]) \in Nat
    BY <1>2
  <2>2. x \in below[y] \/ y \in below[x]
    BY DEF Chain
  <2> QED
    BY <1>3, <2>1, <2>2
<1>6. rank \in Injection(T, 1..Cardinality(T))
  BY <1>4, <1>5 DEF Injection, IsInjective
<1>7. IsFiniteSet(1..Cardinality(T)) /\ Cardinality(1..Cardinality(T)) = Cardinality(T)
  <2>1. 1 \in Int /\ Cardinality(T) \in Int
    BY <1>1
  <2>2. /\ IsFiniteSet(1..Cardinality(T))
        /\ Cardinality(1..Cardinality(T)) =
             IF 1 > Cardinality(T) THEN 0 ELSE Cardinality(T) - 1 + 1
    BY <2>1, FS_Interval
  <2> QED
    BY <1>1, <2>2
<1>8. rank \in Surjection(T, 1..Cardinality(T))
  BY <1>6, <1>7, FS_Injection
<1>9. ASSUME NEW i \in 1..Cardinality(T)
      PROVE  \E x \in T : Cardinality(below[x]) = i - 1
  <2>1. PICK x \in T : rank[x] = i
    BY <1>8 DEF Surjection
  <2>2. Cardinality(below[x]) \in Nat /\ i \in Nat
    BY <1>1, <1>2
  <2> QED
    BY <2>1, <2>2
<1> QED
  BY <1>1, <1>2, <1>3, <1>9

-----------------------------------------------------------------------------
(* Folds.  The elements of a finite set S are taken one at a time: pick[s]  *)
(* is the one that is taken from what is left, s.                           *)

Picks(pick, S) == \A s \in SUBSET S : s # {} => pick[s] \in s
Folding(iter, S, pick, base, step) ==
    iter = [s \in SUBSET S |-> IF s = {} THEN base ELSE step[s][iter[s \ {pick[s]}]]]

\* A part has a size, and one that loses an element has a smaller one.
LEMMA PartSizes ==
  ASSUME NEW S, IsFiniteSet(S)
  PROVE  /\ \A s \in SUBSET S : IsFiniteSet(s) /\ Cardinality(s) \in Nat
         /\ \A s \in SUBSET S : \A x \in s :
               s \ {x} \in SUBSET S /\ Cardinality(s \ {x}) = Cardinality(s) - 1
<1>1. \A s \in SUBSET S : IsFiniteSet(s) /\ Cardinality(s) \in Nat
  BY FS_Subset, FS_CardinalityType
<1> QED
  BY <1>1, FS_RemoveElement

\* What holds of nothing, and of every part when it holds of the part without
\* its picked element, holds of every part.
LEMMA PickInduction ==
  ASSUME NEW S, IsFiniteSet(S), NEW pick, Picks(pick, S), NEW G,
         {} \in G,
         \A s \in SUBSET S : s # {} /\ s \ {pick[s]} \in G => s \in G
  PROVE  SUBSET S \subseteq G
<1> DEFINE sizes == {Cardinality(s) : s \in (SUBSET S) \ G}
<1> SUFFICES ASSUME (SUBSET S) \ G # {} PROVE FALSE
  OBVIOUS
<1>1. sizes \in SUBSET Nat /\ sizes # {}
  BY PartSizes
<1>2. PICK s \in (SUBSET S) \ G : \A n \in sizes : Cardinality(s) <= n
  <2> HIDE DEF sizes
  <2>1. PICK m \in sizes : \A n \in sizes : m <= n
    BY <1>1, LeastNat
  <2> QED
    BY <2>1 DEF sizes
<1>3. s # {} /\ pick[s] \in s
  BY <1>2 DEF Picks
<1>4. /\ s \ {pick[s]} \in SUBSET S /\ Cardinality(s) \in Nat
      /\ Cardinality(s \ {pick[s]}) = Cardinality(s) - 1
  BY <1>2, <1>3, PartSizes
<1>5. s \ {pick[s]} \notin G
  BY <1>2, <1>3
<1>6. Cardinality(s \ {pick[s]}) \in sizes
  BY <1>4, <1>5
<1>7. Cardinality(s) <= Cardinality(s \ {pick[s]})
  BY <1>2, <1>6
<1> QED
  BY <1>4, <1>7

\* The function a fold is defined by exists; the step is a function too.
LEMMA FoldExists ==
  ASSUME NEW S, IsFiniteSet(S), NEW pick, Picks(pick, S), NEW base, NEW step
  PROVE  \E iter : Folding(iter, S, pick, base, step)
<1> DEFINE Next(g) == [s \in SUBSET S |-> IF s = {} THEN base ELSE step[s][g[s \ {pick[s]}]]]
           Upto(g, n) == \A s \in SUBSET S : Cardinality(s) <= n => g[s] = Next(g)[s]
           bad == {n \in Nat : ~\E g : Upto(g, n)}
<1>1. \E g : Upto(g, 0)
  <2> DEFINE g == [s \in SUBSET S |-> base]
  <2>1. ASSUME NEW s \in SUBSET S, Cardinality(s) <= 0 PROVE s = {}
    <3>1. IsFiniteSet(s) /\ Cardinality(s) \in Nat
      BY PartSizes
    <3> QED
      BY <2>1, <3>1, FS_EmptySet
  <2>2. Upto(g, 0)
    BY <2>1
  <2> QED
    BY <2>2
<1>2. ASSUME NEW n \in Nat, NEW g, Upto(g, n) PROVE Upto(Next(g), n + 1)
  <2> SUFFICES ASSUME NEW s \in SUBSET S, Cardinality(s) <= n + 1
               PROVE  Next(g)[s] = Next(Next(g))[s]
    OBVIOUS
  <2>1. CASE s = {}
    BY <2>1
  <2>2. CASE s # {}
    <3>1. pick[s] \in s
      BY <2>2 DEF Picks
    <3>2. /\ s \ {pick[s]} \in SUBSET S /\ Cardinality(s) \in Nat
          /\ Cardinality(s \ {pick[s]}) = Cardinality(s) - 1
      BY <3>1, PartSizes
    <3>3. Cardinality(s \ {pick[s]}) <= n
      BY <3>2
    <3>4. g[s \ {pick[s]}] = Next(g)[s \ {pick[s]}]
      BY <1>2, <3>2, <3>3
    <3> QED
      BY <2>2, <3>4
  <2> QED
    BY <2>1, <2>2
<1> HIDE DEF Next, Upto
<1>3. bad = {}
  <2> SUFFICES ASSUME bad # {} PROVE FALSE
    OBVIOUS
  <2>1. PICK m \in bad : \A n \in bad : m <= n
    <3>1. bad \in SUBSET Nat
      OBVIOUS
    <3> HIDE DEF bad
    <3> QED
      BY <3>1, LeastNat
  <2>2. m \in Nat /\ m # 0
    BY <1>1
  <2>3. m - 1 \in Nat /\ m - 1 \notin bad
    BY <2>1, <2>2
  <2>4. PICK g : Upto(g, m - 1)
    BY <2>3
  <2>5. Upto(Next(g), (m - 1) + 1)
    BY <1>2, <2>3, <2>4
  <2>6. (m - 1) + 1 = m
    BY <2>2
  <2> QED
    BY <2>1, <2>5, <2>6
<1>4. Cardinality(S) \in Nat
  BY FS_CardinalityType
<1>5. PICK g : Upto(g, Cardinality(S))
  BY <1>3, <1>4
<1>6. \A s \in SUBSET S : g[s] = Next(g)[s]
  BY <1>5, FS_Subset DEF Upto
<1>7. Next(g) = Next(Next(g))
  <2>1. \A s \in SUBSET S : s # {} => s \ {pick[s]} \in SUBSET S
    OBVIOUS
  <2> QED
    BY <1>6, <2>1 DEF Next
<1>8. Folding(Next(g), S, pick, base, step)
  BY <1>7 DEF Next, Folding
<1> QED
  BY <1>8

\* One that keeps to sets that grow along with the elements taken.
LEMMA FoldWithin ==
  ASSUME NEW S, IsFiniteSet(S), NEW pick, Picks(pick, S), NEW base, NEW step, NEW I,
         base \in I[{}],
         \A s \in SUBSET S : s # {} => \A v \in I[s \ {pick[s]}] : step[s][v] \in I[s]
  PROVE  \E iter : Folding(iter, S, pick, base, step) /\ \A s \in SUBSET S : iter[s] \in I[s]
<1>1. PICK iter : Folding(iter, S, pick, base, step)
  BY FoldExists
<1> DEFINE G == {s \in SUBSET S : iter[s] \in I[s]}
<1>2. {} \in G
  BY <1>1 DEF Folding
<1>3. ASSUME NEW s \in SUBSET S, s # {}, s \ {pick[s]} \in G PROVE s \in G
  <2>1. iter[s] = step[s][iter[s \ {pick[s]}]]
    BY <1>1, <1>3 DEF Folding
  <2> QED
    BY <1>3, <2>1
<1> HIDE DEF G
<1>4. SUBSET S \subseteq G
  BY <1>2, <1>3, PickInduction
<1> QED
  BY <1>1, <1>4 DEF G

=============================================================================
