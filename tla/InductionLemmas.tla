----------------------------- MODULE InductionLemmas ----------------------------
(***************************************************************************)
(* Facts that several proofs need, and that rest on induction: the least   *)
(* element of a set of numbers, the ranks of what is sorted, and functions *)
(* that are defined by recursion along 0..N or 1..N.                       *)
(***************************************************************************)
EXTENDS Naturals, Integers, Sequences, FiniteSetTheorems, WellFoundedInduction, TLAPS

--------------------------------------------------------------------------------
(***************************************************************************)
(* Least and greatest elements                                             *)
(***************************************************************************)

\* A set of naturals that is not empty has a least element.
LEMMA LeastElement ==
    ASSUME NEW S, S \subseteq Nat, S # {}
    PROVE  \E i \in S : \A j \in S : i =< j
<1>1. PICK i \in S : \A j \in S : ~(<<j, i>> \in OpToRel(<, Nat))
  BY NatLessThanWellFounded, WFMin
<1>2. \A j \in S : ~(j < i)
  BY <1>1 DEF OpToRel
<1>3. QED
  BY <1>2

\* And one that is bounded has a greatest.
LEMMA GreatestElement ==
    ASSUME NEW n \in Nat, NEW S, S \subseteq 0..n, S # {}
    PROVE  \E i \in S : \A j \in S : j =< i
<1> DEFINE T == {n - i : i \in S}
<1>1. \A i \in S : i \in Nat /\ i =< n
  OBVIOUS
<1>2. T \subseteq Nat /\ T # {}
  <2>1. ASSUME NEW i \in S PROVE n - i \in Nat
    BY <1>1
  <2>2. QED
    BY <2>1
<1>3. PICK t \in T : \A u \in T : t =< u
  <2> HIDE DEF T
  <2>1. QED
    BY <1>2, LeastElement
<1>4. PICK i \in S : t = n - i
  BY <1>3
<1>5. ASSUME NEW j \in S PROVE j =< i
  <2>1. n - j \in T
    OBVIOUS
  <2>2. n - i =< n - j
    BY <1>3, <1>4, <2>1
  <2>3. QED
    BY <1>1, <2>2
<1>6. QED
  BY <1>5

--------------------------------------------------------------------------------
(***************************************************************************)
(* Ranks                                                                   *)
(***************************************************************************)

\* upTo gives for each element what is sorted up to it and with it.
Sorts(upTo, S) ==
    /\ \A i \in S : upTo[i] \subseteq S /\ i \in upTo[i]
    /\ \A i, k \in S :
          i # k => \/ upTo[i] \subseteq upTo[k] /\ k \notin upTo[i]
                   \/ upTo[k] \subseteq upTo[i] /\ i \notin upTo[k]

\* How many these are numbers the elements without a gap.
Numbers(upTo, S) ==
    /\ Cardinality(S) \in Nat
    /\ \A i \in S : Cardinality(upTo[i]) \in 1..Cardinality(S)
    /\ \A i, k \in S :
          /\ Cardinality(upTo[i]) = Cardinality(upTo[k]) => i = k
          /\ i # k /\ i \in upTo[k] => Cardinality(upTo[i]) < Cardinality(upTo[k])
    /\ \A n \in 1..Cardinality(S) : \E i \in S : Cardinality(upTo[i]) = n

\* The places of what is sorted number it.
LEMMA PlacesNumber ==
    ASSUME NEW S, IsFiniteSet(S), NEW upTo, Sorts(upTo, S)
    PROVE  Numbers(upTo, S)
<1> DEFINE rank == [i \in S |-> Cardinality(upTo[i])]
<1>1. Cardinality(S) \in Nat
  BY FS_CardinalityType
<1>2. ASSUME NEW i \in S
      PROVE  /\ IsFiniteSet(upTo[i])
             /\ Cardinality(upTo[i]) \in 1..Cardinality(S)
  <2>1. upTo[i] \in SUBSET S /\ i \in upTo[i]
    BY DEF Sorts
  <2>2. IsFiniteSet(upTo[i]) /\ Cardinality(upTo[i]) =< Cardinality(S)
    BY <2>1, FS_Subset
  <2>3. Cardinality(upTo[i]) \in Nat /\ Cardinality(upTo[i]) # 0
    BY <2>1, <2>2, FS_CardinalityType, FS_EmptySet
  <2>4. QED
    BY <1>1, <2>2, <2>3
<1>3. ASSUME NEW i \in S, NEW k \in S, upTo[i] \subseteq upTo[k], k \notin upTo[i]
      PROVE  Cardinality(upTo[i]) < Cardinality(upTo[k])
  <2>1. /\ IsFiniteSet(upTo[k])
        /\ Cardinality(upTo[i]) \in Nat /\ Cardinality(upTo[k]) \in Nat
    BY <1>1, <1>2
  <2>2. /\ Cardinality(upTo[i]) =< Cardinality(upTo[k])
        /\ Cardinality(upTo[k]) = Cardinality(upTo[i]) => upTo[k] = upTo[i]
    BY <1>3, <2>1, FS_Subset
  <2>3. upTo[k] # upTo[i]
    BY <1>3 DEF Sorts
  <2>4. QED
    BY <2>1, <2>2, <2>3
<1>4. ASSUME NEW i \in S, NEW k \in S, i # k
      PROVE  /\ Cardinality(upTo[i]) # Cardinality(upTo[k])
             /\ i \in upTo[k] => Cardinality(upTo[i]) < Cardinality(upTo[k])
  <2>1. Cardinality(upTo[i]) \in Nat /\ Cardinality(upTo[k]) \in Nat
    BY <1>1, <1>2
  <2>2. CASE upTo[i] \subseteq upTo[k] /\ k \notin upTo[i]
    BY <1>3, <2>1, <2>2
  <2>3. CASE upTo[k] \subseteq upTo[i] /\ i \notin upTo[k]
    BY <1>3, <2>1, <2>3
  <2>4. QED
    BY <1>4, <2>2, <2>3 DEF Sorts
<1>5. rank \in Injection(S, 1..Cardinality(S))
  BY <1>2, <1>4 DEF Injection, IsInjective
<1>6. /\ IsFiniteSet(1..Cardinality(S))
      /\ Cardinality(1..Cardinality(S)) = Cardinality(S)
  BY <1>1, FS_Interval
<1>7. rank \in Surjection(S, 1..Cardinality(S))
  BY <1>5, <1>6, FS_Injection
<1>8. \A n \in 1..Cardinality(S) : \E i \in S : Cardinality(upTo[i]) = n
  BY <1>7 DEF Surjection
<1>9. QED
  BY <1>1, <1>2, <1>4, <1>8 DEF Numbers

\* How many elements of S are not larger than i.
RankIn(S, i) == Cardinality({j \in S : j =< i})

\* Ranks number the elements of a finite set of naturals, without a gap.
LEMMA RanksNumber ==
    ASSUME NEW S, S \subseteq Nat, IsFiniteSet(S)
    PROVE  /\ Cardinality(S) \in Nat
           /\ \A i \in S : RankIn(S, i) \in 1..Cardinality(S)
           /\ \A i, k \in S : RankIn(S, i) = RankIn(S, k) => i = k
           /\ \A n \in 1..Cardinality(S) : \E i \in S : RankIn(S, i) = n
<1> DEFINE upTo == [i \in S |-> {j \in S : j =< i}]
<1>1. \A i \in S : upTo[i] \subseteq S /\ i \in upTo[i]
  OBVIOUS
<1>2. ASSUME NEW i \in S, NEW k \in S, i < k
      PROVE  upTo[i] \subseteq upTo[k] /\ k \notin upTo[i]
  <2>1. i \in Nat /\ k \in Nat /\ \A j \in S : j \in Nat
    OBVIOUS
  <2>2. \A j \in S : j =< i => j =< k
    BY <1>2, <2>1
  <2>3. ~(k =< i)
    BY <1>2, <2>1
  <2>4. upTo[i] = {j \in S : j =< i} /\ upTo[k] = {j \in S : j =< k}
    OBVIOUS
  <2> HIDE DEF upTo
  <2>5. QED
    BY <2>2, <2>3, <2>4
<1>3. \A i, k \in S : i # k => i < k \/ k < i
  OBVIOUS
<1>4. \A i, k \in S :
         i # k => \/ upTo[i] \subseteq upTo[k] /\ k \notin upTo[i]
                  \/ upTo[k] \subseteq upTo[i] /\ i \notin upTo[k]
  BY <1>2, <1>3
<1>5. \A i \in S : RankIn(S, i) = Cardinality(upTo[i])
  BY DEF RankIn
<1> HIDE DEF upTo
<1>6. Numbers(upTo, S)
  <2>1. Sorts(upTo, S)
    BY <1>1, <1>4 DEF Sorts
  <2>2. QED
    BY <2>1, PlacesNumber
<1>7. QED
  BY <1>5, <1>6 DEF Numbers

\* The first places of a set that holds them all are their own ranks.
LEMMA RankOfPrefix ==
    ASSUME NEW S, S \subseteq Nat \ {0}, NEW i \in Nat, 1..i \subseteq S
    PROVE  RankIn(S, i) = i
<1>1. {j \in S : j =< i} = 1..i
  <2>1. \A j \in S : j \in Nat /\ j >= 1
    OBVIOUS
  <2>2. ASSUME NEW j \in 1..i PROVE j \in S /\ j =< i
    <3>1. j \in S
      OBVIOUS
    <3>2. QED
      BY <3>1
  <2>3. ASSUME NEW j \in S, j =< i PROVE j \in 1..i
    BY <2>1, <2>3
  <2>4. QED
    BY <2>2, <2>3
<1>2. Cardinality(1..i) = i
  BY FS_Interval
<1>3. QED
  BY <1>1, <1>2 DEF RankIn

--------------------------------------------------------------------------------
(***************************************************************************)
(* Recursion                                                               *)
(***************************************************************************)

\* f is the iteration of the steps from base on.
Iterates(f, base, step, N) ==
    f[0] = base /\ \A n \in 1..N : f[n] = step[n][f[n - 1]]

\* A recursion along 0..N defines a function.
LEMMA RecursionExists ==
    ASSUME NEW S, NEW base \in S, NEW N \in Nat, NEW step \in [1..N -> [S -> S]]
    PROVE  \E f \in [0..N -> S] : Iterates(f, base, step, N)
<1> DEFINE Bad == {n \in 0..N : ~ \E f \in [0..n -> S] : Iterates(f, base, step, n)}
<1>1. CASE Bad = {}
  <2>1. N \in 0..N
    OBVIOUS
  <2>2. N \notin Bad
    <3> HIDE DEF Bad
    <3>1. QED
      BY <1>1
  <2>3. QED
    BY <2>1, <2>2
<1>2. CASE Bad # {}
  <2>1. PICK m \in Bad : \A j \in Bad : m =< j
    <3>1. Bad \subseteq Nat
      OBVIOUS
    <3> HIDE DEF Bad
    <3>2. QED
      BY <1>2, <3>1, LeastElement
  <2>2. m # 0
    <3>1. [k \in 0..0 |-> base] \in [0..0 -> S]
      OBVIOUS
    <3>2. Iterates([k \in 0..0 |-> base], base, step, 0)
      BY DEF Iterates
    <3>3. QED
      BY <2>1, <3>1, <3>2
  <2>3. m - 1 \in 0..N /\ m \in 1..N /\ m - 1 \notin Bad
    BY <2>1, <2>2
  <2>4. PICK f \in [0..(m - 1) -> S] : Iterates(f, base, step, m - 1)
    BY <2>3
  <2> DEFINE g == [k \in 0..m |-> IF k = m THEN step[m][f[m - 1]] ELSE f[k]]
  <2>5. f[m - 1] \in S /\ step[m] \in [S -> S]
    BY <2>3, <2>4
  <2>6. g \in [0..m -> S]
    BY <2>3, <2>4, <2>5
  <2>7. ASSUME NEW k \in 1..m PROVE g[k] = step[k][g[k - 1]]
    <3>1. CASE k = m
      BY <2>3, <3>1
    <3>2. CASE k # m
      <4>1. k \in 1..(m - 1) /\ k - 1 \in 0..m /\ k - 1 # m
        BY <2>3, <3>2
      <4>2. f[k] = step[k][f[k - 1]]
        BY <2>4, <4>1 DEF Iterates
      <4>3. QED
        BY <3>2, <4>1, <4>2
    <3>3. QED
      BY <3>1, <3>2
  <2>8. g[0] = base
    BY <2>3, <2>4 DEF Iterates
  <2>9. Iterates(g, base, step, m)
    BY <2>7, <2>8 DEF Iterates
  <2>10. QED
    BY <2>1, <2>6, <2>9
<1>3. QED
  BY <1>1, <1>2

\* A function that follows the steps as long as it stays in S stays in S.
LEMMA RecursionTyped ==
    ASSUME NEW S, NEW base \in S, NEW N \in Nat, NEW step \in [1..N -> [S -> S]],
           NEW f, f[0] = base,
           \A n \in 1..N : f[n - 1] \in S => f[n] = step[n][f[n - 1]]
    PROVE  /\ \A n \in 0..N : f[n] \in S
           /\ Iterates(f, base, step, N)
<1> DEFINE Bad == {n \in 0..N : f[n] \notin S}
<1>1. Bad = {}
  <2>1. SUFFICES ASSUME Bad # {} PROVE FALSE
    OBVIOUS
  <2>2. PICK m \in Bad : \A j \in Bad : m =< j
    <3>1. Bad \subseteq Nat
      OBVIOUS
    <3> HIDE DEF Bad
    <3>2. QED
      BY <2>1, <3>1, LeastElement
  <2>3. m # 0 /\ m \in 0..N
    BY <2>2
  <2>4. m - 1 \in 0..N /\ m \in 1..N /\ m - 1 \notin Bad
    BY <2>2, <2>3
  <2>5. f[m] = step[m][f[m - 1]] /\ f[m - 1] \in S
    BY <2>4
  <2>6. f[m] \in S
    BY <2>4, <2>5
  <2>7. QED
    BY <2>2, <2>6
<1>2. \A n \in 0..N : f[n] \in S
  BY <1>1
<1>3. \A n \in 1..N : n - 1 \in 0..N
  OBVIOUS
<1>4. QED
  BY <1>2, <1>3 DEF Iterates

\* Recursions with the same first steps agree as far as these go.
LEMMA RecursionAgrees ==
    ASSUME NEW N \in Nat, NEW M \in Nat, N =< M,
           NEW base, NEW f, NEW g, NEW step, NEW other,
           Iterates(f, base, step, N), Iterates(g, base, other, M),
           \A n \in 1..N : step[n] = other[n]
    PROVE  \A n \in 0..N : f[n] = g[n]
<1> DEFINE Bad == {n \in 0..N : f[n] # g[n]}
<1>1. Bad = {}
  <2>1. SUFFICES ASSUME Bad # {} PROVE FALSE
    OBVIOUS
  <2>2. PICK m \in Bad : \A j \in Bad : m =< j
    <3>1. Bad \subseteq Nat
      OBVIOUS
    <3> HIDE DEF Bad
    <3>2. QED
      BY <2>1, <3>1, LeastElement
  <2>3. m \in 0..N /\ f[0] = g[0]
    BY <2>2 DEF Iterates
  <2>4. m # 0
    BY <2>2, <2>3
  <2>5. m - 1 \in 0..N /\ m \in 1..N /\ m \in 1..M
    BY <2>3, <2>4
  <2>6. f[m - 1] = g[m - 1]
    BY <2>2, <2>5
  <2>7. f[m] = g[m]
    BY <2>5, <2>6 DEF Iterates
  <2>8. QED
    BY <2>2, <2>7
<1>2. QED
  BY <1>1

\* A recursion that goes one step further starts from where the other ends.
LEMMA RecursionExtends ==
    ASSUME NEW N \in Nat, NEW base, NEW f, NEW g, NEW step, NEW other,
           Iterates(f, base, step, N), Iterates(g, base, other, N + 1),
           \A n \in 1..N : step[n] = other[n]
    PROVE  g[N + 1] = other[N + 1][f[N]]
<1>1. N + 1 \in Nat /\ N =< N + 1
  OBVIOUS
<1>2. \A n \in 0..N : f[n] = g[n]
  BY <1>1, RecursionAgrees
<1>3. N + 1 \in 1..(N + 1) /\ (N + 1) - 1 = N /\ N \in 0..N
  OBVIOUS
<1>4. g[N + 1] = other[N + 1][g[(N + 1) - 1]]
  BY <1>3 DEF Iterates
<1>5. QED
  BY <1>2, <1>3, <1>4
=============================================================================
