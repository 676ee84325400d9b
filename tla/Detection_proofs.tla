------------------------------- MODULE Detection_proofs --------------------------
(***************************************************************************)
(* Proofs about Detection: whatever the rules and the model find, in texts *)
(* and diffs of any length, what the two selections leave is apart, gives  *)
(* up nothing without a reason, and withholds what the policy names.       *)
(***************************************************************************)
EXTENDS Detection, InductionLemmas, SequenceTheorems

--------------------------------------------------------------------------------
(***************************************************************************)
(* The sweep by itself: what it selects is disjoint, for all sets of       *)
(* findings sorted by their start and whatever is preferred to what.       *)
(* Comparing with the last selected finding only is enough.                *)
(***************************************************************************)

\* The inductive invariant: what the sweep has still to see starts no earlier
\* than what it has selected, so that only the last one can be reached.
SweepIInv ==
    /\ pending \in Seq(Finding)
    /\ selected \in Seq(Finding)
    /\ \A i, j \in DOMAIN pending : i < j => pending[i].start <= pending[j].start
    /\ \A i \in DOMAIN selected, j \in DOMAIN pending :
          selected[i].start <= pending[j].start
    /\ SelectedDisjoint

--------------------------------------------------------------------------------

\* The bounds of a finding are numbers.
LEMMA FindingBounds ==
    ASSUME NEW f \in Finding
    PROVE  f.start \in Nat /\ f.end \in Nat
BY DEF Finding

LEMMA InitSweep == SelectionInit => SweepIInv
<1> SUFFICES ASSUME SelectionInit PROVE SweepIInv
  OBVIOUS
<1>1. selected = <<>> /\ DOMAIN selected = {} /\ selected \in Seq(Finding)
  BY EmptySeq DEF SelectionInit
<1>2. QED
  BY <1>1 DEF SelectionInit, SweepIInv, SelectedDisjoint

\* A finding that starts no earlier than the last selected one, which it does not
\* overlap, is disjoint from all of them, unless one of them is empty.
LEMMA SelectKeepsDisjoint ==
    ASSUME SweepIInv, NEW f \in Finding, Select(f),
           \A i \in DOMAIN selected : selected[i].start <= f.start
    PROVE  SelectedDisjoint' /\ selected' \in Seq(Finding)
<1>1. /\ selected \in Seq(Finding) /\ SelectedDisjoint
      /\ DOMAIN selected = 1..Len(selected) /\ Len(selected) \in Nat
  BY LenProperties DEF SweepIInv
<1>2. selected' = Append(selected, f)
  BY DEF Select
<1>3. /\ selected' \in Seq(Finding)
      /\ DOMAIN selected' = 1..(Len(selected) + 1)
      /\ \A i \in 1..Len(selected) : selected'[i] = selected[i]
      /\ selected'[Len(selected) + 1] = f
  BY <1>1, <1>2
<1>4. ASSUME \A i \in DOMAIN selected' : ~Empty(selected'[i]),
             NEW i \in DOMAIN selected', NEW j \in DOMAIN selected', i < j
      PROVE  selected'[i].end <= selected'[j].start
  <2>1. i \in 1..Len(selected) /\ selected'[i] = selected[i]
    BY <1>1, <1>3, <1>4
  <2>2. \A k \in DOMAIN selected : ~Empty(selected[k])
    <3> SUFFICES ASSUME NEW k \in DOMAIN selected PROVE ~Empty(selected[k])
      OBVIOUS
    <3>1. k \in DOMAIN selected' /\ selected'[k] = selected[k]
      BY <1>1, <1>3
    <3>2. QED
      BY <1>4, <3>1
  <2>3. CASE j \in 1..Len(selected)
    BY <1>1, <1>3, <1>4, <2>1, <2>2, <2>3 DEF SelectedDisjoint
  <2>4. CASE j = Len(selected) + 1
    <3> DEFINE n == Len(selected)
               last == selected[n]
    <3>1. n \in DOMAIN selected /\ Previous = last /\ selected # <<>>
      BY <1>1, <2>1 DEF Previous
    <3>2. last \in Finding /\ selected[i] \in Finding /\ f \in Finding
      BY <1>1, <2>1, <3>1, ElementOfSeq
    <3>3. /\ last.start \in Nat /\ last.end \in Nat /\ f.start \in Nat /\ f.end \in Nat
          /\ selected[i].end \in Nat
      BY <3>2, FindingBounds
    <3>4. ~(last.start < f.end /\ f.start < last.end)
      BY <3>1 DEF Select, OverlapsLast, Overlaps
    <3>5. last.start <= f.start
      BY <3>1
    <3>6. f.start < f.end
      <4>1. ~Empty(f)
        BY <1>1, <1>3, <1>4
      <4>2. QED
        BY <3>3, <4>1 DEF Empty
    <3>7. last.end <= f.start
      BY <3>3, <3>4, <3>5, <3>6
    <3>8. CASE i = n
      BY <1>3, <2>1, <2>4, <3>7, <3>8
    <3>9. CASE i # n
      <4>1. i < n /\ i \in DOMAIN selected
        BY <1>1, <2>1, <3>9
      <4>2. selected[i].end <= last.start
        BY <1>1, <2>2, <3>1, <4>1 DEF SelectedDisjoint
      <4>3. selected[i].end <= f.start
        BY <3>3, <3>5, <4>2
      <4>4. QED
        BY <1>3, <2>1, <2>4, <4>3
    <3>10. QED
      BY <3>8, <3>9
  <2>5. QED
    BY <1>1, <1>3, <2>3, <2>4
<1>5. QED
  BY <1>3, <1>4 DEF SelectedDisjoint

\* A finding that replaces the last one starts no earlier than that one did, which
\* was not empty: an empty one overlaps nothing that starts after it.
LEMMA ReplaceKeepsDisjoint ==
    ASSUME SweepIInv, NEW f \in Finding, Replace(f),
           \A i \in DOMAIN selected : selected[i].start <= f.start
    PROVE  SelectedDisjoint' /\ selected' \in Seq(Finding)
<1> DEFINE n == Len(selected)
           last == selected[n]
<1>1. /\ selected \in Seq(Finding) /\ SelectedDisjoint /\ selected # <<>>
      /\ DOMAIN selected = 1..n /\ n \in Nat
  BY LenProperties DEF SweepIInv, Replace, OverlapsLast
<1>2. n \in 1..n /\ Previous = last
  BY <1>1 DEF Previous
<1>3. selected' = [selected EXCEPT ![n] = f]
  BY DEF Replace
<1>4. /\ selected' \in Seq(Finding)
      /\ DOMAIN selected' = 1..n
      /\ \A i \in 1..n : selected'[i] = IF i = n THEN f ELSE selected[i]
  BY <1>1, <1>2, <1>3, ExceptSeq
<1>5. last \in Finding
  BY <1>1, <1>2, ElementOfSeq
<1>6. last.start \in Nat /\ last.end \in Nat /\ f.start \in Nat /\ f.end \in Nat
  BY <1>5, FindingBounds
<1>7. last.start < f.end /\ f.start < last.end /\ last.start <= f.start
  BY <1>1, <1>2 DEF Replace, OverlapsLast, Overlaps
<1>8. ~Empty(last)
  BY <1>6, <1>7 DEF Empty
<1>9. ASSUME \A i \in DOMAIN selected' : ~Empty(selected'[i]),
             NEW i \in DOMAIN selected', NEW j \in DOMAIN selected', i < j
      PROVE  selected'[i].end <= selected'[j].start
  <2>1. i \in 1..n /\ i # n /\ selected'[i] = selected[i]
    <3>1. i \in 1..n /\ j \in 1..n
      BY <1>4
    <3>2. i # n
      BY <1>1, <1>9, <3>1
    <3>3. QED
      BY <1>4, <3>1, <3>2
  <2>2. \A k \in DOMAIN selected : ~Empty(selected[k])
    BY <1>1, <1>4, <1>8, <1>9
  <2>3. selected[i].end <= selected[j].start
    BY <1>1, <1>4, <1>9, <2>2 DEF SelectedDisjoint
  <2>4. CASE j = n
    <3>1. selected[i] \in Finding
      BY <1>1, <2>1, ElementOfSeq
    <3>2. selected[i].end \in Nat
      BY <3>1, FindingBounds
    <3>3. selected[i].end <= f.start
      BY <1>6, <1>7, <2>3, <2>4, <3>2
    <3>4. QED
      BY <1>2, <1>4, <2>1, <2>4, <3>3
  <2>5. CASE j # n
    BY <1>4, <2>1, <2>3, <2>5
  <2>6. QED
    BY <2>4, <2>5
<1>10. QED
  BY <1>4, <1>9 DEF SelectedDisjoint

LEMMA SweepStep == SweepIInv /\ [Sweep]_selectionVars => SweepIInv'
<1> SUFFICES ASSUME SweepIInv, [Sweep]_selectionVars PROVE SweepIInv'
  OBVIOUS
<1>1. CASE UNCHANGED selectionVars
  BY <1>1 DEF selectionVars, SweepIInv, SelectedDisjoint
<1>2. CASE Sweep
  <2> DEFINE f == Head(pending)
  <2>1. /\ pending \in Seq(Finding) /\ pending # <<>> /\ pending' = Tail(pending)
        /\ DOMAIN pending = 1..Len(pending) /\ Len(pending) \in Nat \ {0}
    BY <1>2, LenProperties, EmptySeq DEF Sweep, SweepIInv
  <2>2. /\ f \in Finding /\ f = pending[1] /\ 1 \in DOMAIN pending
        /\ pending' \in Seq(Finding)
        /\ Len(pending') = Len(pending) - 1
        /\ \A i \in 1..Len(pending') : pending'[i] = pending[i + 1]
    BY <2>1, HeadTailProperties
  <2>3. DOMAIN pending' = 1..(Len(pending) - 1)
    BY <2>2, LenProperties
  <2>4. \A i \in DOMAIN pending' : i + 1 \in DOMAIN pending /\ pending'[i] = pending[i + 1]
    BY <2>1, <2>2, <2>3
  <2>5. \A i, j \in DOMAIN pending' : i < j => pending'[i].start <= pending'[j].start
    BY <2>1, <2>3, <2>4 DEF SweepIInv
  <2>6. \A i \in DOMAIN selected : selected[i].start <= f.start
    BY <2>2 DEF SweepIInv
  <2>7. \A j \in DOMAIN pending' : f.start <= pending'[j].start
    <3> SUFFICES ASSUME NEW j \in DOMAIN pending' PROVE f.start <= pending'[j].start
      OBVIOUS
    <3>1. 1 < j + 1
      BY <2>1, <2>3
    <3>2. QED
      BY <2>2, <2>4, <3>1 DEF SweepIInv
  <2>8. \A i \in DOMAIN selected, j \in DOMAIN pending' :
            selected[i].start <= pending'[j].start
    BY <2>4 DEF SweepIInv
  <2> HIDE DEF f
  <2>9. CASE Select(f)
    <3>1. SelectedDisjoint' /\ selected' \in Seq(Finding)
      BY <2>2, <2>6, <2>9, SelectKeepsDisjoint
    <3>2. \A i \in DOMAIN selected' : selected'[i] = f \/ \E k \in DOMAIN selected : selected'[i] = selected[k]
      <4>1. selected \in Seq(Finding) /\ DOMAIN selected = 1..Len(selected) /\ Len(selected) \in Nat
        BY LenProperties DEF SweepIInv
      <4>2. selected' = Append(selected, f)
        BY <2>9 DEF Select
      <4>3. QED
        BY <2>2, <4>1, <4>2
    <3>3. QED
      BY <2>2, <2>5, <2>7, <2>8, <3>1, <3>2 DEF SweepIInv
  <2>10. CASE Replace(f)
    <3>1. SelectedDisjoint' /\ selected' \in Seq(Finding)
      BY <2>2, <2>6, <2>10, ReplaceKeepsDisjoint
    <3>2. \A i \in DOMAIN selected' : selected'[i] = f \/ \E k \in DOMAIN selected : selected'[i] = selected[k]
      BY <2>10 DEF Replace
    <3>3. QED
      BY <2>2, <2>5, <2>7, <2>8, <3>1, <3>2 DEF SweepIInv
  <2>11. CASE Drop(f)
    BY <2>2, <2>5, <2>8, <2>11 DEF Drop, SweepIInv, SelectedDisjoint
  <2>12. QED
    BY <1>2, <2>9, <2>10, <2>11 DEF Sweep, f
<1>3. QED
  BY <1>1, <1>2

\* Whatever was found, and whatever is preferred to what: selected findings are
\* disjoint and in the order of the text, as long as none of them is empty.
THEOREM SelectionDisjoint == SelectionSpec => []SelectedDisjoint
<1>1. SweepIInv => SelectedDisjoint
  BY DEF SweepIInv
<1>2. QED
  BY <1>1, InitSweep, SweepStep, PTL DEF SelectionSpec

--------------------------------------------------------------------------------
(***************************************************************************)
(* The order of the sweep, and what sorting by it keeps                    *)
(***************************************************************************)

\* What findings are compared by are numbers.
LEMMA FindingNumbers ==
    ASSUME NEW f \in Finding
    PROVE  /\ f.start \in Nat /\ f.end \in Nat /\ f.confidence \in 0..100
           /\ Score(f) \in Nat /\ Length(f) \in Int
           /\ ContainmentPriority[f.kind] \in Nat
<1>1. /\ f.start \in Nat /\ f.end \in Nat /\ f.confidence \in 0..100
      /\ f.kind \in FindingKind /\ f.source \in FindingSource
  BY DEF Finding
<1>2. Priority[f.kind] \in Nat
  BY <1>1 DEF Priority, FindingKind
<1>3. Bonus[f.source] \in Nat
  BY <1>1 DEF Bonus, FindingSource
<1>4. ContainmentPriority[f.kind] \in Nat
  BY <1>1 DEF ContainmentPriority, FindingKind
<1>5. QED
  BY <1>1, <1>2, <1>3, <1>4 DEF Score, Length

\* The order is strict, and what is not before each other is equal in it.
LEMMA BeforeOrders ==
    ASSUME NEW f \in Finding, NEW g \in Finding, NEW h \in Finding
    PROVE  /\ ~Before(f, f)
           /\ Before(f, g) => ~Before(g, f) /\ f.start <= g.start
           /\ ~Before(g, f) => f.start <= g.start
           /\ Before(f, g) /\ Before(g, h) => Before(f, h)
           /\ ~Before(g, f) /\ ~Before(h, g) => ~Before(h, f)
           /\ Before(f, g) /\ ~Before(h, g) => Before(f, h)
           /\ ~Before(g, f) /\ Before(g, h) => Before(f, h)
<1>1. /\ f.start \in Nat /\ g.start \in Nat /\ h.start \in Nat
      /\ Score(f) \in Nat /\ Score(g) \in Nat /\ Score(h) \in Nat
      /\ Length(f) \in Int /\ Length(g) \in Int /\ Length(h) \in Int
  BY FindingNumbers
<1>2. QED
  BY <1>1 DEF Before

\* What is sorted up to the i-th of the findings, and with it.
UpTo(found, i) ==
    {j \in DOMAIN found : \/ Before(found[j], found[i])
                          \/ ~Before(found[i], found[j]) /\ j <= i}

\* Ranks are places: each finding has one of its own, and the findings at later
\* places are not before those at earlier ones, equal ones in the order they had.
LEMMA SortedPlaces ==
    ASSUME NEW found \in Seq(Finding)
    PROVE  /\ Sorted(found) \in Seq(Finding)
           /\ DOMAIN Sorted(found) = DOMAIN found
           /\ \A i \in DOMAIN found : /\ Rank(found, i) \in DOMAIN found
                                      /\ Sorted(found)[Rank(found, i)] = found[i]
           /\ \A k \in DOMAIN found : \E i \in DOMAIN found : Rank(found, i) = k
           /\ \A i, j \in DOMAIN found :
                 Rank(found, i) < Rank(found, j)
                 <=> \/ Before(found[i], found[j])
                     \/ ~Before(found[j], found[i]) /\ i < j
<1> DEFINE S == DOMAIN found
           upTo == [i \in S |-> UpTo(found, i)]
           Ahead(i, j) == \/ Before(found[i], found[j])
                          \/ ~Before(found[j], found[i]) /\ i < j
<1>1. /\ S = 1..Len(found) /\ Len(found) \in Nat
      /\ \A i \in S : found[i] \in Finding
  BY LenProperties, ElementOfSeq
<1>2. IsFiniteSet(S) /\ Cardinality(S) = Len(found)
  BY <1>1, FS_Interval
<1>3. ASSUME NEW i \in S, NEW j \in S
      PROVE  /\ Ahead(i, j) => i # j /\ ~Ahead(j, i)
             /\ i # j => Ahead(i, j) \/ Ahead(j, i)
             /\ i \in UpTo(found, j) <=> i = j \/ Ahead(i, j)
  <2>1. /\ found[i] \in Finding /\ found[j] \in Finding /\ i \in Nat /\ j \in Nat
    BY <1>1
  <2>2. /\ ~Before(found[i], found[i])
        /\ Before(found[i], found[j]) => ~Before(found[j], found[i])
        /\ Before(found[j], found[i]) => ~Before(found[i], found[j])
    BY <2>1, BeforeOrders
  <2>3. i < j \/ i = j \/ j < i
    BY <2>1
  <2>4. i < j => ~(j < i) /\ i # j /\ i <= j
    BY <2>1
  <2>5. i <= j <=> i < j \/ i = j
    BY <2>1
  <2>6. /\ Ahead(i, j) => i # j /\ ~Ahead(j, i)
        /\ i # j => Ahead(i, j) \/ Ahead(j, i)
    BY <2>2, <2>3, <2>4
  <2>7. i \in UpTo(found, j) <=> \/ Before(found[i], found[j])
                                 \/ ~Before(found[j], found[i]) /\ i <= j
    BY DEF UpTo
  <2>8. QED
    BY <2>2, <2>5, <2>6, <2>7
<1>4. ASSUME NEW i \in S, NEW j \in S, NEW k \in S, Ahead(i, j), Ahead(j, k)
      PROVE  Ahead(i, k)
  <2>1. found[i] \in Finding /\ found[j] \in Finding /\ found[k] \in Finding
    BY <1>1
  <2>2. i < j /\ j < k => i < k
    BY <1>1
  <2>3. QED
    BY <1>4, <2>1, <2>2, BeforeOrders
<1>5. Sorts(upTo, S)
  <2>1. \A i \in S : upTo[i] \subseteq S /\ i \in upTo[i]
    BY <1>3 DEF UpTo
  <2>2. ASSUME NEW i \in S, NEW k \in S, Ahead(i, k)
        PROVE  upTo[i] \subseteq upTo[k] /\ k \notin upTo[i]
    <3>1. \A j \in S : Ahead(j, i) => Ahead(j, k)
      BY <1>4, <2>2
    <3>2. upTo[i] \subseteq S
      BY <2>1
    <3>3. k \notin upTo[i]
      BY <1>3, <2>2
    <3> HIDE DEF Ahead
    <3>4. \A j \in upTo[i] : j \in upTo[k]
      BY <1>3, <2>2, <3>1, <3>2
    <3>5. QED
      BY <3>3, <3>4
  <2> HIDE DEF Ahead, upTo
  <2>3. QED
    BY <1>3, <2>1, <2>2 DEF Sorts
<1>6. Numbers(upTo, S)
  BY <1>2, <1>5, PlacesNumber
<1>7. \A i \in S : Rank(found, i) = Cardinality(upTo[i])
  BY DEF Rank, UpTo
<1>8. /\ \A i \in S : Rank(found, i) \in S
      /\ \A i, j \in S : Rank(found, i) = Rank(found, j) => i = j
      /\ \A k \in S : \E i \in S : Rank(found, i) = k
  BY <1>1, <1>2, <1>6, <1>7 DEF Numbers
<1>9. ASSUME NEW k \in S
      PROVE  /\ Sorted(found)[k] \in Finding
             /\ \A i \in S : Rank(found, i) = k => Sorted(found)[k] = found[i]
  <2>1. PICK i \in S : Rank(found, i) = k
    BY <1>8
  <2>2. (CHOOSE j \in S : Rank(found, j) = k) = i
    BY <1>8, <2>1
  <2>3. Sorted(found)[k] = found[i]
    BY <2>2 DEF Sorted
  <2>4. QED
    BY <1>1, <1>8, <2>1, <2>3
<1>10. DOMAIN Sorted(found) = S
  BY DEF Sorted
<1>11. Sorted(found) \in Seq(Finding)
  <2>1. Sorted(found) = [k \in 1..Len(found) |-> Sorted(found)[k]]
    BY <1>1 DEF Sorted
  <2>2. \A k \in 1..Len(found) : Sorted(found)[k] \in Finding
    BY <1>1, <1>9
  <2>3. QED
    BY <1>1, <2>1, <2>2, IsASeq
<1>12. ASSUME NEW i \in S, NEW j \in S
       PROVE  Rank(found, i) < Rank(found, j) <=> Ahead(i, j)
  <2>1. Rank(found, i) \in Nat /\ Rank(found, j) \in Nat
    <3>1. \A k \in S : k \in Nat
      BY <1>1
    <3>2. Rank(found, i) \in S /\ Rank(found, j) \in S
      BY <1>8
    <3> HIDE DEF S
    <3>3. QED
      BY <3>1, <3>2
  <2>2. ASSUME NEW k \in S, NEW l \in S, Ahead(k, l)
        PROVE  Rank(found, k) < Rank(found, l)
    <3>1. k # l /\ k \in UpTo(found, l) /\ upTo[l] = UpTo(found, l)
      BY <1>3, <2>2
    <3>2. Cardinality(upTo[k]) < Cardinality(upTo[l])
      BY <1>6, <3>1, Zenon DEF Numbers
    <3>3. QED
      BY <1>7, <3>2
  <2> HIDE DEF Ahead
  <2>3. CASE Ahead(i, j)
    BY <2>2, <2>3
  <2>4. CASE Ahead(j, i)
    BY <1>3, <2>1, <2>2, <2>4
  <2>5. CASE i = j
    BY <1>3, <2>1, <2>5
  <2>6. QED
    BY <1>3, <2>3, <2>4, <2>5
<1>13. QED
  BY <1>8, <1>9, <1>10, <1>11, <1>12

--------------------------------------------------------------------------------
(***************************************************************************)
(* What the sweep gives up                                                 *)
(***************************************************************************)

\* Nothing that is still to be seen is before what has been seen.
SweepOrder ==
    /\ \A i, j \in DOMAIN pending : i < j => ~Before(pending[j], pending[i])
    /\ \A i \in DOMAIN selected, j \in DOMAIN pending : ~Before(pending[j], selected[i])

\* A finding is still to be seen, or selected, or given up for a preferred one.
Accounted ==
    /\ Range(pending) \subseteq Range(findings)
    /\ Range(selected) \subseteq Range(findings)
    /\ \A f \in Range(findings) :
          \/ f \in Range(pending) \cup Range(selected)
          \/ \E g \in Range(findings) \ {f} : Overlaps(f, g) /\ Overridden(f, g)

\* What is replaced is given up for what replaces it.
LEMMA ReplacedIsOverridden ==
    ASSUME NEW f \in Finding, NEW g \in Finding,
           ~Before(g, f), Overlaps(f, g), PreferRight(f, g)
    PROVE  g # f /\ Overridden(f, g)
<1>1. /\ f.start \in Nat /\ f.end \in Nat /\ g.start \in Nat /\ g.end \in Nat
      /\ Score(f) \in Nat /\ Score(g) \in Nat
      /\ ContainmentPriority[f.kind] \in Nat /\ ContainmentPriority[g.kind] \in Nat
  BY FindingNumbers
<1>2. Length(f) = f.end - f.start /\ Length(g) = g.end - g.start
  BY DEF Length
<1>3. CASE Before(f, g)
  <2>1. g # f
    BY <1>3, BeforeOrders
  <2>2. QED
    BY <1>3, <2>1 DEF Overridden
<1>4. CASE ~Before(f, g)
  <2>1. /\ f.start = g.start /\ Score(f) = Score(g) /\ Length(f) = Length(g)
        /\ f.end = g.end
    BY <1>1, <1>2, <1>4 DEF Before
  <2>2. /\ ContainmentPriority[f.kind] # ContainmentPriority[g.kind]
        /\ ContainmentPriority[g.kind] > ContainmentPriority[f.kind]
    BY <1>1, <1>2, <2>1 DEF PreferRight
  <2>3. Encloses(g, f)
    BY <1>1, <2>1 DEF Encloses
  <2>4. ~PreferRight(g, f)
    BY <1>1, <2>2, <2>3 DEF PreferRight
  <2>5. QED
    BY <1>4, <2>2, <2>4 DEF Overridden
<1>5. QED
  BY <1>3, <1>4

\* A step of the sweep takes the first of what is still to be seen.
LEMMA SweepTakesFirst ==
    ASSUME pending \in Seq(Finding), Sweep
    PROVE  /\ Head(pending) \in Finding /\ Head(pending) = pending[1]
           /\ 1 \in DOMAIN pending /\ DOMAIN pending \subseteq Nat \ {0}
           /\ pending' \in Seq(Finding)
           /\ \A j \in DOMAIN pending' :
                 /\ j \in Nat \ {0} /\ j + 1 \in DOMAIN pending
                 /\ pending'[j] = pending[j + 1]
           /\ \A j \in DOMAIN pending :
                 j # 1 => j - 1 \in DOMAIN pending' /\ pending'[j - 1] = pending[j]
<1>1. /\ pending # <<>> /\ pending' = Tail(pending)
      /\ DOMAIN pending = 1..Len(pending) /\ Len(pending) \in Nat \ {0}
  BY LenProperties, EmptySeq DEF Sweep
<1>2. /\ Head(pending) \in Finding /\ Head(pending) = pending[1] /\ 1 \in DOMAIN pending
      /\ pending' \in Seq(Finding)
      /\ Len(pending') = Len(pending) - 1
      /\ \A i \in 1..Len(pending') : pending'[i] = pending[i + 1]
  BY <1>1, HeadTailProperties
<1>3. DOMAIN pending' = 1..(Len(pending) - 1)
  BY <1>2, LenProperties
<1>4. ASSUME NEW j \in DOMAIN pending'
      PROVE  j \in Nat \ {0} /\ j + 1 \in DOMAIN pending /\ pending'[j] = pending[j + 1]
  BY <1>1, <1>2, <1>3
<1>5. ASSUME NEW j \in DOMAIN pending, j # 1
      PROVE  j - 1 \in DOMAIN pending' /\ pending'[j - 1] = pending[j]
  <2>1. j - 1 \in 1..Len(pending') /\ (j - 1) + 1 = j
    BY <1>1, <1>2, <1>5
  <2>2. QED
    BY <1>2, <1>3, <2>1
<1>6. QED
  BY <1>1, <1>2, <1>4, <1>5

\* It selects what it takes, in front of nothing, or in the place of the last one.
LEMMA SweepSelects ==
    ASSUME selected \in Seq(Finding), NEW f \in Finding
    PROVE  /\ Select(f) => /\ selected' \in Seq(Finding)
                           /\ DOMAIN selected' = DOMAIN selected \cup {Len(selected) + 1}
                           /\ \A i \in DOMAIN selected : selected'[i] = selected[i]
                           /\ selected'[Len(selected) + 1] = f
           /\ Replace(f) => /\ selected' \in Seq(Finding)
                            /\ Len(selected) \in DOMAIN selected
                            /\ DOMAIN selected' = DOMAIN selected
                            /\ \A i \in DOMAIN selected :
                                  selected'[i] = IF i = Len(selected) THEN f ELSE selected[i]
           /\ DOMAIN selected = 1..Len(selected) /\ Len(selected) \in Nat
           /\ OverlapsLast(f) => /\ Len(selected) \in DOMAIN selected
                                 /\ Previous = selected[Len(selected)]
                                 /\ Previous \in Finding
<1>1. DOMAIN selected = 1..Len(selected) /\ Len(selected) \in Nat
  BY LenProperties
<1>2. OverlapsLast(f) => Len(selected) \in DOMAIN selected
  BY <1>1, EmptySeq DEF OverlapsLast
<1>3. OverlapsLast(f) => Previous = selected[Len(selected)] /\ Previous \in Finding
  BY <1>2, ElementOfSeq DEF Previous
<1>4. ASSUME Select(f)
      PROVE  /\ selected' \in Seq(Finding)
             /\ DOMAIN selected' = DOMAIN selected \cup {Len(selected) + 1}
             /\ \A i \in DOMAIN selected : selected'[i] = selected[i]
             /\ selected'[Len(selected) + 1] = f
  <2>1. selected' = Append(selected, f)
    BY <1>4 DEF Select
  <2>2. /\ selected' \in Seq(Finding)
        /\ DOMAIN selected' = 1..(Len(selected) + 1)
        /\ \A i \in 1..Len(selected) : selected'[i] = selected[i]
        /\ selected'[Len(selected) + 1] = f
    BY <1>1, <2>1
  <2>3. QED
    BY <1>1, <2>2
<1>5. ASSUME Replace(f)
      PROVE  /\ selected' \in Seq(Finding)
             /\ DOMAIN selected' = DOMAIN selected
             /\ \A i \in DOMAIN selected :
                   selected'[i] = IF i = Len(selected) THEN f ELSE selected[i]
  <2>1. selected' = [selected EXCEPT ![Len(selected)] = f]
    BY <1>5 DEF Replace
  <2>2. OverlapsLast(f)
    BY <1>5 DEF Replace
  <2>3. QED
    BY <1>1, <1>2, <2>1, <2>2, ExceptSeq
<1>6. Replace(f) => OverlapsLast(f)
  BY DEF Replace
<1>7. QED
  BY <1>1, <1>2, <1>3, <1>4, <1>5, <1>6

\* A step of the sweep keeps the order, and accounts for every finding.
LEMMA SweepAccounts ==
    ASSUME pending \in Seq(Finding), selected \in Seq(Finding), SweepOrder, Accounted,
           Sweep, UNCHANGED findings
    PROVE  /\ pending' \in Seq(Finding) /\ selected' \in Seq(Finding)
           /\ SweepOrder' /\ Accounted'
<1> DEFINE f == Head(pending)
           n == Len(selected)
<1>1. /\ f \in Finding /\ f = pending[1]
      /\ 1 \in DOMAIN pending /\ DOMAIN pending \subseteq Nat \ {0}
      /\ pending' \in Seq(Finding)
      /\ \A j \in DOMAIN pending' :
            j \in Nat \ {0} /\ j + 1 \in DOMAIN pending /\ pending'[j] = pending[j + 1]
      /\ \A j \in DOMAIN pending :
            j # 1 => j - 1 \in DOMAIN pending' /\ pending'[j - 1] = pending[j]
  BY SweepTakesFirst
<1> HIDE DEF f
<1>2. Select(f) \/ Replace(f) \/ Drop(f)
  BY DEF Sweep, f
<1>3. \A j \in DOMAIN pending' : ~Before(pending'[j], f)
  <2>1. \A j \in DOMAIN pending' : 1 < j + 1
    BY <1>1
  <2>2. QED
    BY <1>1, <2>1 DEF SweepOrder
<1>4. \A i \in DOMAIN selected : ~Before(f, selected[i])
  BY <1>1 DEF SweepOrder
<1>5. \A i, j \in DOMAIN pending' : i < j => ~Before(pending'[j], pending'[i])
  <2>1. \A i, j \in DOMAIN pending' : i < j => i + 1 < j + 1
    BY <1>1
  <2>2. QED
    BY <1>1, <2>1 DEF SweepOrder
<1>6. \A i \in DOMAIN selected, j \in DOMAIN pending' : ~Before(pending'[j], selected[i])
  BY <1>1 DEF SweepOrder
<1>7. /\ Range(pending) = {f} \cup Range(pending')
      /\ f \in Range(findings)
  <2>1. \A j \in DOMAIN pending : pending[j] \in {f} \cup Range(pending')
    BY <1>1 DEF Range
  <2>2. \A j \in DOMAIN pending' : pending'[j] \in Range(pending)
    BY <1>1 DEF Range
  <2>3. f \in Range(pending)
    BY <1>1 DEF Range
  <2>4. Range(pending) \subseteq {f} \cup Range(pending')
    BY <2>1 DEF Range
  <2>5. Range(pending') \subseteq Range(pending)
    BY <2>2 DEF Range
  <2>6. QED
    BY <2>3, <2>4, <2>5 DEF Accounted
<1>8. CASE Select(f)
  <2>1. /\ selected' \in Seq(Finding)
        /\ DOMAIN selected' = DOMAIN selected \cup {n + 1}
        /\ \A i \in DOMAIN selected : selected'[i] = selected[i]
        /\ selected'[n + 1] = f
    BY <1>1, <1>8, SweepSelects
  <2>2. SweepOrder'
    BY <1>3, <1>5, <1>6, <2>1 DEF SweepOrder
  <2>3. Range(selected') = Range(selected) \cup {f}
    BY <2>1 DEF Range
  <2>4. Accounted'
    BY <1>7, <2>3 DEF Accounted
  <2>5. QED
    BY <1>1, <2>1, <2>2, <2>4
<1>9. CASE Replace(f)
  <2> DEFINE last == selected[n]
  <2>1. /\ selected' \in Seq(Finding)
        /\ n \in DOMAIN selected
        /\ DOMAIN selected' = DOMAIN selected
        /\ \A i \in DOMAIN selected : selected'[i] = IF i = n THEN f ELSE selected[i]
        /\ Previous = last /\ last \in Finding
    BY <1>1, <1>9, SweepSelects DEF Replace
  <2>2. SweepOrder'
    BY <1>3, <1>5, <1>6, <2>1 DEF SweepOrder
  <2>3. /\ Range(selected) \subseteq Range(selected') \cup {last}
        /\ f \in Range(selected')
        /\ Range(selected') \subseteq Range(selected) \cup {f}
    BY <2>1 DEF Range
  <2>4. /\ ~Before(f, last) /\ Overlaps(last, f) /\ PreferRight(last, f)
    BY <1>4, <1>9, <2>1 DEF Replace, OverlapsLast
  <2>5. f # last /\ Overridden(last, f)
    BY <1>1, <2>1, <2>4, ReplacedIsOverridden
  <2> HIDE DEF last
  <2>6. ASSUME NEW g \in Range(findings)
        PROVE  \/ g \in Range(pending') \cup Range(selected')
               \/ \E h \in Range(findings) \ {g} : Overlaps(g, h) /\ Overridden(g, h)
    <3>1. CASE g = last
      BY <1>7, <2>4, <2>5, <3>1
    <3>2. CASE g # last
      BY <1>7, <2>3, <3>2 DEF Accounted
    <3>3. QED
      BY <3>1, <3>2
  <2>7. Accounted'
    BY <1>7, <2>3, <2>6 DEF Accounted
  <2>8. QED
    BY <1>1, <2>1, <2>2, <2>7
<1>10. CASE Drop(f)
  <2> DEFINE last == selected[n]
  <2>1. /\ UNCHANGED selected
        /\ n \in DOMAIN selected /\ Previous = last /\ last \in Finding
    BY <1>1, <1>10, SweepSelects DEF Drop
  <2>2. SweepOrder'
    BY <1>5, <1>6, <2>1 DEF SweepOrder
  <2>3. last \in Range(selected)
    BY <2>1 DEF Range
  <2>4. ~Before(f, last) /\ Overlaps(last, f) /\ ~PreferRight(last, f)
    BY <1>4, <1>10, <2>1 DEF Drop, OverlapsLast
  <2> HIDE DEF last
  <2>5. Overlaps(f, last) /\ Overridden(f, last)
    BY <2>4 DEF Overlaps, Overridden
  <2>6. ASSUME NEW g \in Range(findings)
        PROVE  \/ g \in Range(pending') \cup Range(selected')
               \/ \E h \in Range(findings) \ {g} : Overlaps(g, h) /\ Overridden(g, h)
    <3>1. CASE g = f
      BY <2>1, <2>3, <2>5, <3>1 DEF Accounted
    <3>2. CASE g # f
      BY <1>7, <2>1, <3>2 DEF Accounted
    <3>3. QED
      BY <3>1, <3>2
  <2>7. Accounted'
    BY <1>7, <2>1, <2>6 DEF Accounted
  <2>8. QED
    BY <1>1, <2>1, <2>2, <2>7
<1>11. QED
  BY <1>2, <1>8, <1>9, <1>10

\* A selection starts in order, with everything still to be seen.
LEMMA SelectionStarts ==
    ASSUME findings' \in Seq(Finding), StartSelection(findings')
    PROVE  /\ pending' \in Seq(Finding) /\ selected' \in Seq(Finding)
           /\ SweepOrder' /\ Accounted'
<1> DEFINE found == findings'
<1>1. pending' = Sorted(found) /\ selected' = <<>>
  BY DEF StartSelection
<1>2. /\ Sorted(found) \in Seq(Finding)
      /\ DOMAIN Sorted(found) = DOMAIN found
      /\ \A i \in DOMAIN found : /\ Rank(found, i) \in DOMAIN found
                                 /\ Sorted(found)[Rank(found, i)] = found[i]
      /\ \A k \in DOMAIN found : \E i \in DOMAIN found : Rank(found, i) = k
      /\ \A i, j \in DOMAIN found :
            Rank(found, i) < Rank(found, j)
            <=> \/ Before(found[i], found[j])
                \/ ~Before(found[j], found[i]) /\ i < j
  BY SortedPlaces
<1>3. selected' \in Seq(Finding) /\ DOMAIN selected' = {} /\ Range(selected') = {}
  BY <1>1, EmptySeq DEF Range
<1>4. ASSUME NEW k \in DOMAIN found, NEW l \in DOMAIN found, k < l
      PROVE  ~Before(Sorted(found)[l], Sorted(found)[k])
  <2>1. PICK i \in DOMAIN found : Rank(found, i) = k
    BY <1>2
  <2>2. PICK j \in DOMAIN found : Rank(found, j) = l
    BY <1>2
  <2>3. Sorted(found)[k] = found[i] /\ Sorted(found)[l] = found[j]
    BY <1>2, <2>1, <2>2
  <2>4. found[i] \in Finding /\ found[j] \in Finding
    BY ElementOfSeq
  <2>5. \/ Before(found[i], found[j])
        \/ ~Before(found[j], found[i])
    BY <1>2, <1>4, <2>1, <2>2
  <2>6. QED
    BY <2>3, <2>4, <2>5, BeforeOrders
<1>5. SweepOrder'
  BY <1>1, <1>2, <1>3, <1>4 DEF SweepOrder
<1>6. Range(pending') = Range(found)
  <2>1. \A i \in DOMAIN found : found[i] \in Range(pending')
    BY <1>1, <1>2 DEF Range
  <2>2. \A k \in DOMAIN found : pending'[k] \in Range(found)
    BY <1>1, <1>2 DEF Range
  <2>3. DOMAIN pending' = DOMAIN found
    BY <1>1, <1>2
  <2>4. Range(found) \subseteq Range(pending')
    BY <2>1 DEF Range
  <2>5. Range(pending') \subseteq Range(found)
    BY <2>2, <2>3 DEF Range
  <2>6. QED
    BY <2>4, <2>5
<1>7. Accounted'
  BY <1>3, <1>6 DEF Accounted
<1>8. QED
  BY <1>1, <1>2, <1>3, <1>5, <1>7

--------------------------------------------------------------------------------
(***************************************************************************)
(* Flattening a sequence of sequences                                      *)
(***************************************************************************)

\* flat has the elements of the first n of these sequences, in their order.
Joins(flat, seqs, n) ==
    /\ \A p \in DOMAIN flat : \E i \in 1..n : \E a \in DOMAIN seqs[i] : flat[p] = seqs[i][a]
    /\ \A i \in 1..n : \A a \in DOMAIN seqs[i] : \E p \in DOMAIN flat : flat[p] = seqs[i][a]
    /\ \A p, q \in DOMAIN flat :
          p < q => \E i, j \in 1..n :
                      \E a \in DOMAIN seqs[i], b \in DOMAIN seqs[j] :
                         /\ flat[p] = seqs[i][a] /\ flat[q] = seqs[j][b]
                         /\ i < j \/ (i = j /\ a < b)

\* Behind the elements of n sequences come those of the next.
LEMMA JoinsNext ==
    ASSUME NEW S, NEW seqs \in Seq(Seq(S)), NEW n \in Nat, n + 1 <= Len(seqs),
           NEW flat \in Seq(S), Joins(flat, seqs, n)
    PROVE  flat \o seqs[n + 1] \in Seq(S) /\ Joins(flat \o seqs[n + 1], seqs, n + 1)
<1> DEFINE more == seqs[n + 1]
           L == Len(flat)
           M == Len(more)
           whole == flat \o more
<1>1. more \in Seq(S)
  <2>1. n + 1 \in DOMAIN seqs
    OBVIOUS
  <2>2. QED
    BY <2>1, ElementOfSeq
<1> HIDE DEF more
<1>2. /\ L \in Nat /\ M \in Nat /\ DOMAIN flat = 1..L /\ DOMAIN more = 1..M
      /\ whole \in Seq(S) /\ Len(whole) = L + M /\ DOMAIN whole = 1..(L + M)
      /\ \A k \in 1..(L + M) : whole[k] = IF k <= L THEN flat[k] ELSE more[k - L]
  BY <1>1, ConcatProperties, LenProperties
<1>3. \A p \in DOMAIN flat : p \in DOMAIN whole /\ whole[p] = flat[p] /\ p <= L
  BY <1>2
<1>4. \A a \in DOMAIN more : a + L \in DOMAIN whole /\ whole[a + L] = more[a] /\ a + L > L
  <2>1. ASSUME NEW a \in DOMAIN more
        PROVE  a + L \in 1..(L + M) /\ ~(a + L <= L) /\ (a + L) - L = a /\ a + L > L
    BY <1>2
  <2>2. QED
    BY <1>2, <2>1
<1>5. ASSUME NEW p \in DOMAIN whole, ~(p <= L)
      PROVE  p - L \in DOMAIN more /\ whole[p] = more[p - L]
  BY <1>2, <1>5
<1> HIDE DEF whole, L, M
<1>6. \A p \in DOMAIN whole : p \in Nat /\ (p <= L => p \in DOMAIN flat)
  BY <1>2
<1>7. n + 1 \in 1..(n + 1) /\ \A i \in 1..n : i \in 1..(n + 1) /\ i < n + 1
  OBVIOUS
<1>8. seqs[n + 1] = more
  BY DEF more
<1>9. ASSUME NEW p \in DOMAIN whole
      PROVE  \E i \in 1..(n + 1) : \E a \in DOMAIN seqs[i] : whole[p] = seqs[i][a]
  <2>1. CASE p <= L
    <3>1. p \in DOMAIN flat /\ whole[p] = flat[p]
      BY <1>3, <1>6, <2>1
    <3>2. PICK i \in 1..n : \E a \in DOMAIN seqs[i] : flat[p] = seqs[i][a]
      BY <3>1 DEF Joins
    <3>3. i \in 1..(n + 1)
      BY <1>7
    <3>4. QED
      BY <3>1, <3>2, <3>3
  <2>2. CASE ~(p <= L)
    BY <1>5, <1>7, <1>8, <2>2
  <2>3. QED
    BY <2>1, <2>2
<1>10. ASSUME NEW i \in 1..(n + 1), NEW a \in DOMAIN seqs[i]
       PROVE  \E p \in DOMAIN whole : whole[p] = seqs[i][a]
  <2>1. CASE i \in 1..n
    BY <1>3, <2>1 DEF Joins
  <2>2. CASE i = n + 1
    BY <1>4, <1>8, <2>2
  <2>3. QED
    BY <2>1, <2>2
<1>11. ASSUME NEW p \in DOMAIN whole, NEW q \in DOMAIN whole, p < q
       PROVE  \E i, j \in 1..(n + 1) :
                 \E a \in DOMAIN seqs[i], b \in DOMAIN seqs[j] :
                    /\ whole[p] = seqs[i][a] /\ whole[q] = seqs[j][b]
                    /\ i < j \/ (i = j /\ a < b)
  <2>1. CASE q <= L
    <3>1. p <= L /\ p \in DOMAIN flat /\ q \in DOMAIN flat
      BY <1>2, <1>6, <1>11, <2>1
    <3>2. PICK i \in 1..n, j \in 1..n : \E a \in DOMAIN seqs[i], b \in DOMAIN seqs[j] :
                    /\ flat[p] = seqs[i][a] /\ flat[q] = seqs[j][b]
                    /\ i < j \/ (i = j /\ a < b)
      <4>1. \A x, y \in DOMAIN flat :
               x < y => \E i, j \in 1..n :
                           \E a \in DOMAIN seqs[i], b \in DOMAIN seqs[j] :
                              /\ flat[x] = seqs[i][a] /\ flat[y] = seqs[j][b]
                              /\ i < j \/ (i = j /\ a < b)
        BY Zenon DEF Joins
      <4>2. QED
        BY <1>11, <3>1, <4>1
    <3>3. QED
      BY <1>3, <1>7, <3>1, <3>2
  <2>2. CASE p <= L /\ ~(q <= L)
    <3>1. p \in DOMAIN flat
      BY <1>6, <2>2
    <3>2. PICK i \in 1..n : \E a \in DOMAIN seqs[i] : flat[p] = seqs[i][a]
      BY <3>1 DEF Joins
    <3>3. q - L \in DOMAIN more /\ whole[q] = more[q - L]
      BY <1>5, <2>2
    <3>4. QED
      BY <1>3, <1>7, <1>8, <3>1, <3>2, <3>3
  <2>3. CASE ~(p <= L)
    <3>1. /\ ~(q <= L) /\ p - L < q - L
      BY <1>2, <1>6, <1>11, <2>3
    <3>2. /\ p - L \in DOMAIN more /\ whole[p] = more[p - L]
          /\ q - L \in DOMAIN more /\ whole[q] = more[q - L]
      BY <1>5, <2>3, <3>1
    <3>3. QED
      BY <1>7, <1>8, <3>1, <3>2
  <2>4. QED
    BY <2>1, <2>2, <2>3
<1>12. Joins(whole, seqs, n + 1)
  BY <1>9, <1>10, <1>11 DEF Joins
<1>13. QED
  BY <1>2, <1>12 DEF more, whole

\* FlattenSeq has the elements of all the sequences.
LEMMA FlattenJoins ==
    ASSUME NEW S, NEW seqs \in Seq(Seq(S))
    PROVE  FlattenSeq(seqs) \in Seq(S) /\ Joins(FlattenSeq(seqs), seqs, Len(seqs))
<1> DEFINE N == Len(seqs)
           Solves(f) == f = [i \in 1..N |-> IF i = 1 THEN seqs[i] ELSE f[i - 1] \o seqs[i]]
           flatten == CHOOSE f : Solves(f)
           step == [n \in 1..N |-> [s \in Seq(S) |-> s \o seqs[n]]]
<1>1. /\ N \in Nat /\ \A i \in 1..N : seqs[i] \in Seq(S)
      /\ DOMAIN seqs = 1..N
  BY LenProperties, ElementOfSeq
<1>2. <<>> \in Seq(S) /\ Joins(<<>>, seqs, 0)
  BY EmptySeq DEF Joins
<1>3. CASE N = 0
  <2>1. seqs = <<>>
    BY <1>3, EmptySeq
  <2>2. FlattenSeq(seqs) = <<>>
    BY <1>3, <2>1 DEF FlattenSeq
  <2>3. QED
    BY <1>2, <1>3, <2>2
<1>4. CASE N # 0
  <2>1. step \in [1..N -> [Seq(S) -> Seq(S)]]
    <3>1. ASSUME NEW n \in 1..N, NEW s \in Seq(S) PROVE s \o seqs[n] \in Seq(S)
      BY <1>1, ConcatProperties
    <3>2. QED
      BY <3>1
  <2>2. \E f : Solves(f)
    <3>1. PICK g \in [0..N -> Seq(S)] : Iterates(g, <<>>, step, N)
      <4> HIDE DEF N, step
      <4>1. QED
        BY <1>1, <1>2, <2>1, RecursionExists
    <3>2. \A n \in 1..N : n - 1 \in 0..N /\ g[n] = g[n - 1] \o seqs[n]
      <4>1. \A n \in 1..N : n - 1 \in 0..N
        BY <1>1
      <4>2. \A n \in 1..N : g[n - 1] \in Seq(S) /\ g[n] = step[n][g[n - 1]]
        BY <3>1, <4>1 DEF Iterates
      <4>3. QED
        BY <4>1, <4>2
    <3>3. 1 \in 1..N /\ 1 - 1 = 0 /\ g[0] = <<>>
      BY <1>1, <1>4, <3>1 DEF Iterates
    <3>4. g[1] = seqs[1]
      <4>1. g[1] = <<>> \o seqs[1]
        BY <3>2, <3>3
      <4>2. QED
        BY <1>1, <3>3, <4>1, ConcatEmptySeq
    <3> DEFINE f == [i \in 1..N |-> g[i]]
    <3>5. \A i \in 1..N : f[i] = IF i = 1 THEN seqs[i] ELSE f[i - 1] \o seqs[i]
      <4>1. \A i \in 1..N : i # 1 => i - 1 \in 1..N
        BY <1>1
      <4>2. QED
        BY <3>2, <3>4, <4>1
    <3>6. Solves(f)
      BY <3>5
    <3>7. QED
      BY <3>6
  <2>3. Solves(flatten)
    BY <2>2
  <2>4. FlattenSeq(seqs) = flatten[N]
    BY <1>4 DEF FlattenSeq
  <2> HIDE DEF flatten
  <2>5. \A i \in 1..N : flatten[i] = IF i = 1 THEN seqs[i] ELSE flatten[i - 1] \o seqs[i]
    BY <2>3
  <2> DEFINE Bad == {n \in 1..N : ~(flatten[n] \in Seq(S) /\ Joins(flatten[n], seqs, n))}
  <2>6. Bad = {}
    <3>1. SUFFICES ASSUME Bad # {} PROVE FALSE
      OBVIOUS
    <3>2. PICK m \in Bad : \A j \in Bad : m =< j
      <4>1. Bad \subseteq Nat
        OBVIOUS
      <4> HIDE DEF Bad
      <4>2. QED
        BY <3>1, <4>1, LeastElement
    <3>3. m \in 1..N /\ ~(flatten[m] \in Seq(S) /\ Joins(flatten[m], seqs, m))
      BY <3>2
    <3>4. CASE m = 1
      <4>1. flatten[1] = <<>> \o seqs[0 + 1]
        BY <1>1, <1>4, <2>5, ConcatEmptySeq
      <4>2. 0 + 1 <= Len(seqs)
        BY <1>1, <1>4
      <4>3. <<>> \o seqs[0 + 1] \in Seq(S) /\ Joins(<<>> \o seqs[0 + 1], seqs, 0 + 1)
        BY <1>2, <4>2, JoinsNext
      <4>4. QED
        BY <3>3, <3>4, <4>1, <4>3
    <3>5. CASE m # 1
      <4>1. m - 1 \in 1..N /\ m - 1 \in Nat /\ (m - 1) + 1 = m /\ m <= Len(seqs)
        BY <1>1, <3>3, <3>5
      <4>2. m - 1 \notin Bad
        BY <3>2, <4>1
      <4>3. flatten[m - 1] \in Seq(S) /\ Joins(flatten[m - 1], seqs, m - 1)
        BY <4>1, <4>2
      <4>4. /\ flatten[m - 1] \o seqs[(m - 1) + 1] \in Seq(S)
            /\ Joins(flatten[m - 1] \o seqs[(m - 1) + 1], seqs, (m - 1) + 1)
        BY <4>1, <4>3, JoinsNext
      <4>5. flatten[m] = flatten[m - 1] \o seqs[m]
        BY <2>5, <3>3, <3>5
      <4>6. QED
        BY <3>3, <4>1, <4>4, <4>5
    <3>6. QED
      BY <3>4, <3>5
  <2>7. N \in 1..N
    BY <1>1, <1>4
  <2>8. QED
    BY <2>4, <2>6, <2>7
<1>5. QED
  BY <1>3, <1>4

\* The flattened sequence has elements of the same kind.
LEMMA FlattenTyped ==
    ASSUME NEW S, NEW I \in Nat, NEW seqs,
           seqs = [i \in 1..I |-> seqs[i]], \A i \in 1..I : seqs[i] \in Seq(S)
    PROVE  /\ FlattenSeq(seqs) \in Seq(S)
           /\ Joins(FlattenSeq(seqs), seqs, I)
<1>1. seqs \in Seq(Seq(S)) /\ Len(seqs) = I
  BY IsASeq
<1>2. QED
  BY <1>1, FlattenJoins

--------------------------------------------------------------------------------
(***************************************************************************)
(* Where matches are                                                       *)
(***************************************************************************)

\* The matches between two offsets.
Spans(lo, hi) ==
    {m \in [start : Nat, end : Nat] : lo <= m.start /\ m.start <= m.end /\ m.end <= hi}

\* The findings that rules make of them, with the confidence that a rule has at least.
RuleFound(lo, hi) ==
    {f \in Finding : /\ f.source = "Rule" /\ f.kind # "Organization"
                     /\ f.confidence >= 76 /\ (f.kind = "Person" => f.confidence = 99)
                     /\ lo <= f.start /\ f.start <= f.end /\ f.end <= hi}

\* What a function makes of the elements of a finite set is a finite set.
LEMMA ImageFinite ==
    ASSUME NEW S, IsFiniteSet(S), NEW f, f = [x \in S |-> f[x]]
    PROVE  IsFiniteSet({f[x] : x \in S})
<1> DEFINE T == {f[x] : x \in S}
<1>1. f \in Surjection(S, T)
  BY DEF Surjection
<1>2. QED
  BY <1>1, FS_Surjection

\* Between two offsets there are finitely many matches.
LEMMA SpansFinite ==
    ASSUME NEW lo, NEW hi \in Nat, NEW M, M \subseteq Spans(lo, hi)
    PROVE  IsFiniteSet(M)
<1> DEFINE box == (0..hi) \X (0..hi)
           f == [p \in box |-> Match(p[1], p[2])]
           T == {f[p] : p \in box}
<1>1. IsFiniteSet(box)
  <2>1. IsFiniteSet(0..hi)
    BY FS_Interval
  <2>2. QED
    BY <2>1, FS_Product
<1>2. IsFiniteSet(T)
  <2>1. f = [p \in box |-> f[p]]
    OBVIOUS
  <2> HIDE DEF box, f
  <2>2. QED
    BY <1>1, <2>1, ImageFinite
<1>3. ASSUME NEW m \in M PROVE m \in T
  <2>1. /\ m \in [start : Nat, end : Nat]
        /\ m.start <= m.end /\ m.end <= hi
    BY DEF Spans
  <2>2. m.start \in 0..hi /\ m.end \in 0..hi /\ m = Match(m.start, m.end)
    BY <2>1 DEF Match
  <2>3. <<m.start, m.end>> \in box /\ f[<<m.start, m.end>>] = m
    BY <2>2
  <2> HIDE DEF box, f
  <2>4. QED
    BY <2>3
<1> HIDE DEF T
<1>4. M \in SUBSET T
  BY <1>3
<1>5. QED
  BY <1>2, <1>4, FS_Subset

\* A finite set has a sequence of its elements.
LEMMA SetToSeqTyped ==
    ASSUME NEW S, IsFiniteSet(S)
    PROVE  SetToSeq(S) \in Seq(S) /\ Range(SetToSeq(S)) = S
<1> DEFINE n == Cardinality(S)
<1>1. n \in Nat /\ ExistsBijection(1..n, S)
  BY FS_CardinalityType
<1>2. PICK g \in Bijection(1..n, S) : TRUE
  BY <1>1 DEF ExistsBijection
<1>3. g \in [1..n -> S] /\ IsInjective(g)
  BY <1>2 DEF Bijection, Injection
<1>4. SetToSeq(S) \in [1..n -> S] /\ IsInjective(SetToSeq(S))
  BY <1>3 DEF SetToSeq
<1> DEFINE s == SetToSeq(S)
<1> HIDE DEF s
<1>5. s \in Injection(1..n, S)
  BY <1>4 DEF Injection, s
<1>6. IsFiniteSet(1..n) /\ Cardinality(1..n) = n
  BY <1>1, FS_Interval
<1>7. s \in Surjection(1..n, S)
  BY <1>5, <1>6, FS_Injection
<1>8. Range(s) = S
  <2>1. s \in [1..n -> S] /\ \A t \in S : \E i \in 1..n : s[i] = t
    BY <1>7 DEF Surjection
  <2>2. \A t \in S : t \in Range(s)
    BY <2>1 DEF Range
  <2>3. \A t \in Range(s) : t \in S
    BY <2>1 DEF Range
  <2>4. QED
    BY <2>2, <2>3
<1>9. s \in Seq(S)
  <2>1. s = [i \in 1..n |-> s[i]] /\ \A i \in 1..n : s[i] \in S
    BY <1>4 DEF s
  <2>2. QED
    BY <1>1, <2>1, IsASeq
<1>10. QED
  BY <1>8, <1>9 DEF s

\* Rules make findings of matches.
LEMMA RuleFindingsFound ==
    ASSUME NEW kind \in FindingKind \ {"Organization"}, NEW confidence \in 76..100,
           kind = "Person" => confidence = 99,
           NEW lo \in Nat, NEW hi \in Nat, NEW matches, matches \subseteq Spans(lo, hi)
    PROVE  RuleFindings(kind, confidence, matches) \in Seq(RuleFound(lo, hi))
<1> DEFINE f == [m \in matches |-> RuleFinding(kind, confidence, m)]
           F == {RuleFinding(kind, confidence, m) : m \in matches}
<1>1. IsFiniteSet(matches)
  BY SpansFinite
<1>2. IsFiniteSet(F)
  <2>1. f = [m \in matches |-> f[m]] /\ F = {f[m] : m \in matches}
    OBVIOUS
  <2> HIDE DEF f
  <2>2. QED
    BY <1>1, <2>1, ImageFinite
<1>3. ASSUME NEW m \in matches
      PROVE  RuleFinding(kind, confidence, m) \in RuleFound(lo, hi)
  <2>1. /\ m.start \in Nat /\ m.end \in Nat
        /\ lo <= m.start /\ m.start <= m.end /\ m.end <= hi
    BY DEF Spans
  <2>2. confidence \in 0..100 /\ confidence >= 76
    OBVIOUS
  <2>3. RuleFinding(kind, confidence, m) \in Finding
    BY <2>1, <2>2 DEF RuleFinding, Finding, FindingSource
  <2>4. QED
    BY <2>1, <2>2, <2>3 DEF RuleFound, RuleFinding
<1>4. F \subseteq RuleFound(lo, hi)
  BY <1>3
<1> HIDE DEF F
<1>5. SetToSeq(F) \in Seq(RuleFound(lo, hi))
  <2>1. SetToSeq(F) \in Seq(F)
    BY <1>2, SetToSeqTyped
  <2>2. QED
    BY <1>4, <2>1, SeqMonotonic
<1>6. QED
  BY <1>5 DEF RuleFindings, F

\* Matches are inside the text.
LEMMA FindIterSpans ==
    ASSUME NEW body, Len(body) \in Nat, NEW end,
           \A at \in 0..Len(body) : end[at] # Unplaced => end[at] \in at..Len(body)
    PROVE  FindIter(body, end) \subseteq Spans(0, Len(body))
<1> SUFFICES ASSUME NEW m \in FindIter(body, end) PROVE m \in Spans(0, Len(body))
  OBVIOUS
<1>1. PICK at \in 0..Len(body) : end[at] # Unplaced /\ m = Match(at, end[at])
  BY DEF FindIter
<1>2. at \in Nat /\ end[at] \in Nat /\ at <= end[at] /\ end[at] <= Len(body)
  BY <1>1
<1>3. m.start = at /\ m.end = end[at] /\ m \in [start : Nat, end : Nat]
  BY <1>1, <1>2 DEF Match
<1>4. QED
  BY <1>2, <1>3 DEF Spans

LEMMA MatchesOfSpans ==
    ASSUME NEW body, Len(body) \in Nat, NEW value, Len(value) \in Nat
    PROVE  MatchesOf(body, value) \subseteq Spans(0, Len(body))
<1> DEFINE end == [at \in 0..Len(body) |->
                      IF Prefixed(body, value, at) THEN at + Len(value) ELSE Unplaced]
<1>1. \A at \in 0..Len(body) : Prefixed(body, value, at) => at + Len(value) \in at..Len(body)
  BY DEF Prefixed
<1>2. \A at \in 0..Len(body) : end[at] # Unplaced => end[at] \in at..Len(body)
  BY <1>1
<1>3. MatchesOf(body, value) = FindIter(body, end)
  BY DEF MatchesOf
<1> HIDE DEF end
<1>4. QED
  BY <1>2, <1>3, FindIterSpans

\* The least and the greatest of some numbers are among them.
LEMMA LargestAmong ==
    ASSUME NEW n \in Nat, NEW S, S \subseteq 0..n, S # {}
    PROVE  LargestOf(S) \in S
<1>1. \E i \in S : \A j \in S : j =< i
  BY GreatestElement
<1>2. QED
  BY <1>1 DEF LargestOf

LEMMA SmallestAmong ==
    ASSUME NEW S, S \subseteq Nat, S # {}
    PROVE  SmallestOf(S) \in S /\ \A i \in S : SmallestOf(S) =< i
<1>1. \E i \in S : \A j \in S : i =< j
  BY LeastElement
<1>2. QED
  BY <1>1 DEF SmallestOf

\* A repetition ends inside the text.
LEMMA RepetitionEnds ==
    ASSUME NEW body, Len(body) \in Nat, NEW pattern, Len(pattern) \in Nat,
           NEW at \in 0..Len(body)
    PROVE  RepetitionEnd(body, pattern, at) \in at..Len(body)
<1> DEFINE L == Len(pattern)
           times(k) == \A i \in 1..(k * L) :
                          /\ at + i <= Len(body)
                          /\ body[at + i] = pattern[((i - 1) % L) + 1]
           S == {k \in 0..Len(body) : times(k)}
           most == LargestOf(S)
<1>1. RepetitionEnd(body, pattern, at) = at + L * most
  BY DEF RepetitionEnd
<1>2. 0 \in S
  BY 0 * L = 0
<1>3. most \in S
  <2>1. S \subseteq 0..Len(body) /\ S # {}
    BY <1>2
  <2> HIDE DEF S
  <2>2. QED
    BY <2>1, LargestAmong
<1>4. most \in Nat /\ times(most)
  BY <1>3
<1> HIDE DEF most, S
<1> DEFINE p == most * L
<1>5. p \in Nat /\ L * most = p
  BY <1>4
<1>6. \A i \in 1..p : at + i <= Len(body)
  BY <1>4
<1> HIDE DEF p
<1>7. at + p <= Len(body)
  BY <1>5, <1>6
<1>8. QED
  BY <1>1, <1>5, <1>7

\* So are the matches of the rules of a policy, and the lines that these are in.
LEMMA RuleMatchesSpans ==
    ASSUME NEW T, NEW body \in Seq(T), NEW rule \in Rules
    PROVE  RuleMatches(body, rule) \subseteq Spans(0, Len(body))
<1>1. Len(body) \in Nat /\ rule.pattern \in Seq(STRING) /\ Len(rule.pattern) \in Nat
      /\ rule.match \in {"Exact", "Contains", "Regex"}
  BY LenProperties DEF Rules
<1>2. CASE rule.match = "Exact"
  <2>1. RuleMatches(body, rule) = MatchesOf(body, rule.pattern)
    BY <1>2 DEF RuleMatches
  <2>2. QED
    BY <1>1, <2>1, MatchesOfSpans
<1>3. CASE rule.match = "Contains"
  <2>1. RuleMatches(body, rule) = MatchesOf(Lower(body), Lower(rule.pattern))
    BY <1>3 DEF RuleMatches
  <2>2. Len(Lower(body)) = Len(body)
    BY LenProperties DEF Lower
  <2>3. Len(Lower(rule.pattern)) = Len(rule.pattern)
    BY <1>1, LenProperties DEF Lower
  <2>4. QED
    BY <1>1, <2>1, <2>2, <2>3, MatchesOfSpans
<1>4. CASE rule.match = "Regex"
  <2> DEFINE end == [at \in 0..Len(body) |-> RepetitionEnd(body, rule.pattern, at)]
  <2>1. RuleMatches(body, rule) = FindIter(body, end)
    BY <1>4 DEF RuleMatches
  <2>2. \A at \in 0..Len(body) : end[at] \in at..Len(body)
    BY <1>1, RepetitionEnds
  <2> HIDE DEF end
  <2>3. QED
    BY <1>1, <2>1, <2>2, FindIterSpans
<1>5. QED
  BY <1>1, <1>2, <1>3, <1>4

LEMMA LineOfSpans ==
    ASSUME NEW body, Len(body) \in Nat, NEW match \in Spans(0, Len(body))
    PROVE  LineOf(body, match) \in Spans(0, Len(body))
<1> DEFINE A == {0} \cup {i \in 1..match.start : body[i] = "nl"}
           B == {Len(body)} \cup {i \in match.end..(Len(body) - 1) : body[i + 1] = "nl"}
<1>1. /\ match.start \in Nat /\ match.end \in Nat
      /\ match.start <= match.end /\ match.end <= Len(body)
  BY DEF Spans
<1>2. LargestOf(A) \in A /\ A \subseteq 0..match.start
  <2>1. A \subseteq 0..match.start /\ A # {}
    BY <1>1
  <2> HIDE DEF A
  <2>2. QED
    BY <1>1, <2>1, LargestAmong
<1>3. SmallestOf(B) \in B /\ B \subseteq match.end..Len(body)
  <2>1. B \subseteq match.end..Len(body) /\ B \subseteq Nat /\ B # {}
    BY <1>1
  <2> HIDE DEF B
  <2>2. QED
    BY <2>1, SmallestAmong
<1>4. LineOf(body, match) = Match(LargestOf(A), SmallestOf(B))
  BY DEF LineOf
<1> DEFINE a == LargestOf(A)
           b == SmallestOf(B)
<1> HIDE DEF A, B
<1>5. a \in 0..match.start /\ b \in match.end..Len(body)
  BY <1>2, <1>3
<1> HIDE DEF a, b
<1>6. /\ a \in Nat /\ b \in Nat /\ a <= b /\ b <= Len(body)
  BY <1>1, <1>5
<1>7. QED
  BY <1>4, <1>6 DEF Match, Spans, a, b

--------------------------------------------------------------------------------
(***************************************************************************)
(* What the rules find                                                     *)
(***************************************************************************)

\* What is given with a text: matches that end where they start, or behind it.
FoundWith(found) ==
    /\ found.assigned \in SUBSET Assignments
    /\ found.recognized \in SUBSET Recognitions
    /\ \A m \in found.assigned \cup found.recognized : m.start <= m.end

\* A range of the text.
IsRange(range) == range.start \in Nat /\ range.end \in Nat /\ range.start <= range.end

\* Strings that the user has named are found inside the text.
LEMMA CustomStringsFound ==
    ASSUME NEW T, NEW body \in Seq(T), NEW rules \in Seq(Rules)
    PROVE  CustomStrings(body, rules) \in Seq(RuleFound(0, Len(body)))
<1> DEFINE R == RuleFound(0, Len(body))
           forLines == {rule \in Range(rules) : rule.scope = "Line"}
           lines == {LineOf(body, m) : m \in UNION {RuleMatches(body, rule) : rule \in forLines}}
           seqs == [i \in DOMAIN rules |->
                       IF rules[i].scope = "Text"
                       THEN RuleFindings("CustomString", 100, RuleMatches(body, rules[i]))
                       ELSE <<>>]
<1>1. Len(body) \in Nat /\ Len(rules) \in Nat /\ DOMAIN rules = 1..Len(rules)
      /\ \A i \in DOMAIN rules : rules[i] \in Rules
  BY LenProperties, ElementOfSeq
<1>2. "CustomString" \in FindingKind \ {"Organization"} /\ "CustomString" # "Person"
      /\ 100 \in 76..100 /\ 0 \in Nat
  BY DEF FindingKind
<1>3. ASSUME NEW i \in 1..Len(rules) PROVE seqs[i] \in Seq(R)
  <2>1. RuleMatches(body, rules[i]) \subseteq Spans(0, Len(body))
    BY <1>1, RuleMatchesSpans
  <2>2. RuleFindings("CustomString", 100, RuleMatches(body, rules[i])) \in Seq(R)
    BY <1>1, <1>2, <2>1, RuleFindingsFound
  <2>3. <<>> \in Seq(R)
    BY EmptySeq
  <2>4. QED
    BY <1>1, <2>2, <2>3
<1>4. FlattenSeq(seqs) \in Seq(R)
  <2>1. seqs = [i \in 1..Len(rules) |-> seqs[i]]
    BY <1>1
  <2> HIDE DEF seqs, R
  <2>2. QED
    BY <1>1, <1>3, <2>1, FlattenTyped
<1>5. lines \subseteq Spans(0, Len(body))
  <2> SUFFICES ASSUME NEW rule \in forLines, NEW m \in RuleMatches(body, rule)
               PROVE  LineOf(body, m) \in Spans(0, Len(body))
    OBVIOUS
  <2>1. rule \in Rules
    BY <1>1 DEF Range
  <2>2. m \in Spans(0, Len(body))
    BY <2>1, RuleMatchesSpans
  <2>3. QED
    BY <1>1, <2>2, LineOfSpans
<1>6. RuleFindings("CustomString", 100, lines) \in Seq(R)
  <2> HIDE DEF lines
  <2>1. QED
    BY <1>1, <1>2, <1>5, RuleFindingsFound
<1>7. CustomStrings(body, rules) = FlattenSeq(seqs) \o RuleFindings("CustomString", 100, lines)
  BY DEF CustomStrings
<1> HIDE DEF seqs, lines, R
<1>8. CustomStrings(body, rules) \in Seq(R)
  BY <1>4, <1>6, <1>7, ConcatProperties
<1>9. QED
  BY <1>8 DEF R

\* They are moved to where the fragment is.
LEMMA MoveByFound ==
    ASSUME NEW lo \in Nat, NEW hi \in Nat, NEW by \in Nat,
           NEW found \in Seq(RuleFound(lo, hi))
    PROVE  MoveBy(found, by) \in Seq(RuleFound(lo + by, hi + by))
<1>1. Len(found) \in Nat /\ DOMAIN found = 1..Len(found)
      /\ \A i \in DOMAIN found : found[i] \in RuleFound(lo, hi)
  BY LenProperties, ElementOfSeq
<1>2. ASSUME NEW f \in RuleFound(lo, hi)
      PROVE  [f EXCEPT !.start = @ + by, !.end = @ + by] \in RuleFound(lo + by, hi + by)
  <2>1. /\ f \in Finding /\ f.start \in Nat /\ f.end \in Nat
        /\ lo <= f.start /\ f.start <= f.end /\ f.end <= hi
    BY FindingBounds DEF RuleFound
  <2> DEFINE g == [f EXCEPT !.start = @ + by, !.end = @ + by]
  <2>2. /\ g.start = f.start + by /\ g.end = f.end + by
        /\ g.kind = f.kind /\ g.source = f.source /\ g.confidence = f.confidence
    BY <2>1 DEF Finding
  <2>3. g \in Finding
    <3> DEFINE once == [f EXCEPT !.start = f.start + by]
    <3>1. f = [kind |-> f.kind, source |-> f.source, confidence |-> f.confidence,
               start |-> f.start, end |-> f.end]
      BY <2>1 DEF Finding
    <3>2. once = [kind |-> f.kind, source |-> f.source, confidence |-> f.confidence,
                  start |-> f.start + by, end |-> f.end]
      BY <3>1
    <3> HIDE DEF once
    <3>3. [once EXCEPT !.end = f.end + by] =
              [kind |-> f.kind, source |-> f.source, confidence |-> f.confidence,
               start |-> f.start + by, end |-> f.end + by]
      BY <3>2
    <3>4. g = [kind |-> f.kind, source |-> f.source, confidence |-> f.confidence,
               start |-> f.start + by, end |-> f.end + by]
      BY <3>3 DEF once
    <3>5. /\ f.kind \in FindingKind /\ f.source \in FindingSource
          /\ f.confidence \in 0..100
      BY <2>1 DEF Finding
    <3>6. f.start + by \in Nat /\ f.end + by \in Nat
      BY <2>1
    <3> HIDE DEF g
    <3>7. QED
      BY <3>4, <3>5, <3>6 DEF Finding
  <2> HIDE DEF g
  <2>4. /\ lo + by <= g.start /\ g.start <= g.end /\ g.end <= hi + by
    BY <2>1, <2>2
  <2>5. g \in RuleFound(lo + by, hi + by)
    BY <2>2, <2>3, <2>4 DEF RuleFound
  <2>6. QED
    BY <2>5 DEF g
<1>3. MoveBy(found, by) =
         [i \in 1..Len(found) |-> [found[i] EXCEPT !.start = @ + by, !.end = @ + by]]
  BY <1>1 DEF MoveBy
<1>4. \A i \in 1..Len(found) :
         [found[i] EXCEPT !.start = @ + by, !.end = @ + by] \in RuleFound(lo + by, hi + by)
  BY <1>1, <1>2
<1> DEFINE R == RuleFound(lo + by, hi + by)
           moved == MoveBy(found, by)
<1>5. moved = [i \in 1..Len(found) |-> moved[i]] /\ \A i \in 1..Len(found) : moved[i] \in R
  BY <1>3, <1>4
<1> HIDE DEF R, moved
<1>6. moved \in Seq(R)
  BY <1>1, <1>5, IsASeq
<1>7. QED
  BY <1>6 DEF R, moved

\* Assignments in the range are found as one kind.
LEMMA ContextualOfSpans ==
    ASSUME NEW found, FoundWith(found), NEW kind, NEW rules, NEW range, IsRange(range)
    PROVE  ContextualOf(kind, found.assigned, rules, range) \subseteq Spans(range.start, range.end)
<1> SUFFICES ASSUME NEW a \in found.assigned, Within(a, range)
             PROVE  Match(a.start, a.end) \in Spans(range.start, range.end)
  BY DEF ContextualOf
<1>1. a.start \in Nat /\ a.end \in Nat /\ a.start <= a.end
  BY DEF FoundWith, Assignments
<1>2. range.start <= a.start /\ a.end <= range.end
  BY DEF Within
<1>3. QED
  BY <1>1, <1>2 DEF Match, Spans

LEMMA ContextualFound ==
    ASSUME NEW found, FoundWith(found), NEW rules, NEW range, IsRange(range)
    PROVE  Contextual(found.assigned, rules, range) \in Seq(RuleFound(range.start, range.end))
<1> DEFINE R == RuleFound(range.start, range.end)
           K == ContextualKinds
           seqs == [i \in DOMAIN K |->
                       RuleFindings(K[i], 99, ContextualOf(K[i], found.assigned, rules, range))]
<1>1. /\ DOMAIN K = 1..6
      /\ \A i \in 1..6 : K[i] \in FindingKind \ {"Organization"}
  <2>1. <<"Secret">> \in Seq(FindingKind \ {"Organization"})
        /\ ContextualOrder \in Seq(FindingKind \ {"Organization"})
        /\ Len(ContextualOrder) = 5 /\ Len(<<"Secret">>) = 1
    BY DEF ContextualOrder, FindingKind
  <2>2. K \in Seq(FindingKind \ {"Organization"}) /\ Len(K) = 6
    <3> DEFINE S == FindingKind \ {"Organization"}
               first == <<"Secret">>
    <3>1. first \in Seq(S) /\ ContextualOrder \in Seq(S)
          /\ Len(first) = 1 /\ Len(ContextualOrder) = 5
      BY <2>1
    <3>2. K = first \o ContextualOrder
      BY DEF ContextualKinds
    <3> HIDE DEF S, first
    <3>3. K \in Seq(S) /\ Len(K) = Len(first) + Len(ContextualOrder)
      BY <3>1, <3>2, ConcatProperties
    <3>4. QED
      BY <3>1, <3>3 DEF S
  <2>3. QED
    BY <2>2, LenProperties, ElementOfSeq
<1>2. range.start \in Nat /\ range.end \in Nat /\ 99 \in 76..100 /\ 6 \in Nat
  BY DEF IsRange
<1>3. ASSUME NEW i \in 1..6 PROVE seqs[i] \in Seq(R)
  <2>1. ContextualOf(K[i], found.assigned, rules, range) \subseteq Spans(range.start, range.end)
    BY ContextualOfSpans
  <2>2. RuleFindings(K[i], 99, ContextualOf(K[i], found.assigned, rules, range)) \in Seq(R)
    BY <1>1, <1>2, <2>1, RuleFindingsFound
  <2>3. QED
    BY <1>1, <2>2
<1>4. seqs = [i \in 1..6 |-> seqs[i]]
  BY <1>1
<1>5. Contextual(found.assigned, rules, range) = FlattenSeq(seqs)
  BY DEF Contextual
<1> HIDE DEF seqs, R
<1>6. FlattenSeq(seqs) \in Seq(R)
  BY <1>2, <1>3, <1>4, FlattenTyped
<1>7. QED
  BY <1>5, <1>6 DEF R

\* A secret is repeated inside the fragment.
LEMMA PropagatedFound ==
    ASSUME NEW body, NEW found, FoundWith(found), NEW rules, NEW range, IsRange(range)
    PROVE  Propagated(body, found.assigned, rules, range)
              \in Seq(RuleFound(range.start, range.end))
<1> DEFINE secrets == ContextualOf("Secret", found.assigned, rules, range)
           fragment == Value(body, range)
           matches == UNION {Shifted(MatchesOf(fragment, v), range.start) :
                                v \in {Value(body, m) : m \in secrets}}
           known == UNION {ContextualOf(ContextualKinds[i], found.assigned, rules, range) :
                              i \in DOMAIN ContextualKinds}
<1>1. range.start \in Nat /\ range.end \in Nat /\ range.start <= range.end
  BY DEF IsRange
<1>2. ASSUME NEW m, m.start \in Nat, m.end \in Nat
      PROVE  /\ Len(Value(body, m)) \in Nat
             /\ m.start <= m.end => Len(Value(body, m)) = m.end - m.start
  <2> DEFINE lo == m.start + 1
             hi == m.end
             S == {body[i] : i \in lo..hi}
  <2>1. lo \in Int /\ hi \in Int /\ \A i \in lo..hi : body[i] \in S
    BY <1>2
  <2> HIDE DEF S, lo, hi
  <2>2. Len(SubSeq(body, lo, hi)) = IF lo <= hi THEN hi - lo + 1 ELSE 0
    BY <2>1, SubSeqProperties
  <2>3. Value(body, m) = SubSeq(body, lo, hi)
    BY DEF Value, lo, hi
  <2>4. QED
    BY <1>2, <2>2, <2>3 DEF lo, hi
<1>3. Len(fragment) \in Nat /\ Len(fragment) = range.end - range.start
  BY <1>1, <1>2
<1> HIDE DEF fragment
<1>4. ASSUME NEW m \in secrets, NEW k \in MatchesOf(fragment, Value(body, m))
      PROVE  Match(k.start + range.start, k.end + range.start)
                \in Spans(range.start, range.end)
  <2>1. m \in Spans(range.start, range.end)
    BY ContextualOfSpans
  <2>2. m.start \in Nat /\ m.end \in Nat
    BY <2>1 DEF Spans
  <2>3. Len(Value(body, m)) \in Nat
    BY <1>2, <2>2
  <2>4. k \in Spans(0, Len(fragment))
    BY <1>3, <2>3, MatchesOfSpans
  <2>5. /\ k.start \in Nat /\ k.end \in Nat /\ k.start <= k.end
        /\ k.end <= range.end - range.start
    BY <1>3, <2>4 DEF Spans
  <2>6. QED
    BY <1>1, <2>5 DEF Match, Spans
<1>5. matches \subseteq Spans(range.start, range.end)
  BY <1>4 DEF Shifted
<1>6. "Secret" \in FindingKind \ {"Organization"} /\ "Secret" # "Person" /\ 95 \in 76..100
  BY DEF FindingKind
<1>7. Propagated(body, found.assigned, rules, range) = RuleFindings("Secret", 95, matches \ known)
  BY DEF Propagated, fragment
<1> HIDE DEF matches, known
<1>8. matches \ known \subseteq Spans(range.start, range.end)
  BY <1>5
<1>9. QED
  BY <1>1, <1>6, <1>7, <1>8, RuleFindingsFound

LEMMA PatternsFound ==
    ASSUME NEW found, FoundWith(found), NEW rules, NEW range, IsRange(range)
    PROVE  Patterns(found.recognized, rules, range) \in Seq(RuleFound(range.start, range.end))
<1> DEFINE R == RuleFound(range.start, range.end)
           P == PatternOrder
           matches(kind) == {Match(r.start, r.end) :
               r \in {q \in found.recognized : q.kind = kind /\ Within(q, range)}}
           seqs == [i \in DOMAIN P |->
                       IF P[i] \in rules
                       THEN RuleFindings(P[i], PatternConfidence[P[i]], matches(P[i]))
                       ELSE <<>>]
<1>1. /\ DOMAIN P = 1..7 /\ 7 \in Nat
      /\ \A i \in 1..7 : /\ P[i] \in FindingKind \ {"Organization"} /\ P[i] # "Person"
                         /\ PatternConfidence[P[i]] \in 76..100
  BY DEF PatternOrder, PatternConfidence, FindingKind
<1>2. range.start \in Nat /\ range.end \in Nat
  BY DEF IsRange
<1>3. ASSUME NEW i \in 1..7 PROVE seqs[i] \in Seq(R)
  <2>1. matches(P[i]) \subseteq Spans(range.start, range.end)
    <3> SUFFICES ASSUME NEW r \in found.recognized, Within(r, range)
                 PROVE  Match(r.start, r.end) \in Spans(range.start, range.end)
      OBVIOUS
    <3>1. r.start \in Nat /\ r.end \in Nat /\ r.start <= r.end
      BY DEF FoundWith, Recognitions
    <3>2. range.start <= r.start /\ r.end <= range.end
      BY DEF Within
    <3>3. QED
      BY <3>1, <3>2 DEF Match, Spans
  <2> DEFINE M == matches(P[i])
  <2>2. seqs[i] = IF P[i] \in rules THEN RuleFindings(P[i], PatternConfidence[P[i]], M)
                  ELSE <<>>
    BY <1>1
  <2>3. M \subseteq Spans(range.start, range.end)
    BY <2>1
  <2> HIDE DEF M, seqs
  <2>4. RuleFindings(P[i], PatternConfidence[P[i]], M) \in Seq(R)
    BY <1>1, <1>2, <2>3, RuleFindingsFound
  <2>5. <<>> \in Seq(R)
    BY EmptySeq
  <2>6. QED
    BY <2>2, <2>4, <2>5
<1>4. seqs = [i \in 1..7 |-> seqs[i]]
  BY <1>1
<1>5. Patterns(found.recognized, rules, range) = FlattenSeq(seqs)
  BY DEF Patterns
<1> HIDE DEF seqs, R
<1>6. FlattenSeq(seqs) \in Seq(R)
  BY <1>1, <1>3, <1>4, FlattenTyped
<1>7. QED
  BY <1>5, <1>6 DEF R

LEMMA BuiltinsFound ==
    ASSUME NEW body, NEW found, FoundWith(found), NEW rules, NEW range, IsRange(range)
    PROVE  Builtins(body, found, rules, range) \in Seq(RuleFound(range.start, range.end))
<1> DEFINE R == RuleFound(range.start, range.end)
           A == Contextual(found.assigned, rules, range)
           B == IF "Secret" \in rules THEN Propagated(body, found.assigned, rules, range) ELSE <<>>
           C == Patterns(found.recognized, rules, range)
<1>1. A \in Seq(R) /\ C \in Seq(R)
  BY ContextualFound, PatternsFound
<1>2. B \in Seq(R)
  BY PropagatedFound, EmptySeq
<1>3. Builtins(body, found, rules, range) = A \o B \o C
  BY DEF Builtins
<1> HIDE DEF A, B, C, R
<1>4. A \o B \in Seq(R)
  BY <1>1, <1>2, ConcatProperties
<1>5. (A \o B) \o C \in Seq(R)
  BY <1>1, <1>4, ConcatProperties
<1>6. QED
  BY <1>3, <1>5 DEF R

\* What is found in some ranges: in one of them, and as a whole if its file is named.
FoundIn(text_ranges, files) ==
    {f \in Finding :
        \E i \in DOMAIN text_ranges :
            /\ f \in RuleFound(text_ranges[i].start, text_ranges[i].end)
            /\ InCustomFile(text_ranges[i], files)
               => f = RuleFinding("CustomFile", 100, text_ranges[i])}

\* Every finding is in one of the ranges, and every range of a named file is found.
LEMMA DetectedFound ==
    ASSUME NEW body, NEW found, FoundWith(found), NEW given \in Policies,
           NEW T, NEW parts \in Seq(T), \A i \in DOMAIN parts : IsRange(parts[i])
    PROVE  /\ Detected(body, found, given, parts) \in Seq(FoundIn(parts, given.files))
           /\ \A i \in DOMAIN parts :
                 InCustomFile(parts[i], given.files)
                 => RuleFinding("CustomFile", 100, parts[i])
                       \in Range(Detected(body, found, given, parts))
<1> DEFINE files == given.files
           F == FoundIn(parts, files)
           N == Len(parts)
           whole == [i \in DOMAIN parts |->
                        IF InCustomFile(parts[i], files)
                        THEN <<RuleFinding("CustomFile", 100, parts[i])>>
                        ELSE <<>>]
           searched == [i \in DOMAIN parts |->
                           IF InCustomFile(parts[i], files)
                           THEN <<>>
                           ELSE Builtins(body, found, given.rules, parts[i])
                                \o MoveBy(CustomStrings(Value(body, parts[i]), given.strings),
                                          parts[i].start)]
<1>1. N \in Nat /\ DOMAIN parts = 1..N
  BY LenProperties
<1>2. Detected(body, found, given, parts) = FlattenSeq(whole) \o FlattenSeq(searched)
  BY DEF Detected, CustomFiles
<1>3. <<>> \in Seq(F)
  BY EmptySeq
<1>4. ASSUME NEW i \in 1..N, InCustomFile(parts[i], files)
      PROVE  RuleFinding("CustomFile", 100, parts[i]) \in F
  <2> DEFINE f == RuleFinding("CustomFile", 100, parts[i])
  <2>1. /\ parts[i].start \in Nat /\ parts[i].end \in Nat
        /\ parts[i].start <= parts[i].end
    BY <1>1 DEF IsRange
  <2>2. /\ f.kind = "CustomFile" /\ f.source = "Rule" /\ f.confidence = 100
        /\ f.start = parts[i].start /\ f.end = parts[i].end
    BY DEF RuleFinding
  <2>3. f \in Finding
    BY <2>1 DEF RuleFinding, Finding, FindingKind, FindingSource
  <2> HIDE DEF f
  <2>4. f \in RuleFound(parts[i].start, parts[i].end)
    BY <2>1, <2>2, <2>3 DEF RuleFound
  <2>5. QED
    BY <1>1, <2>3, <2>4 DEF FoundIn, f
<1>5. ASSUME NEW i \in 1..N, ~InCustomFile(parts[i], files)
      PROVE  RuleFound(parts[i].start, parts[i].end) \subseteq F
  BY <1>1, <1>5 DEF FoundIn, RuleFound
<1>6. ASSUME NEW i \in 1..N PROVE whole[i] \in Seq(F)
  <2>1. CASE InCustomFile(parts[i], files)
    <3>1. whole[i] = <<RuleFinding("CustomFile", 100, parts[i])>>
      BY <1>1, <2>1
    <3>2. RuleFinding("CustomFile", 100, parts[i]) \in F
      BY <1>4, <2>1
    <3> HIDE DEF F, whole
    <3>3. QED
      BY <3>1, <3>2
  <2>2. CASE ~InCustomFile(parts[i], files)
    BY <1>1, <1>3, <2>2
  <2>3. QED
    BY <2>1, <2>2
<1>7. ASSUME NEW i \in 1..N PROVE searched[i] \in Seq(F)
  <2>1. CASE InCustomFile(parts[i], files)
    BY <1>1, <1>3, <2>1
  <2>2. CASE ~InCustomFile(parts[i], files)
    <3> DEFINE range == parts[i]
               R == RuleFound(range.start, range.end)
               fragment == Value(body, range)
               A == Builtins(body, found, given.rules, range)
               B == CustomStrings(fragment, given.strings)
    <3>1. IsRange(range)
      BY <1>1
    <3>2. A \in Seq(R)
      BY <3>1, BuiltinsFound
    <3>3. /\ range.start \in Nat /\ range.end \in Nat /\ range.start <= range.end
      BY <3>1 DEF IsRange
    <3> DEFINE lo == range.start + 1
               S == {body[k] : k \in lo..range.end}
    <3>4. fragment \in Seq(S) /\ Len(fragment) = range.end - range.start
      <4>1. lo \in Int /\ range.end \in Int /\ \A k \in lo..range.end : body[k] \in S
        BY <3>3
      <4>2. fragment = SubSeq(body, lo, range.end)
        BY DEF Value
      <4> HIDE DEF S, lo
      <4>3. /\ SubSeq(body, lo, range.end) \in Seq(S)
            /\ Len(SubSeq(body, lo, range.end)) =
                  IF lo <= range.end THEN range.end - lo + 1 ELSE 0
        BY <4>1, SubSeqProperties
      <4> HIDE DEF fragment
      <4>4. QED
        BY <3>3, <4>2, <4>3 DEF lo
    <3>5. given.strings \in Seq(Rules)
      BY DEF Policies
    <3> HIDE DEF S, lo, fragment
    <3>6. B \in Seq(RuleFound(0, Len(fragment)))
      BY <3>4, <3>5, CustomStringsFound
    <3>7. /\ Len(fragment) \in Nat /\ 0 + range.start = range.start
          /\ Len(fragment) + range.start = range.end
      BY <3>3, <3>4
    <3>8. MoveBy(B, range.start) \in Seq(R)
      <4> HIDE DEF B
      <4>1. MoveBy(B, range.start)
               \in Seq(RuleFound(0 + range.start, Len(fragment) + range.start))
        BY <3>3, <3>6, <3>7, MoveByFound
      <4>2. QED
        BY <3>7, <4>1
    <3>9. searched[i] = A \o MoveBy(B, range.start)
      BY <1>1, <2>2 DEF fragment
    <3>10. R \subseteq F
      BY <1>5, <2>2
    <3> HIDE DEF searched, A, B, R, F
    <3>11. A \o MoveBy(B, range.start) \in Seq(R)
      BY <3>2, <3>8, ConcatProperties
    <3>12. QED
      BY <3>9, <3>10, <3>11, SeqMonotonic
  <2>3. QED
    BY <2>1, <2>2
<1>8. whole = [i \in 1..N |-> whole[i]] /\ searched = [i \in 1..N |-> searched[i]]
  BY <1>1
<1>9. \A i \in 1..N :
         InCustomFile(parts[i], files)
         => 1 \in DOMAIN whole[i] /\ whole[i][1] = RuleFinding("CustomFile", 100, parts[i])
  BY <1>1
<1> DEFINE X == FlattenSeq(whole)
           Y == FlattenSeq(searched)
           D == Detected(body, found, given, parts)
<1> HIDE DEF whole, searched, F, N
<1>10. X \in Seq(F) /\ Joins(X, whole, N)
  BY <1>1, <1>6, <1>8, FlattenTyped
<1>11. Y \in Seq(F)
  BY <1>1, <1>7, <1>8, FlattenTyped
<1> HIDE DEF X, Y, D
<1>12. D = X \o Y
  BY <1>2 DEF X, Y, D
<1>13. D \in Seq(F) /\ \A k \in 1..Len(X) : k \in DOMAIN D /\ D[k] = X[k]
  <2>1. /\ D \in Seq(F) /\ Len(D) = Len(X) + Len(Y)
        /\ \A k \in 1..(Len(X) + Len(Y)) : D[k] = IF k <= Len(X) THEN X[k] ELSE Y[k - Len(X)]
        /\ Len(X) \in Nat /\ Len(Y) \in Nat
    BY <1>10, <1>11, <1>12, ConcatProperties, LenProperties
  <2>2. DOMAIN D = 1..(Len(X) + Len(Y))
    BY <2>1, LenProperties
  <2>3. QED
    BY <2>1, <2>2
<1>14. ASSUME NEW i \in DOMAIN parts, InCustomFile(parts[i], files)
       PROVE  RuleFinding("CustomFile", 100, parts[i]) \in Range(D)
  <2>1. i \in 1..N
    BY <1>1
  <2>2. /\ 1 \in DOMAIN whole[i]
        /\ whole[i][1] = RuleFinding("CustomFile", 100, parts[i])
    BY <1>9, <1>14, <2>1
  <2>3. PICK p \in DOMAIN X : X[p] = whole[i][1]
    BY <1>10, <2>1, <2>2 DEF Joins
  <2>4. p \in 1..Len(X)
    BY <1>10, LenProperties
  <2>5. QED
    BY <1>13, <2>2, <2>3, <2>4 DEF Range
<1>15. QED
  BY <1>13, <1>14 DEF D, F
--------------------------------------------------------------------------------
(***************************************************************************)
(* What the scanner has read                                               *)
(***************************************************************************)

\* The length of a text, line by line.
LengthStep(lines) ==
    [n \in 1..Len(lines) |-> [x \in Nat |-> x + LineLength(lines[n])]]

\* A head counts as one.
LEMMA LineLengths ==
    ASSUME NEW line \in Lines
    PROVE  /\ LineLength(line) \in Nat /\ Len(line.body) \in Nat
           /\ line.head # "" => LineLength(line) = 1 + Len(line.body)
           /\ line.body # <<>> <=> Len(line.body) # 0
<1>1. line.body \in Seq(STRING)
  BY DEF Lines
<1>2. Len(line.body) \in Nat
  BY <1>1, LenProperties
<1>3. line.body # <<>> <=> Len(line.body) # 0
  BY <1>1, EmptySeq
<1>4. /\ line.head = "" => LineLength(line) = 0 + Len(line.body)
      /\ line.head # "" => LineLength(line) = 1 + Len(line.body)
  BY DEF LineLength
<1>5. LineLength(line) \in Nat
  <2>1. PICK n \in Nat : n = Len(line.body)
    BY <1>2
  <2>2. 0 + n \in Nat /\ 1 + n \in Nat
    OBVIOUS
  <2>3. LineLength(line) = 0 + n \/ LineLength(line) = 1 + n
    BY <1>4, <2>1
  <2>4. QED
    BY <2>2, <2>3
<1>6. QED
  BY <1>2, <1>3, <1>4, <1>5

\* The length is the sum of the lengths of the lines.
LEMMA TextLengthIterates ==
    ASSUME NEW lines \in Seq(Lines)
    PROVE  \E f : /\ Iterates(f, 0, LengthStep(lines), Len(lines))
                  /\ \A n \in 0..Len(lines) : f[n] \in Nat
                  /\ TextLength(lines) = f[Len(lines)]
<1> DEFINE N == Len(lines)
           Solves(f) ==
               f = [n \in 0..N |-> IF n = 0 THEN 0 ELSE f[n - 1] + LineLength(lines[n])]
           sum == CHOOSE f : Solves(f)
<1>1. N \in Nat /\ \A n \in 1..N : LineLength(lines[n]) \in Nat
  <2>1. N \in Nat /\ \A n \in 1..N : lines[n] \in Lines
    BY LenProperties, ElementOfSeq
  <2>2. QED
    BY <2>1, LineLengths
<1>2. LengthStep(lines) \in [1..N -> [Nat -> Nat]]
  BY <1>1 DEF LengthStep
<1>3. \E f : Solves(f)
  <2>1. PICK f \in [0..N -> Nat] : Iterates(f, 0, LengthStep(lines), N)
    BY <1>1, <1>2, RecursionExists
  <2>2. \A n \in 1..N : f[n] = f[n - 1] + LineLength(lines[n])
    <3>1. \A n \in 1..N : n - 1 \in 0..N
      BY <1>1
    <3>2. QED
      BY <2>1, <3>1 DEF Iterates, LengthStep
  <2>3. \A n \in 0..N : f[n] = IF n = 0 THEN 0 ELSE f[n - 1] + LineLength(lines[n])
    BY <1>1, <2>1, <2>2 DEF Iterates
  <2>4. Solves(f)
    BY <2>1, <2>3
  <2>5. QED
    BY <2>4
<1>4. Solves(sum)
  BY <1>3
<1> HIDE DEF sum
<1>5. \A n \in 0..N : sum[n] = IF n = 0 THEN 0 ELSE sum[n - 1] + LineLength(lines[n])
  BY <1>4
<1>6. sum[0] = 0 /\ \A n \in 1..N : sum[n] = sum[n - 1] + LineLength(lines[n])
  BY <1>1, <1>5
<1>7. \A n \in 1..N : sum[n - 1] \in Nat => sum[n] = LengthStep(lines)[n][sum[n - 1]]
  BY <1>6 DEF LengthStep
<1>8. /\ \A n \in 0..N : sum[n] \in Nat
      /\ Iterates(sum, 0, LengthStep(lines), N)
  BY <1>1, <1>2, <1>6, <1>7, RecursionTyped
<1>9. TextLength(lines) = sum[N]
  BY DEF TextLength, sum
<1>10. QED
  BY <1>8, <1>9

\* Each line starts where the one before it ends.
LEMMA LineStarts ==
    ASSUME NEW lines \in Seq(Lines)
    PROVE  /\ TextLength(lines) \in Nat
           /\ LineStart(lines, 1) = 0
           /\ \A n \in 1..Len(lines) :
                 /\ LineStart(lines, n) \in Nat
                 /\ LineStart(lines, n + 1) = LineStart(lines, n) + LineLength(lines[n])
<1> DEFINE N == Len(lines)
           first(n) == SubSeq(lines, 1, n)
<1>1. N \in Nat
  BY LenProperties
<1>2. TextLength(lines) \in Nat
  BY <1>1, TextLengthIterates
<1>3. ASSUME NEW n \in 0..N
      PROVE  /\ first(n) \in Seq(Lines) /\ Len(first(n)) = n
             /\ \A k \in 1..n : first(n)[k] = lines[k]
             /\ LineStart(lines, n + 1) = TextLength(first(n))
  <2>1. \A k \in 1..n : lines[k] \in Lines
    BY <1>1, ElementOfSeq
  <2>2. /\ first(n) \in Seq(Lines)
        /\ Len(first(n)) = IF 1 <= n THEN n - 1 + 1 ELSE 0
        /\ \A k \in 1..(n - 1 + 1) : first(n)[k] = lines[1 + k - 1]
    BY <1>1, <2>1, SubSeqProperties
  <2>3. n \in Nat /\ (n + 1) - 1 = n /\ n - 1 + 1 = n
    BY <1>1
  <2>4. \A k \in 1..n : 1 + k - 1 = k
    OBVIOUS
  <2>5. QED
    BY <2>2, <2>3, <2>4 DEF LineStart
<1>4. ASSUME NEW n \in 0..N
      PROVE  \E f : /\ Iterates(f, 0, LengthStep(first(n)), n)
                    /\ f[n] \in Nat /\ LineStart(lines, n + 1) = f[n]
  <2>1. n \in 0..n
    BY <1>1
  <2> HIDE DEF first
  <2>2. PICK f : /\ Iterates(f, 0, LengthStep(first(n)), n)
                 /\ \A k \in 0..n : f[k] \in Nat
                 /\ TextLength(first(n)) = f[n]
    BY <1>3, TextLengthIterates
  <2>3. QED
    BY <1>3, <2>1, <2>2
<1>5. LineStart(lines, 1) = 0
  <2>1. 0 \in 0..N /\ 0 + 1 = 1
    BY <1>1
  <2> HIDE DEF first
  <2>2. QED
    BY <1>4, <2>1 DEF Iterates
<1>6. ASSUME NEW n \in 1..N
      PROVE  /\ LineStart(lines, n) \in Nat
             /\ LineStart(lines, n + 1) = LineStart(lines, n) + LineLength(lines[n])
  <2> DEFINE m == n - 1
  <2>1. m \in 0..N /\ n \in 0..N /\ m \in Nat /\ n = m + 1
    BY <1>1
  <2> HIDE DEF first, m
  <2>2. PICK f : /\ Iterates(f, 0, LengthStep(first(m)), m)
                 /\ f[m] \in Nat /\ LineStart(lines, m + 1) = f[m]
    BY <1>4, <2>1
  <2>3. PICK g : /\ Iterates(g, 0, LengthStep(first(n)), n)
                 /\ g[n] \in Nat /\ LineStart(lines, n + 1) = g[n]
    BY <1>4, <2>1
  <2>4. \A k \in 1..m : LengthStep(first(m))[k] = LengthStep(first(n))[k]
    <3>1. \A k \in 1..m : k \in 1..n /\ first(m)[k] = lines[k] /\ first(n)[k] = lines[k]
      BY <1>3, <2>1
    <3>2. Len(first(m)) = m /\ Len(first(n)) = n
      BY <1>3, <2>1
    <3>3. QED
      BY <3>1, <3>2 DEF LengthStep
  <2>5. g[m + 1] = LengthStep(first(n))[m + 1][f[m]]
    <3> DEFINE a == LengthStep(first(m))
               b == LengthStep(first(n))
    <3>1. Iterates(f, 0, a, m) /\ Iterates(g, 0, b, m + 1) /\ \A k \in 1..m : a[k] = b[k]
      BY <2>1, <2>2, <2>3, <2>4
    <3> HIDE DEF a, b
    <3>2. g[m + 1] = b[m + 1][f[m]]
      BY <2>1, <3>1, RecursionExtends
    <3>3. QED
      BY <3>2 DEF b
  <2>6. LengthStep(first(n))[n][f[m]] = f[m] + LineLength(lines[n])
    <3>1. Len(first(n)) = n /\ n \in 1..n /\ first(n)[n] = lines[n]
      BY <1>3, <2>1
    <3>2. QED
      BY <2>2, <3>1 DEF LengthStep
  <2>7. QED
    BY <2>1, <2>2, <2>3, <2>5, <2>6
<1>7. QED
  BY <1>2, <1>5, <1>6

\* The parts of a text that may be searched.
Places == [start : Nat, end : Nat, path : STRING \cup {NoPath}]

\* How many lines have been read.
Seen == Len(input.lines) - Len(unread)

ScannerTyped ==
    /\ input \in Inputs
    /\ unread \in Seq(Lines) /\ Seen \in 0..Len(input.lines)
    /\ \A j \in DOMAIN unread : unread[j] = input.lines[Seen + j]
    /\ offset \in Nat
    /\ filePath \in STRING \cup {NoPath}
    /\ ranges \in Seq(Places)

\* The ranges are in the order of the text, and no two overlap.
RangesApart ==
    /\ \A i \in DOMAIN ranges : IsRange(ranges[i])
    /\ \A i, j \in DOMAIN ranges : i < j => ranges[i].end <= ranges[j].start

\* The scanner is in a hunk behind a "@@" of a file that is not binary, and only there.
HunkKnown ==
    /\ inHunk => \E h \in 1..Seen : /\ input.lines[h].head = "@@"
                                    /\ OneTextFile(input.lines, h + 1, Seen)
    /\ \A d \in 1..Seen :
          input.lines[d].head = "diff --git " /\ OneTextFile(input.lines, d + 1, Seen)
          => /\ ~inBinaryPatch
             /\ \A h \in (d + 1)..Seen : input.lines[h].head = "@@" => inHunk

\* As long as no line misleads, the path is that of the last header that names one.
FileKnown ==
    FileKept(input.lines, Seen + 1) =>
        \A m \in 1..Seen :
            /\ input.lines[m].path # NoPath
            /\ NamedLast(input.lines, Seen + 1, input.lines[m].path)
            => filePath = input.lines[m].path

\* The ranges are bodies of changed lines, of each of them that is not taken for a
\* header, and of its file, unless a line has misled about it.
RangesKnown ==
    /\ offset = LineStart(input.lines, Seen + 1)
    /\ \A i \in DOMAIN ranges :
          /\ ranges[i].end <= offset
          /\ \E n \in Content(input.lines) :
                /\ ranges[i].start = BodyRange(input.lines, n).start
                /\ ranges[i].end = BodyRange(input.lines, n).end
    /\ \A n \in Content(input.lines) :
          /\ n <= Seen /\ ~TakenForHeader(input.lines[n])
          /\ FileKept(input.lines, n) /\ input.lines[n].file # NoPath
          => \E i \in DOMAIN ranges :
                ranges[i] = RedactableRange(BodyRange(input.lines, n).start,
                                            BodyRange(input.lines, n).end,
                                            input.lines[n].file)

ScannerIInv ==
    /\ ScannerTyped
    /\ RangesApart
    /\ input.kind = "GitDiff" => HunkKnown /\ FileKnown /\ RangesKnown

LEMMA InitScanned == Init => ScannerIInv
<1> SUFFICES ASSUME Init PROVE ScannerIInv
  OBVIOUS
<1> DEFINE lines == input.lines
<1>1. /\ input \in Inputs /\ unread = lines /\ offset = 0 /\ inHunk = FALSE
      /\ filePath = NoPath /\ ranges = <<>>
  BY DEF Init, InitScanner
<1>2. lines \in Seq(Lines) /\ Len(lines) \in Nat
  BY <1>1, InputsAssumption, LenProperties
<1>3. Seen = 0
  BY <1>1, <1>2 DEF Seen
<1>4. ranges \in Seq(Places) /\ DOMAIN ranges = {}
  BY <1>1, EmptySeq
<1>5. ScannerTyped
  BY <1>1, <1>2, <1>3, <1>4, LenProperties DEF ScannerTyped
<1>6. RangesApart
  BY <1>4 DEF RangesApart
<1>7. HunkKnown /\ FileKnown
  BY <1>1, <1>3 DEF HunkKnown, FileKnown
<1>8. RangesKnown
  <2>1. offset = LineStart(lines, Seen + 1)
    BY <1>1, <1>2, <1>3, LineStarts
  <2>2. \A n \in Content(lines) : ~(n <= Seen)
    BY <1>2, <1>3, LenProperties DEF Content
  <2>3. QED
    BY <1>4, <2>1, <2>2 DEF RangesKnown
<1>9. QED
  BY <1>5, <1>6, <1>7, <1>8 DEF ScannerIInv

\* Reading takes the next line of the input.
LEMMA LineRead ==
    ASSUME ScannerTyped, unread # <<>>, unread' = Tail(unread), UNCHANGED input
    PROVE  /\ input.lines \in Seq(Lines) /\ Len(input.lines) \in Nat
           /\ Seen \in Nat /\ Seen + 1 \in 1..Len(input.lines) /\ Seen' = Seen + 1
           /\ Head(unread) = input.lines[Seen + 1] /\ Head(unread) \in Lines
           /\ unread' \in Seq(Lines) /\ Seen' \in 0..Len(input'.lines)
           /\ \A j \in DOMAIN unread' : unread'[j] = input'.lines[Seen' + j]
<1> DEFINE lines == input.lines
<1>1. lines \in Seq(Lines) /\ Len(lines) \in Nat
  BY InputsAssumption, LenProperties DEF ScannerTyped
<1>2. /\ unread \in Seq(Lines) /\ Len(unread) \in Nat \ {0}
      /\ DOMAIN unread = 1..Len(unread)
      /\ Seen = Len(lines) - Len(unread) /\ Seen \in 0..Len(lines)
  BY EmptySeq, LenProperties DEF ScannerTyped, Seen
<1>3. /\ Head(unread) = unread[1] /\ Head(unread) \in Lines
      /\ unread' \in Seq(Lines) /\ Len(unread') = Len(unread) - 1
      /\ \A j \in 1..Len(unread') : unread'[j] = unread[j + 1]
  BY <1>2, HeadTailProperties
<1>4. Seen' = Seen + 1 /\ Seen + 1 \in 1..Len(lines)
  <2>1. Seen' = Len(lines) - Len(unread')
    BY DEF Seen
  <2>2. QED
    BY <1>1, <1>2, <1>3, <2>1
<1>5. 1 \in DOMAIN unread
  BY <1>2
<1>6. Head(unread) = lines[Seen + 1]
  BY <1>3, <1>5 DEF ScannerTyped
<1>7. ASSUME NEW j \in DOMAIN unread' PROVE unread'[j] = lines[Seen' + j]
  <2>1. j \in 1..Len(unread')
    BY <1>3, LenProperties
  <2>2. j + 1 \in DOMAIN unread /\ Seen + (j + 1) = Seen' + j
    BY <1>2, <1>3, <1>4, <2>1
  <2>3. unread[j + 1] = lines[Seen + (j + 1)]
    BY <2>2 DEF ScannerTyped
  <2>4. QED
    BY <1>3, <2>1, <2>2, <2>3
<1>8. QED
  BY <1>1, <1>2, <1>3, <1>4, <1>6, <1>7

\* What a line is taken for.
LEMMA LineTaken ==
    ASSUME ScanLine
    PROVE  LET line == Head(unread)
           IN /\ unread # <<>> /\ unread' = Tail(unread)
              /\ offset' = offset + LineLength(line)
              /\ line.head = "diff --git " => /\ ~inHunk' /\ ~inBinaryPatch'
                                              /\ filePath' = line.path
              /\ line.head \in FileHeads => filePath' = PathAfter(line)
              /\ line.head \notin {"diff --git "} \cup FileHeads => UNCHANGED filePath
              /\ line.head \in BinaryHeads => ~inHunk'
              /\ line.head = "@@" => \/ ~inBinaryPatch /\ inHunk'
                                     \/ inBinaryPatch /\ UNCHANGED inHunk
              /\ line.head \notin {"diff --git ", "@@"} \cup BinaryHeads => UNCHANGED inHunk
              /\ line.head \notin {"diff --git "} \cup BinaryHeads => UNCHANGED inBinaryPatch
              /\ ranges' = IF /\ line.head \in Signs /\ line.body # <<>>
                              /\ inHunk /\ ~inBinaryPatch
                           THEN Append(ranges, RedactableRange(offset + 1, offset', filePath))
                           ELSE ranges
<1> DEFINE line == Head(unread)
<1>1. CASE FileHeader
  BY <1>1 DEF FileHeader, ReadLine, FileHeads, BinaryHeads, Signs
<1>2. CASE PathLine
  BY <1>2 DEF PathLine, ReadLine, FileHeads, BinaryHeads, Signs
<1>3. CASE BinaryLine
  BY <1>3 DEF BinaryLine, ReadLine, FileHeads, BinaryHeads, Signs
<1>4. CASE HunkHeader
  BY <1>4 DEF HunkHeader, ReadLine, FileHeads, BinaryHeads, Signs
<1>5. CASE HunkLine
  BY <1>5 DEF HunkLine, ReadLine, FileHeads, BinaryHeads, Signs
<1>6. CASE SkippedLine
  BY <1>6 DEF SkippedLine, ReadLine, FileHeads, BinaryHeads, Signs
<1>7. QED
  BY <1>1, <1>2, <1>3, <1>4, <1>5, <1>6 DEF ScanLine

LEMMA HunkStep ==
    ASSUME ScannerTyped, HunkKnown, ScanLine, UNCHANGED input
    PROVE  HunkKnown'
<1> DEFINE lines == input.lines
           n == Seen + 1
           line == lines[n]
<1>1. /\ Seen \in Nat /\ Seen' = n /\ input' = input /\ Head(unread) = line
      /\ n \in 1..n /\ n \in Nat
  <2>1. unread # <<>> /\ unread' = Tail(unread) /\ input' = input
    BY LineTaken
  <2>2. Seen \in Nat /\ Seen' = n /\ Head(unread) = line
    BY <2>1, LineRead
  <2>3. QED
    BY <2>1, <2>2
<1>2. /\ line.head = "diff --git " => ~inHunk' /\ ~inBinaryPatch'
      /\ line.head \in BinaryHeads => ~inHunk'
      /\ line.head = "@@" => \/ ~inBinaryPatch /\ inHunk'
                             \/ inBinaryPatch /\ UNCHANGED inHunk
      /\ line.head \notin {"diff --git ", "@@"} \cup BinaryHeads => UNCHANGED inHunk
      /\ line.head \notin {"diff --git "} \cup BinaryHeads => UNCHANGED inBinaryPatch
  BY <1>1, LineTaken
<1>3. ASSUME NEW m \in 1..n
      PROVE  /\ m # n => m \in 1..Seen
             /\ OneTextFile(lines, m + 1, n)
                <=> /\ OneTextFile(lines, m + 1, Seen)
                    /\ m # n => line.head \notin {"diff --git "} \cup BinaryHeads
  <2>1. m # n => m \in 1..Seen /\ n \in (m + 1)..n
    BY <1>1
  <2>2. \A k \in (m + 1)..n : k \in (m + 1)..Seen \/ (k = n /\ m # n)
    BY <1>1
  <2>3. \A k \in (m + 1)..Seen : k \in (m + 1)..n
    BY <1>1
  <2> HIDE DEF n
  <2>4. QED
    BY <2>1, <2>2, <2>3 DEF OneTextFile
<1>4. \A m \in 1..Seen : m \in 1..n
  BY <1>1
<1>5. ASSUME inHunk'
      PROVE  \E h \in 1..n : lines[h].head = "@@" /\ OneTextFile(lines, h + 1, n)
  <2>1. CASE line.head = "@@"
    <3>1. OneTextFile(lines, n + 1, n)
      <4>1. \A k \in (n + 1)..n : FALSE
        BY <1>1
      <4> HIDE DEF n
      <4>2. QED
        BY <4>1 DEF OneTextFile
    <3>2. QED
      BY <1>1, <2>1, <3>1
  <2>2. CASE line.head # "@@"
    <3>1. inHunk /\ line.head \notin {"diff --git "} \cup BinaryHeads
      BY <1>2, <1>5, <2>2
    <3>2. PICK h \in 1..Seen : lines[h].head = "@@" /\ OneTextFile(lines, h + 1, Seen)
      BY <3>1 DEF HunkKnown
    <3> HIDE DEF line, n
    <3>3. OneTextFile(lines, h + 1, n)
      BY <1>3, <1>4, <3>1, <3>2
    <3>4. QED
      BY <1>4, <3>2, <3>3
  <2>3. QED
    BY <2>1, <2>2
<1>6. ASSUME NEW d \in 1..n,
             lines[d].head = "diff --git ", OneTextFile(lines, d + 1, n)
      PROVE  /\ ~inBinaryPatch'
             /\ \A h \in (d + 1)..n : lines[h].head = "@@" => inHunk'
  <2>1. CASE d = n
    <3>1. ~inBinaryPatch'
      BY <1>2, <1>6, <2>1
    <3>2. \A h \in (d + 1)..n : FALSE
      BY <1>1, <2>1
    <3>3. QED
      BY <3>1, <3>2
  <2>2. CASE d # n
    <3>1. /\ d \in 1..Seen /\ OneTextFile(lines, d + 1, Seen)
          /\ line.head \notin {"diff --git "} \cup BinaryHeads
      BY <1>3, <1>6, <2>2
    <3>2. ~inBinaryPatch /\ \A h \in (d + 1)..Seen : lines[h].head = "@@" => inHunk
      BY <1>6, <3>1 DEF HunkKnown
    <3>3. ~inBinaryPatch'
      BY <1>2, <3>1, <3>2
    <3>4. \A h \in (d + 1)..n : h = n \/ h \in (d + 1)..Seen
      BY <1>1
    <3>5. line.head = "@@" => inHunk'
      BY <1>2, <3>2
    <3>6. inHunk => inHunk'
      BY <1>2, <3>1, <3>5
    <3>7. QED
      BY <3>2, <3>3, <3>4, <3>5, <3>6
  <2>3. QED
    BY <2>1, <2>2
<1> HIDE DEF n, line
<1>7. QED
  BY <1>1, <1>5, <1>6 DEF HunkKnown

\* Only one file is named last.
LEMMA NamedOnce ==
    ASSUME NEW lines, NEW n \in Nat, NEW one, NEW other, one # NoPath, other # NoPath,
           NamedLast(lines, n, one), NamedLast(lines, n, other)
    PROVE  one = other
<1>1. PICK m \in 1..(n - 1) :
         /\ lines[m].role = "header" /\ lines[m].path = one
         /\ lines[m].head \in {"diff --git "} \cup FileHeads
         /\ \A k \in (m + 1)..(n - 1) :
               lines[k].role = "header"
               => /\ lines[k].head # "diff --git "
                  /\ lines[k].head \in FileHeads => lines[k].path = NoPath
  BY DEF NamedLast
<1>2. PICK k \in 1..(n - 1) :
         /\ lines[k].role = "header" /\ lines[k].path = other
         /\ lines[k].head \in {"diff --git "} \cup FileHeads
         /\ \A j \in (k + 1)..(n - 1) :
               lines[j].role = "header"
               => /\ lines[j].head # "diff --git "
                  /\ lines[j].head \in FileHeads => lines[j].path = NoPath
  BY DEF NamedLast
<1>3. m = k \/ k \in (m + 1)..(n - 1) \/ m \in (k + 1)..(n - 1)
  OBVIOUS
<1>4. CASE m = k
  BY <1>1, <1>2, <1>4
<1>5. CASE k \in (m + 1)..(n - 1)
  BY <1>1, <1>2, <1>5
<1>6. CASE m \in (k + 1)..(n - 1)
  BY <1>1, <1>2, <1>6
<1>7. QED
  BY <1>3, <1>4, <1>5, <1>6

LEMMA FileStep ==
    ASSUME ScannerTyped, WrittenByGit(input.lines), FileKnown, ScanLine, UNCHANGED input
    PROVE  FileKnown'
<1> DEFINE lines == input.lines
           n == Seen + 1
           line == lines[n]
<1>1. /\ Seen \in Nat /\ Seen' = n /\ input' = input /\ Head(unread) = line
      /\ n \in 1..n /\ n \in Nat /\ (n + 1) - 1 = n /\ n - 1 = Seen
      /\ n \in DOMAIN lines
  <2>1. unread # <<>> /\ unread' = Tail(unread) /\ input' = input
    BY LineTaken
  <2>2. /\ Seen \in Nat /\ Seen' = n /\ Head(unread) = line
        /\ lines \in Seq(Lines) /\ n \in 1..Len(lines)
    BY <2>1, LineRead
  <2>3. n \in DOMAIN lines
    BY <2>2, LenProperties
  <2>4. QED
    BY <2>1, <2>2, <2>3
<1>2. /\ line.head = "diff --git " => filePath' = line.path
      /\ line.head \in FileHeads => filePath' = PathAfter(line)
      /\ line.head \notin {"diff --git "} \cup FileHeads => UNCHANGED filePath
  BY <1>1, LineTaken
<1>3. /\ line.head = "diff --git " => line.role = "header"
      /\ line.head \in FileHeads => line.role \in {"header", "content"}
  BY <1>1 DEF WrittenByGit
<1> SUFFICES ASSUME FileKept(lines, n + 1), NEW q \in 1..n,
                    lines[q].path # NoPath, NamedLast(lines, n + 1, lines[q].path)
             PROVE  filePath' = lines[q].path
  <2> HIDE DEF n
  <2>1. QED
    BY <1>1 DEF FileKnown
<1> DEFINE file == lines[q].path
<1>4. /\ ~Misleading(line)
      /\ line.head # "diff --git " => FileKept(lines, n)
  <2>1. \A m \in 1..n :
           Misleading(lines[m]) => \E d \in (m + 1)..n : lines[d].head = "diff --git "
    BY <1>1 DEF FileKept
  <2>2. ~Misleading(line)
    <3>1. \A d \in (n + 1)..n : FALSE
      BY <1>1
    <3>2. QED
      BY <1>1, <2>1, <3>1
  <2>3. ASSUME line.head # "diff --git ", NEW m \in 1..(n - 1), Misleading(lines[m])
        PROVE  \E d \in (m + 1)..(n - 1) : lines[d].head = "diff --git "
    <3>1. m \in 1..n
      BY <1>1
    <3>2. PICK d \in (m + 1)..n : lines[d].head = "diff --git "
      BY <2>1, <2>3, <3>1
    <3>3. d # n
      BY <2>3, <3>2
    <3>4. d \in (m + 1)..(n - 1)
      BY <1>1, <3>3
    <3>5. QED
      BY <3>2, <3>4
  <2>4. QED
    BY <2>2, <2>3 DEF FileKept
<1>5. PICK m \in 1..n :
         /\ lines[m].role = "header" /\ lines[m].path = file
         /\ lines[m].head \in {"diff --git "} \cup FileHeads
         /\ \A k \in (m + 1)..n :
               lines[k].role = "header"
               => /\ lines[k].head # "diff --git "
                  /\ lines[k].head \in FileHeads => lines[k].path = NoPath
  <2> HIDE DEF n
  <2>1. QED
    BY <1>1 DEF NamedLast
<1>6. CASE m = n
  BY <1>2, <1>5, <1>6 DEF PathAfter
<1>7. CASE m # n
  <2>1. m \in 1..Seen /\ n \in (m + 1)..n /\ \A k \in (m + 1)..Seen : k \in (m + 1)..n
    BY <1>1, <1>7
  <2>2. NamedLast(lines, n, file)
    <3> HIDE DEF n
    <3>1. QED
      BY <1>1, <1>5, <2>1 DEF NamedLast
  <2>3. line.role = "header" => /\ line.head # "diff --git "
                                /\ line.head \in FileHeads => line.path = NoPath
    BY <1>5, <2>1
  <2>4. line.head # "diff --git "
    BY <1>3, <2>3
  <2>5. filePath = file
    <3>1. lines[m].path = file
      BY <1>5
    <3>2. NamedLast(lines, Seen + 1, lines[m].path) /\ lines[m].path # NoPath
      BY <2>2, <3>1
    <3>3. filePath = lines[m].path
      BY <1>4, <2>1, <2>4, <3>2 DEF FileKnown
    <3>4. QED
      BY <3>1, <3>3
  <2>6. ASSUME line.head \in FileHeads PROVE line.path \in {NoPath, file}
    <3>1. CASE line.role = "header"
      BY <2>3, <2>6, <3>1
    <3>2. CASE line.role = "content"
      <4>1. line.path \in {NoPath, line.file}
        BY <1>4, <2>6, <3>2 DEF Misleading, TakenForHeader
      <4>2. NamedLast(lines, n, line.file)
        BY <1>1, <3>2 DEF WrittenByGit
      <4>3. line.file # NoPath => line.file = file
        BY <1>1, <2>2, <4>2, NamedOnce
      <4>4. QED
        BY <4>1, <4>3
    <3>3. QED
      BY <1>3, <2>6, <3>1, <3>2
  <2>7. filePath' = filePath
    BY <1>2, <2>4, <2>5, <2>6 DEF PathAfter
  <2>8. QED
    BY <2>5, <2>7
<1>8. QED
  BY <1>6, <1>7

\* A changed line is in a hunk of its file, and what is taken for one is one.
LEMMA ChangedLine ==
    ASSUME ScannerTyped, WrittenByGit(input.lines), HunkKnown, FileKnown,
           NEW n, n = Seen + 1, n \in DOMAIN input.lines
    PROVE  LET line == input.lines[n]
           IN /\ line.head \in Signs /\ inHunk => line.role = "content"
              /\ line.role = "content" /\ line.head \notin FileHeads
                 => /\ line.head \in Signs /\ inHunk /\ ~inBinaryPatch
                    /\ FileKept(input.lines, n) /\ line.file # NoPath
                       => filePath = line.file
<1> DEFINE lines == input.lines
           line == lines[n]
<1>1. Seen \in Nat /\ n \in Nat /\ n - 1 = Seen
  <2>1. lines \in Seq(Lines)
    BY InputsAssumption DEF ScannerTyped
  <2>2. Len(lines) \in Nat
    BY <2>1, LenProperties
  <2>3. Seen \in Nat
    BY <2>2 DEF ScannerTyped
  <2>4. QED
    BY <2>3
<1>2. ASSUME line.head \in Signs, inHunk PROVE line.role = "content"
  <2>1. \E h \in 1..(n - 1) : lines[h].head = "@@" /\ OneTextFile(lines, h + 1, n - 1)
    BY <1>1, <1>2 DEF HunkKnown
  <2>2. QED
    BY <1>2, <2>1 DEF WrittenByGit
<1>3. ASSUME line.role = "content", line.head \notin FileHeads
      PROVE  /\ line.head \in Signs /\ inHunk /\ ~inBinaryPatch
             /\ FileKept(lines, n) /\ line.file # NoPath => filePath = line.file
  <2>1. /\ line.head \in Signs
        /\ NamedLast(lines, n, line.file)
        /\ \E d, h \in 1..(n - 1) :
              /\ lines[d].head = "diff --git " /\ lines[h].head = "@@"
              /\ d < h /\ OneTextFile(lines, d + 1, n - 1)
    BY <1>3 DEF WrittenByGit
  <2>2. PICK d \in 1..Seen, h \in 1..Seen :
           /\ lines[d].head = "diff --git " /\ lines[h].head = "@@"
           /\ d < h /\ OneTextFile(lines, d + 1, Seen)
    BY <1>1, <2>1
  <2>3. h \in (d + 1)..Seen
    <3>1. d < h
      BY <2>2
    <3>2. QED
      BY <1>1, <3>1
  <2>4. inHunk /\ ~inBinaryPatch
    BY <2>2, <2>3 DEF HunkKnown
  <2>5. ASSUME FileKept(lines, n), line.file # NoPath PROVE filePath = line.file
    <3>1. PICK m \in 1..Seen : lines[m].path = line.file
      BY <1>1, <2>1 DEF NamedLast
    <3>2. NamedLast(lines, Seen + 1, lines[m].path) /\ lines[m].path # NoPath
      BY <2>1, <2>5, <3>1
    <3>3. QED
      BY <2>5, <3>1, <3>2 DEF FileKnown
  <2>6. QED
    BY <2>1, <2>4, <2>5
<1>4. QED
  BY <1>2, <1>3

LEMMA RangesStep ==
    ASSUME ScannerTyped, RangesApart, WrittenByGit(input.lines), HunkKnown, FileKnown,
           RangesKnown, ScanLine, UNCHANGED input
    PROVE  ScannerTyped' /\ RangesApart' /\ RangesKnown'
<1> DEFINE lines == input.lines
           n == Seen + 1
           line == lines[n]
           new == RedactableRange(offset + 1, offset', filePath)
           taken == line.head \in Signs /\ line.body # <<>> /\ inHunk /\ ~inBinaryPatch
<1>1. /\ unread # <<>> /\ unread' = Tail(unread) /\ input' = input
  BY LineTaken
<1>2. /\ lines \in Seq(Lines) /\ Len(lines) \in Nat
      /\ Seen \in Nat /\ n \in 1..Len(lines) /\ Seen' = n /\ Head(unread) = line
      /\ line \in Lines /\ n \in DOMAIN lines
      /\ unread' \in Seq(Lines) /\ Seen' \in 0..Len(input'.lines)
      /\ \A j \in DOMAIN unread' : unread'[j] = input'.lines[Seen' + j]
  <2>1. DOMAIN lines = 1..Len(lines)
    BY <1>1, LineRead, LenProperties
  <2>2. QED
    BY <1>1, <2>1, LineRead
<1>3. /\ line.head = "diff --git " => filePath' = line.path
      /\ line.head \in FileHeads => filePath' = PathAfter(line)
      /\ line.head \notin {"diff --git "} \cup FileHeads => UNCHANGED filePath
      /\ offset' = offset + LineLength(line)
      /\ ranges' = IF taken THEN Append(ranges, new) ELSE ranges
  BY <1>2, LineTaken
<1>4. /\ offset \in Nat /\ offset' \in Nat /\ offset = LineStart(lines, n)
      /\ offset' = LineStart(lines, n + 1) /\ offset <= offset'
      /\ LineLength(line) \in Nat
      /\ line.head # "" => offset + 1 <= offset'
  <2>1. /\ LineStart(lines, n) \in Nat
        /\ LineStart(lines, n + 1) = LineStart(lines, n) + LineLength(line)
    BY <1>2, LineStarts
  <2>2. offset = LineStart(lines, n)
    BY DEF RangesKnown
  <2>3. /\ LineLength(line) \in Nat
        /\ line.head # "" => LineLength(line) >= 1
    <3>1. /\ LineLength(line) \in Nat /\ Len(line.body) \in Nat
          /\ line.head # "" => LineLength(line) = 1 + Len(line.body)
      BY <1>2, LineLengths
    <3>2. PICK k \in Nat : k = Len(line.body)
      BY <3>1
    <3>3. 1 + k >= 1
      OBVIOUS
    <3>4. QED
      BY <3>1, <3>2, <3>3
  <2>4. offset' = offset + LineLength(line)
    BY <1>3
  <2> HIDE DEF n, line
  <2>5. PICK length \in Nat : length = LineLength(line)
    BY <2>3
  <2>6. offset \in Nat
    BY <2>1, <2>2
  <2>7. /\ offset + length \in Nat /\ offset <= offset + length
        /\ length >= 1 => offset + 1 <= offset + length
    BY <2>6
  <2>8. QED
    BY <2>1, <2>2, <2>3, <2>4, <2>5, <2>6, <2>7
<1>5. filePath' \in STRING \cup {NoPath} /\ filePath \in STRING \cup {NoPath}
  <2>1. line.path \in STRING \cup {NoPath} /\ filePath \in STRING \cup {NoPath}
    BY <1>2 DEF Lines, ScannerTyped
  <2>2. QED
    BY <1>3, <2>1 DEF PathAfter
<1>6. /\ ranges \in Seq(Places) /\ DOMAIN ranges = 1..Len(ranges) /\ Len(ranges) \in Nat
  BY LenProperties DEF ScannerTyped
<1>7. taken => line.head # "" /\ n \in Content(lines) /\ offset + 1 <= offset'
  <2>1. "" \notin Signs
    BY DEF Signs
  <2>2. taken => line.role = "content"
    BY <1>2, ChangedLine
  <2>3. QED
    BY <1>2, <1>4, <2>1, <2>2 DEF Content
<1>8. /\ new \in Places /\ new.start = offset + 1 /\ new.end = offset'
      /\ new.start = BodyRange(lines, n).start /\ new.end = BodyRange(lines, n).end
      /\ new.path = filePath
  <2> offset + 1 \in Nat
    <3>1. offset \in Nat
      BY <1>4
    <3>2. QED
      BY <3>1
  <2>1. new = [start |-> offset + 1, end |-> offset', path |-> filePath]
    BY DEF RedactableRange
  <2>2. /\ BodyRange(lines, n).start = LineStart(lines, n) + 1
        /\ BodyRange(lines, n).end = LineStart(lines, n) + LineLength(line)
    BY DEF BodyRange
  <2> HIDE DEF n, line, new
  <2>3. new \in Places
    BY <1>4, <1>5, <2>1 DEF Places
  <2>4. QED
    BY <1>3, <1>4, <2>1, <2>2, <2>3
<1>9. /\ ranges' \in Seq(Places)
      /\ \A i \in DOMAIN ranges : i \in DOMAIN ranges' /\ ranges'[i] = ranges[i]
      /\ \A i \in DOMAIN ranges' : i \in DOMAIN ranges \/ (taken /\ i = Len(ranges) + 1)
      /\ taken => Len(ranges) + 1 \in DOMAIN ranges' /\ ranges'[Len(ranges) + 1] = new
  <2> HIDE DEF taken, new
  <2>1. CASE taken
    <3>1. ranges' = Append(ranges, new) /\ new \in Places
      BY <1>3, <1>8, <2>1
    <3> DEFINE more == Append(ranges, new)
    <3>2. /\ more \in Seq(Places) /\ Len(more) = Len(ranges) + 1
          /\ \A i \in 1..Len(ranges) : more[i] = ranges[i]
          /\ more[Len(ranges) + 1] = new
      BY <1>6, <3>1, AppendProperties
    <3>3. DOMAIN more = 1..(Len(ranges) + 1)
      BY <3>2, LenProperties
    <3> HIDE DEF more
    <3>4. QED
      BY <1>6, <2>1, <3>1, <3>2, <3>3 DEF more
  <2>2. CASE ~taken
    BY <1>3, <1>6, <2>2
  <2>3. QED
    BY <2>1, <2>2
<1>10. \A i \in DOMAIN ranges :
          /\ ranges[i].start \in Nat /\ ranges[i].end \in Nat
          /\ ranges[i].start <= ranges[i].end /\ ranges[i].end <= offset
  BY DEF RangesApart, IsRange, RangesKnown
<1> HIDE DEF new
<1>11. ScannerTyped'
  BY <1>1, <1>2, <1>4, <1>5, <1>9 DEF ScannerTyped
<1>12. RangesApart'
  <2>1. ASSUME NEW i \in DOMAIN ranges' PROVE IsRange(ranges'[i])
    <3>1. CASE i \in DOMAIN ranges
      BY <1>9, <1>10, <3>1 DEF IsRange
    <3>2. CASE i \notin DOMAIN ranges
      <4>1. ranges'[i] = new /\ offset + 1 <= offset'
        BY <1>7, <1>9, <3>2
      <4>2. new.start \in Nat /\ new.end \in Nat /\ new.start <= new.end
        <5>1. new \in Places /\ new.start = offset + 1 /\ new.end = offset'
          BY <1>8
        <5>2. QED
          BY <4>1, <5>1 DEF Places
      <4>3. QED
        BY <4>1, <4>2 DEF IsRange
    <3>3. QED
      BY <3>1, <3>2
  <2>2. ASSUME NEW i \in DOMAIN ranges', NEW j \in DOMAIN ranges', i < j
        PROVE  ranges'[i].end <= ranges'[j].start
    <3>1. i \in DOMAIN ranges
      <4>1. i # Len(ranges) + 1
        BY <1>6, <1>9, <2>2
      <4>2. QED
        BY <1>9, <4>1
    <3>2. CASE j \in DOMAIN ranges
      BY <1>9, <2>2, <3>1, <3>2 DEF RangesApart
    <3>3. CASE j \notin DOMAIN ranges
      <4>1. ranges'[j] = new /\ ranges'[i] = ranges[i]
        BY <1>9, <3>1, <3>3
      <4>2. ranges[i].end <= offset + 1
        <5>1. ranges[i].end \in Nat /\ ranges[i].end <= offset /\ offset \in Nat
          BY <1>4, <1>10, <3>1
        <5>2. QED
          BY <5>1
      <4>3. QED
        BY <1>8, <4>1, <4>2
    <3>4. QED
      BY <3>2, <3>3
  <2>3. QED
    BY <2>1, <2>2 DEF RangesApart
<1>13. RangesKnown'
  <2> DEFINE Of(r, m) == r.start = BodyRange(lines, m).start /\ r.end = BodyRange(lines, m).end
  <2>1. ASSUME NEW i \in DOMAIN ranges'
        PROVE  ranges'[i].end <= offset' /\ \E m \in Content(lines) : Of(ranges'[i], m)
    <3>1. CASE i \in DOMAIN ranges
      <4>1. \E m \in Content(lines) : Of(ranges[i], m)
        BY <3>1 DEF RangesKnown
      <4>2. ranges[i].end <= offset'
        <5>1. /\ ranges[i].end \in Nat /\ ranges[i].end <= offset
              /\ offset \in Nat /\ offset' \in Nat /\ offset <= offset'
          BY <1>4, <1>10, <3>1
        <5>2. QED
          BY <5>1
      <4>3. QED
        BY <1>9, <3>1, <4>1, <4>2
    <3>2. CASE i \notin DOMAIN ranges
      <4>1. ranges'[i] = new /\ n \in Content(lines)
        BY <1>7, <1>9, <3>2
      <4> HIDE DEF n
      <4>2. new.end = offset' /\ offset' <= offset'
        <5>1. offset' \in Nat /\ new.end = offset'
          BY <1>4, <1>8
        <5>2. QED
          BY <5>1
      <4>3. QED
        BY <1>8, <4>1, <4>2
    <3>3. QED
      BY <3>1, <3>2
  <2>2. ASSUME NEW m \in Content(lines), m <= n, ~TakenForHeader(lines[m]),
               FileKept(lines, m), lines[m].file # NoPath
        PROVE  \E i \in DOMAIN ranges' :
                  ranges'[i] = RedactableRange(BodyRange(lines, m).start,
                                               BodyRange(lines, m).end, lines[m].file)
    <3>1. CASE m # n
      <4>1. m \in Nat /\ m <= Seen
        BY <1>2, <2>2, <3>1, LenProperties DEF Content
      <4>2. QED
        BY <1>9, <2>2, <4>1 DEF RangesKnown
    <3>2. CASE m = n
      <4>1. line.role = "content" /\ line.body # <<>> /\ ~TakenForHeader(line)
        BY <1>2, <2>2, <3>2 DEF Content
      <4>2. line.head \notin FileHeads
        BY <4>1 DEF TakenForHeader
      <4>3. /\ line.head \in Signs /\ inHunk /\ ~inBinaryPatch
            /\ filePath = line.file
        BY <1>2, <2>2, <3>2, <4>1, <4>2, ChangedLine
      <4>4. taken
        BY <4>1, <4>3
      <4>5. new = RedactableRange(BodyRange(lines, n).start, BodyRange(lines, n).end, line.file)
        BY <1>3, <1>4, <4>3 DEF BodyRange, new
      <4>6. QED
        BY <1>9, <3>2, <4>4, <4>5
    <3>3. QED
      BY <3>1, <3>2
  <2>3. offset' = LineStart(lines, Seen' + 1)
    BY <1>2, <1>4
  <2> HIDE DEF n, line, taken
  <2>4. QED
    BY <1>1, <1>2, <2>1, <2>2, <2>3 DEF RangesKnown
<1>14. QED
  BY <1>11, <1>12, <1>13

\* A plain text is one range.
LEMMA WholeTextStep ==
    ASSUME ScannerTyped, WholeText(input.source), UNCHANGED input
    PROVE  ScannerTyped' /\ RangesApart'
<1> DEFINE place == RedactableRange(0, TextLength(unread), input.source)
<1>1. /\ input \in Inputs /\ input.lines \in Seq(Lines)
      /\ input.source \in STRING \cup {NoPath}
      /\ unread \in Seq(Lines)
  BY InputsAssumption DEF ScannerTyped
<1>2. TextLength(unread) \in Nat /\ Len(input.lines) \in Nat
  BY <1>1, LineStarts, LenProperties
<1>3. place \in Places /\ place.start = 0 /\ place.end = TextLength(unread)
  BY <1>1, <1>2 DEF RedactableRange, Places
<1>4. /\ ranges' = <<place>> /\ unread' = <<>> /\ offset' = offset
      /\ filePath' = filePath /\ input' = input
  BY DEF WholeText
<1> HIDE DEF place
<1>5. ranges' \in Seq(Places) /\ DOMAIN ranges' = {1} /\ ranges'[1] = place
  BY <1>3, <1>4
<1>6. unread' \in Seq(Lines) /\ Len(unread') = 0 /\ DOMAIN unread' = {}
  BY <1>4, EmptySeq
<1>7. Seen' \in 0..Len(input'.lines)
  <2>1. Seen' = Len(input.lines)
    BY <1>2, <1>4, <1>6 DEF Seen
  <2>2. QED
    BY <1>2, <1>4, <2>1
<1>8. ScannerTyped'
  BY <1>1, <1>4, <1>5, <1>6, <1>7 DEF ScannerTyped
<1>9. RangesApart'
  BY <1>2, <1>3, <1>5 DEF RangesApart, IsRange
<1>10. QED
  BY <1>8, <1>9

LEMMA ScannerStep == ScannerIInv /\ [Next]_vars => ScannerIInv'
<1> SUFFICES ASSUME ScannerIInv, [Next]_vars PROVE ScannerIInv'
  OBVIOUS
<1>1. CASE FindRanges
  <2>1. UNCHANGED input
    BY <1>1 DEF FindRanges, detectionVars
  <2>2. CASE input.kind = "GitDiff" /\ ScanLine
    <3>1. WrittenByGit(input.lines)
      BY <2>2, InputsAssumption DEF ScannerIInv, ScannerTyped
    <3>2. ScannerTyped /\ RangesApart /\ HunkKnown /\ FileKnown /\ RangesKnown
      BY <2>2 DEF ScannerIInv
    <3>3. HunkKnown' /\ FileKnown'
      BY <2>1, <2>2, <3>1, <3>2, HunkStep, FileStep
    <3>4. ScannerTyped' /\ RangesApart' /\ RangesKnown'
      BY <2>1, <2>2, <3>1, <3>2, RangesStep
    <3>5. QED
      BY <3>3, <3>4 DEF ScannerIInv
  <2>3. CASE input.kind = "Text" /\ WholeText(input.source)
    <3>1. ScannerTyped' /\ RangesApart'
      BY <2>1, <2>3, WholeTextStep DEF ScannerIInv
    <3>2. input'.kind # "GitDiff"
      BY <2>1, <2>3
    <3>3. QED
      BY <3>1, <3>2 DEF ScannerIInv
  <2>4. QED
    BY <1>1, <2>2, <2>3 DEF FindRanges
<1>2. CASE UNCHANGED <<input, scannerVars>>
  <2>1. ScannerTyped' = ScannerTyped /\ RangesApart' = RangesApart
    BY <1>2 DEF scannerVars, ScannerTyped, RangesApart, Seen
  <2>2. HunkKnown' = HunkKnown /\ FileKnown' = FileKnown /\ RangesKnown' = RangesKnown
    BY <1>2 DEF scannerVars, HunkKnown, FileKnown, RangesKnown, Seen
  <2>3. QED
    BY <1>2, <2>1, <2>2 DEF ScannerIInv
<1>3. ASSUME ~FindRanges PROVE UNCHANGED <<input, scannerVars>>
  BY <1>3 DEF Next, vars, detectionVars, Build, NothingToSearch, DetectWithPolicy, Selection,
              WithoutModel, NothingToAsk, ModelFails, ModelAnswers, SkipCandidate,
              PlaceCandidate, MergeModel, Finish
<1>4. QED
  BY <1>1, <1>2, <1>3

\* Of a diff, as git writes it, only the content of changed lines is searched.
THEOREM OnlyContentSearched == Spec => []RangesAreContent
<1>1. ScannerIInv => RangesAreContent
  BY DEF ScannerIInv, RangesKnown, RangesAreContent
<1>2. QED
  BY <1>1, InitScanned, ScannerStep, PTL DEF Spec

--------------------------------------------------------------------------------
(***************************************************************************)
(* What is found, placed and selected                                      *)
(***************************************************************************)

Early == {"building", "scanning", "rejected"}

PhaseKnown ==
    /\ phase \in Early \cup {"selecting", "placing", "panicked", "merging", "done"}
    /\ phase \in Early => findings = <<>> /\ selected = <<>>
    /\ phase \in Early \cup {"selecting"} => placed = <<>>
    /\ phase \notin Early => unread = <<>>
    /\ phase \notin {"selecting", "merging"} => pending = <<>>

\* What the rules find, and what is placed for candidates of the model.
Found == FoundIn(ranges, policy.files)

FromModel ==
    {f \in Finding : f.source = "Llm" /\ f.kind \in {"Person", "Organization"}
                     /\ f.start < f.end}

FindingsKnown ==
    /\ findings \in Seq(Found \cup FromModel)
    /\ phase \notin {"merging", "done"} => findings \in Seq(Found)
    /\ phase \notin Early =>
          \A i \in DOMAIN ranges :
              InCustomFile(ranges[i], policy.files)
              => RuleFinding("CustomFile", 100, ranges[i]) \in Range(findings)

SelectionKnown ==
    /\ pending \in Seq(Finding) /\ selected \in Seq(Finding)
    /\ SweepOrder /\ Accounted
    /\ SelectedDisjoint

ModelKnown ==
    /\ candidates \in Seq(Candidates) /\ next \in Nat \ {0}
    /\ \A i \in DOMAIN candidates : candidates[i].value \in DOMAIN consumed
    /\ placed \in Seq(FromModel)
    /\ \A i \in DOMAIN placed : Value(text, placed[i]) \in DOMAIN consumed
    /\ \A i, j \in DOMAIN placed : i # j => ~Overlaps(placed[i], placed[j])

DetectionIInv ==
    /\ ScannerIInv
    /\ PhaseKnown
    /\ FindingsKnown
    /\ SelectionKnown
    /\ ModelKnown
    /\ CandidatesPlacedApart

LEMMA TextType ==
    ASSUME input \in Inputs
    PROVE  text \in Seq(STRING)
<1> DEFINE lines == input.lines
           seqs == [i \in DOMAIN lines |->
                       (IF lines[i].head = "" THEN <<>> ELSE <<lines[i].head>>)
                       \o lines[i].body]
           N == Len(lines)
<1>1. lines \in Seq(Lines) /\ N \in Nat /\ DOMAIN lines = 1..N
  BY InputsAssumption, LenProperties
<1>2. ASSUME NEW i \in 1..N PROVE seqs[i] \in Seq(STRING)
  <2> DEFINE head == IF lines[i].head = "" THEN <<>> ELSE <<lines[i].head>>
  <2>1. lines[i] \in Lines
    BY <1>1, ElementOfSeq
  <2>2. lines[i].head \in STRING /\ lines[i].body \in Seq(STRING)
    BY <2>1 DEF Lines
  <2>3. head \in Seq(STRING)
    <3>1. <<>> \in Seq(STRING) /\ <<lines[i].head>> \in Seq(STRING)
      BY <2>2
    <3>2. QED
      BY <3>1
  <2>4. seqs[i] = head \o lines[i].body
    BY <1>1
  <2> HIDE DEF head, seqs
  <2>5. QED
    BY <2>2, <2>3, <2>4, ConcatProperties
<1>3. seqs = [i \in 1..N |-> seqs[i]]
  BY <1>1
<1>4. text = FlattenSeq(seqs)
  BY DEF text
<1> HIDE DEF seqs, N
<1>5. QED
  BY <1>1, <1>2, <1>3, <1>4, FlattenTyped

\* What the rules find is what a rule found.
LEMMA FoundIsFinding ==
    /\ \A f \in Found : f \in Finding /\ f.source = "Rule"
    /\ \A f \in FromModel : f \in Finding /\ f.source = "Llm"
  BY DEF Found, FoundIn, RuleFound, FromModel

LEMMA InitDetection == Init => DetectionIInv
<1> SUFFICES ASSUME Init PROVE DetectionIInv
  OBVIOUS
<1>1. /\ phase = "building" /\ findings = <<>> /\ candidates = <<>> /\ next = 1
      /\ consumed = <<>> /\ placed = <<>> /\ pending = <<>> /\ selected = <<>>
  BY DEF Init
<1>2. DOMAIN findings = {} /\ DOMAIN candidates = {} /\ DOMAIN placed = {} /\ DOMAIN pending = {} /\ DOMAIN selected = {}
  BY <1>1
<1>3. \A S : <<>> \in Seq(S)
  BY EmptySeq
<1>4. PhaseKnown /\ FindingsKnown /\ CandidatesPlacedApart
  BY <1>1, <1>3 DEF PhaseKnown, FindingsKnown, Early, CandidatesPlacedApart
<1>5. ModelKnown
  BY <1>1, <1>2, <1>3 DEF ModelKnown
<1>6. SelectionKnown
  BY <1>1, <1>2, <1>3 DEF SelectionKnown, SweepOrder, Accounted, SelectedDisjoint, Range
<1>7. QED
  BY <1>4, <1>5, <1>6, InitScanned DEF DetectionIInv

\* A step that leaves findings, selection and the model's candidates as they are.
LEMMA KeptStep ==
    ASSUME DetectionIInv, ScannerIInv', PhaseKnown',
           UNCHANGED <<input, ranges, findings, candidates, consumed, placed, selectionVars>>,
           next' \in Nat \ {0},
           phase' \in {"merging"} => phase \in {"merging"},
           phase' \notin {"merging", "done"} => phase \notin {"merging", "done"},
           phase' \notin Early => phase \notin Early \/ ranges = <<>>
    PROVE  DetectionIInv'
<1>1. SelectionKnown'
  <2>1. SelectionKnown' = SelectionKnown
    BY DEF SelectionKnown, SweepOrder, Accounted, SelectedDisjoint, selectionVars
  <2>2. QED
    BY <2>1 DEF DetectionIInv
<1>2. ModelKnown'
  BY DEF ModelKnown, DetectionIInv, text
<1>3. FindingsKnown'
  <2>1. ranges = <<>> => DOMAIN ranges = {}
    OBVIOUS
  <2>2. Found' = Found /\ policy' = policy
    BY DEF Found, policy
  <2>3. QED
    BY <2>1, <2>2 DEF FindingsKnown, DetectionIInv
<1>4. CandidatesPlacedApart'
  <2>1. CASE phase \in {"merging", "done"}
    BY <2>1 DEF CandidatesPlacedApart, DetectionIInv, text
  <2>2. CASE phase \notin {"merging", "done"}
    <3>1. findings \in Seq(Found)
      BY <2>2 DEF DetectionIInv, FindingsKnown
    <3>2. \A i \in DOMAIN findings : findings[i].source = "Rule"
      BY <3>1, FoundIsFinding, ElementOfSeq
    <3>3. {i \in DOMAIN findings : findings[i].source = "Llm"} = {}
      BY <3>2
    <3>4. QED
      BY <3>3 DEF CandidatesPlacedApart
  <2>3. QED
    BY <2>1, <2>2
<1>5. QED
  BY <1>1, <1>2, <1>3, <1>4 DEF DetectionIInv

\* The rules find in the ranges, and every range of a named file as a whole.
LEMMA DetectStep ==
    ASSUME DetectionIInv, DetectWithPolicy, ScannerIInv'
    PROVE  DetectionIInv'
<1> DEFINE files == policy.files
<1>1. /\ phase = "scanning" /\ phase' = "selecting" /\ unread = <<>> /\ unread' = unread
      /\ findings' = Detected(text, input.found, policy, ranges)
      /\ StartSelection(findings')
      /\ UNCHANGED <<input, ranges, candidates, next, consumed, placed>>
  BY DEF DetectWithPolicy, scannerVars
<1>2. /\ input \in Inputs /\ ranges \in Seq(Places)
      /\ \A i \in DOMAIN ranges : IsRange(ranges[i])
  BY DEF DetectionIInv, ScannerIInv, ScannerTyped, RangesApart
<1>3. FoundWith(input.found) /\ policy \in Policies
  BY <1>2, InputsAssumption DEF FoundWith, policy
<1>4. /\ findings' \in Seq(Found)
      /\ \A i \in DOMAIN ranges :
            InCustomFile(ranges[i], files)
            => RuleFinding("CustomFile", 100, ranges[i]) \in Range(findings')
  <2> DEFINE D == Detected(text, input.found, policy, ranges)
  <2>1. /\ D \in Seq(FoundIn(ranges, files))
        /\ \A i \in DOMAIN ranges :
              InCustomFile(ranges[i], files)
              => RuleFinding("CustomFile", 100, ranges[i]) \in Range(D)
    BY <1>2, <1>3, DetectedFound
  <2>2. findings' = D /\ Range(D) = Range(findings')
    BY <1>1
  <2> HIDE DEF D
  <2>3. QED
    BY <2>1, <2>2 DEF Found
<1>5. Found' = Found /\ policy' = policy
  BY <1>1 DEF Found, policy
<1>6. findings' \in Seq(Finding) /\ findings' \in Seq(Found \cup FromModel)
  BY <1>4, FoundIsFinding, SeqMonotonic
<1>7. FindingsKnown'
  BY <1>1, <1>4, <1>5, <1>6 DEF FindingsKnown
<1>8. SelectionKnown'
  <2>1. /\ pending' \in Seq(Finding) /\ selected' \in Seq(Finding)
        /\ SweepOrder' /\ Accounted'
    BY <1>1, <1>6, SelectionStarts
  <2>2. selected' = <<>>
    BY <1>1 DEF StartSelection
  <2>3. SelectedDisjoint'
    BY <2>2 DEF SelectedDisjoint
  <2>4. QED
    BY <2>1, <2>3 DEF SelectionKnown
<1>9. ModelKnown'
  BY <1>1 DEF ModelKnown, DetectionIInv, text
<1>10. placed = <<>>
  BY <1>1 DEF DetectionIInv, PhaseKnown, Early
<1>11. PhaseKnown'
  BY <1>1, <1>10 DEF PhaseKnown, Early
<1>12. CandidatesPlacedApart'
  BY <1>1 DEF CandidatesPlacedApart
<1>13. QED
  BY <1>7, <1>8, <1>9, <1>11, <1>12 DEF DetectionIInv

\* A step of a selection.
LEMMA SelectionStep ==
    ASSUME DetectionIInv, Selection, ScannerIInv'
    PROVE  DetectionIInv'
<1>1. /\ phase \in {"selecting", "merging"} /\ Sweep
      /\ UNCHANGED <<phase, input, findings, candidates, next, consumed, placed, ranges, unread>>
  BY DEF Selection, detectionVars, scannerVars
<1>2. SelectionKnown
  BY DEF DetectionIInv
<1>3. /\ pending' \in Seq(Finding) /\ selected' \in Seq(Finding)
      /\ SweepOrder' /\ Accounted'
  BY <1>1, <1>2, SweepAccounts DEF SelectionKnown
<1>4. SweepIInv
  <2>1. /\ \A i \in DOMAIN pending : pending[i] \in Finding
        /\ \A i \in DOMAIN selected : selected[i] \in Finding
    BY <1>2, ElementOfSeq DEF SelectionKnown
  <2>2. \A i, j \in DOMAIN pending : i < j => pending[i].start <= pending[j].start
    BY <1>2, <2>1, BeforeOrders DEF SelectionKnown, SweepOrder
  <2>3. \A i \in DOMAIN selected, j \in DOMAIN pending : selected[i].start <= pending[j].start
    BY <1>2, <2>1, BeforeOrders DEF SelectionKnown, SweepOrder
  <2>4. QED
    BY <1>2, <2>2, <2>3 DEF SelectionKnown, SweepIInv
<1>5. SelectedDisjoint'
  <2>1. SweepIInv'
    BY <1>1, <1>4, SweepStep
  <2>2. QED
    BY <2>1 DEF SweepIInv
<1>6. SelectionKnown'
  BY <1>3, <1>5 DEF SelectionKnown
<1>7. FindingsKnown' /\ ModelKnown' /\ CandidatesPlacedApart'
  <2>1. Found' = Found /\ policy' = policy /\ text' = text
    BY <1>1 DEF Found, policy, text
  <2>2. QED
    BY <1>1, <2>1 DEF DetectionIInv, FindingsKnown, ModelKnown, CandidatesPlacedApart
<1>8. PhaseKnown'
  BY <1>1 DEF DetectionIInv, PhaseKnown, Early
<1>9. QED
  BY <1>6, <1>7, <1>8 DEF DetectionIInv

\* An answer of the model: nothing is placed for its candidates yet.
LEMMA AnswersStep ==
    ASSUME DetectionIInv, ModelAnswers, ScannerIInv'
    PROVE  DetectionIInv'
<1>1. PICK answer \in input.answers :
         /\ candidates' = answer
         /\ consumed' = [v \in {answer[i].value : i \in DOMAIN answer} |-> 0]
  BY DEF ModelAnswers
<1>2. /\ phase = "selecting" /\ phase' \in {"panicked", "placing"} /\ pending = <<>>
      /\ UNCHANGED <<input, findings, next, placed, ranges, unread, pending, selected>>
  BY DEF ModelAnswers, scannerVars, selectionVars
<1>3. placed = <<>> /\ unread = <<>>
  BY <1>2 DEF DetectionIInv, PhaseKnown, Early
<1>4. answer \in Seq(Candidates)
  BY InputsAssumption DEF DetectionIInv, ScannerIInv, ScannerTyped
<1>5. PhaseKnown'
  BY <1>2, <1>3 DEF PhaseKnown, Early
<1>6. ModelKnown'
  <2>1. DOMAIN placed' = {} /\ placed' \in Seq(FromModel)
    BY <1>2, <1>3, EmptySeq
  <2>2. next' \in Nat \ {0}
    BY <1>2 DEF DetectionIInv, ModelKnown
  <2>3. \A i \in DOMAIN candidates' : candidates'[i].value \in DOMAIN consumed'
    BY <1>1
  <2>4. QED
    BY <1>1, <1>4, <2>1, <2>2, <2>3 DEF ModelKnown
<1>7. SelectionKnown'
  <2>1. SelectionKnown' = SelectionKnown
    BY <1>2 DEF SelectionKnown, SweepOrder, Accounted, SelectedDisjoint
  <2>2. QED
    BY <2>1 DEF DetectionIInv
<1>8. FindingsKnown'
  <2>1. Found' = Found /\ policy' = policy
    BY <1>2 DEF Found, policy
  <2>2. QED
    BY <1>2, <2>1 DEF DetectionIInv, FindingsKnown, Early
<1>9. CandidatesPlacedApart'
  BY <1>2 DEF CandidatesPlacedApart
<1>10. QED
  BY <1>5, <1>6, <1>7, <1>8, <1>9 DEF DetectionIInv

\* The position for a candidate is one of its value where nothing is placed.
LEMMA PlacedFree ==
    ASSUME NEW body \in Seq(STRING), NEW value \in Seq(STRING), NEW count, NEW occupied,
           NEW at, at = NextUnoccupied(Occurrences(body, value), count, Len(value), occupied),
           at # Unplaced
    PROVE  /\ at \in Nat /\ Prefixed(body, value, at)
           /\ \A used \in occupied : Disjoint(at, at + Len(value), used)
<1> DEFINE positions == Occurrences(body, value)
           free == FreePositions(positions, count, Len(value), occupied)
<1>1. free \subseteq positions /\ positions \subseteq Nat
  <2>1. Len(body) \in Nat
    BY LenProperties
  <2>2. QED
    BY <2>1 DEF FreePositions, Occurrences
<1>2. free # {} /\ at = (CHOOSE p \in free : \A q \in free : p <= q)
  BY DEF NextUnoccupied
<1> HIDE DEF free, positions
<1>3. \E p \in free : \A q \in free : p <= q
  BY <1>1, <1>2, LeastElement
<1>4. at \in free
  BY <1>2, <1>3
<1>5. QED
  BY <1>1, <1>4 DEF free, positions, FreePositions, Occurrences

\* A candidate is placed apart from all others, on its value, or nowhere.
LEMMA PlaceStep ==
    ASSUME DetectionIInv, PlaceCandidate, ScannerIInv'
    PROVE  DetectionIInv'
<1> DEFINE candidate == candidates[next]
           value == candidate.value
           length == Len(value)
           positions == Occurrences(text, value)
           at == NextUnoccupied(positions, consumed[value], length, Range(placed))
           new == [kind |-> candidate.kind, source |-> "Llm",
                   confidence |-> Confidence(candidate.confidence),
                   start |-> at, end |-> at + length]
<1>1. /\ phase = "placing" /\ next <= Len(candidates) /\ Placeable(candidate)
      /\ consumed' = [consumed EXCEPT ![value] = ConsumedAfter(positions, at)]
      /\ placed' = IF at = Unplaced THEN placed ELSE Append(placed, new)
      /\ next' = next + 1
      /\ UNCHANGED <<phase, input, findings, candidates, ranges, unread, pending, selected>>
  BY DEF PlaceCandidate, scannerVars, selectionVars
<1>2. ModelKnown
  BY DEF DetectionIInv
<1>3. next \in DOMAIN candidates /\ candidate \in Candidates /\ next + 1 \in Nat \ {0}
  <2>1. candidates \in Seq(Candidates) /\ next \in Nat \ {0}
    BY <1>2 DEF ModelKnown
  <2>2. next \in 1..Len(candidates)
    BY <1>1, <2>1, LenProperties
  <2>3. QED
    BY <2>1, <2>2, LenProperties, ElementOfSeq
<1>4. /\ candidate.kind \in {"Person", "Organization"} /\ value # <<>>
      /\ value \in Seq(STRING) /\ candidate.confidence \in Nat \cup {Unstated}
  BY <1>1, <1>3 DEF Placeable, AllowedKinds, Candidates
<1>5. length \in Nat \ {0}
  BY <1>4, EmptySeq, LenProperties
<1>6. text \in Seq(STRING) /\ text' = text
  BY <1>1, TextType DEF DetectionIInv, ScannerIInv, ScannerTyped, text
<1>7. Confidence(candidate.confidence) \in 0..100
  <2>1. CASE candidate.confidence = Unstated
    BY <2>1 DEF Confidence
  <2>2. CASE candidate.confidence # Unstated
    <3>1. candidate.confidence \in Nat
      BY <1>4, <2>2
    <3>2. candidate.confidence > 100 \/ candidate.confidence \in 0..100
      BY <3>1
    <3>3. CASE candidate.confidence > 100
      BY <2>2, <3>3 DEF Confidence
    <3>4. CASE ~(candidate.confidence > 100)
      BY <2>2, <3>2, <3>4 DEF Confidence
    <3>5. QED
      BY <3>3, <3>4
  <2>3. QED
    BY <2>1, <2>2
<1>8. DOMAIN consumed' = DOMAIN consumed /\ value \in DOMAIN consumed
  BY <1>1, <1>2, <1>3 DEF ModelKnown
<1>9. placed \in Seq(FromModel) /\ DOMAIN placed = 1..Len(placed) /\ Len(placed) \in Nat
  BY <1>2, LenProperties DEF ModelKnown
<1>10. ASSUME at # Unplaced
       PROVE  /\ new \in FromModel /\ Value(text, new) = value
              /\ \A i \in DOMAIN placed :
                    ~Overlaps(placed[i], new) /\ ~Overlaps(new, placed[i])
  <2> DEFINE p == at
  <2>1. /\ at \in Nat /\ Prefixed(text, value, at)
        /\ \A used \in Range(placed) : Disjoint(at, at + length, used)
    BY <1>4, <1>6, <1>10, PlacedFree
  <2> HIDE DEF at, length
  <2>2. /\ at + length \in Nat /\ at < at + length
    BY <1>5, <2>1
  <2>3. /\ new.kind = candidate.kind /\ new.source = "Llm"
        /\ new.start = at /\ new.end = at + length
    OBVIOUS
  <2>4. new \in Finding
    <3>1. candidate.kind \in FindingKind /\ "Llm" \in FindingSource
      BY <1>4 DEF FindingKind, FindingSource
    <3> HIDE DEF candidate
    <3>2. QED
      BY <1>7, <2>1, <2>2, <3>1 DEF Finding
  <2> HIDE DEF new
  <2>5. new \in FromModel
    BY <1>4, <2>2, <2>3, <2>4 DEF FromModel
  <2>6. Value(text, new) = value
    BY <2>1, <2>3 DEF Value, Prefixed, length
  <2>7. ASSUME NEW i \in DOMAIN placed
        PROVE  ~Overlaps(placed[i], new) /\ ~Overlaps(new, placed[i])
    <3>1. placed[i] \in Finding /\ placed[i] \in Range(placed)
      BY <1>9, ElementOfSeq DEF FromModel, Range
    <3>2. placed[i].start \in Nat /\ placed[i].end \in Nat
      BY <3>1, FindingNumbers
    <3>3. Disjoint(at, at + length, placed[i])
      BY <2>1, <3>1
    <3>4. QED
      BY <2>1, <2>2, <2>3, <3>2, <3>3 DEF Disjoint, Overlaps
  <2>8. QED
    BY <2>5, <2>6, <2>7
<1> HIDE DEF new, at, positions, length
<1>11. /\ placed' \in Seq(FromModel)
       /\ \A i \in DOMAIN placed' : \/ i \in DOMAIN placed /\ placed'[i] = placed[i]
                                    \/ i = Len(placed) + 1 /\ placed'[i] = new /\ at # Unplaced
  <2>1. CASE at = Unplaced
    BY <1>1, <1>9, <2>1
  <2>2. CASE at # Unplaced
    <3> DEFINE more == Append(placed, new)
    <3>1. /\ more \in Seq(FromModel) /\ Len(more) = Len(placed) + 1
          /\ \A i \in 1..Len(placed) : more[i] = placed[i]
          /\ more[Len(placed) + 1] = new
      BY <1>9, <1>10, <2>2, AppendProperties
    <3>2. DOMAIN more = 1..(Len(placed) + 1) /\ placed' = more
      BY <1>1, <2>2, <3>1, LenProperties
    <3> HIDE DEF more
    <3>3. QED
      BY <1>9, <2>2, <3>1, <3>2
  <2>3. QED
    BY <2>1, <2>2
<1>12. ModelKnown'
  <2>1. \A i \in DOMAIN placed' : Value(text, placed'[i]) \in DOMAIN consumed
    BY <1>2, <1>8, <1>10, <1>11 DEF ModelKnown
  <2>2. \A i, j \in DOMAIN placed' : i # j => ~Overlaps(placed'[i], placed'[j])
    BY <1>2, <1>10, <1>11 DEF ModelKnown
  <2>3. \A i \in DOMAIN candidates : candidates[i].value \in DOMAIN consumed
    BY <1>2 DEF ModelKnown
  <2>4. candidates \in Seq(Candidates)
    BY <1>2 DEF ModelKnown
  <2>5. QED
    BY <1>1, <1>3, <1>6, <1>8, <1>11, <2>1, <2>2, <2>3, <2>4 DEF ModelKnown
<1>13. PhaseKnown'
  BY <1>1 DEF DetectionIInv, PhaseKnown, Early
<1>14. SelectionKnown'
  <2>1. SelectionKnown' = SelectionKnown
    BY <1>1 DEF SelectionKnown, SweepOrder, Accounted, SelectedDisjoint
  <2>2. QED
    BY <2>1 DEF DetectionIInv
<1>15. FindingsKnown'
  <2>1. Found' = Found /\ policy' = policy
    BY <1>1 DEF Found, policy
  <2>2. QED
    BY <1>1, <2>1 DEF DetectionIInv, FindingsKnown
<1>16. CandidatesPlacedApart'
  BY <1>1 DEF CandidatesPlacedApart
<1>17. QED
  BY <1>12, <1>13, <1>14, <1>15, <1>16 DEF DetectionIInv

\* What is accepted from the model: findings placed for it, each in a range, in the
\* order they were placed, no two of them on the same text.
LEMMA AcceptedApart ==
    ASSUME ModelKnown
    PROVE  /\ AcceptedFromModel \in Seq(FromModel)
           /\ \A p \in DOMAIN AcceptedFromModel :
                 /\ InSomeRange(AcceptedFromModel[p], ranges)
                 /\ Value(text, AcceptedFromModel[p]) \in DOMAIN consumed
           /\ \A p, q \in DOMAIN AcceptedFromModel :
                 p # q => ~Overlaps(AcceptedFromModel[p], AcceptedFromModel[q])
<1> DEFINE N == Len(placed)
           seqs == [i \in DOMAIN placed |->
                       IF InSomeRange(placed[i], ranges) THEN <<placed[i]>> ELSE <<>>]
           A == AcceptedFromModel
<1>1. placed \in Seq(FromModel) /\ N \in Nat /\ DOMAIN placed = 1..N
  BY LenProperties DEF ModelKnown
<1>2. \A i \in 1..N : placed[i] \in FromModel
  BY <1>1, ElementOfSeq
<1>3. \A i \in 1..N : seqs[i] \in Seq(FromModel)
  <2> SUFFICES ASSUME NEW i \in 1..N PROVE seqs[i] \in Seq(FromModel)
    OBVIOUS
  <2>1. <<>> \in Seq(FromModel) /\ <<placed[i]>> \in Seq(FromModel)
    BY <1>2
  <2>2. QED
    BY <1>1, <2>1
<1>4. ASSUME NEW i \in 1..N, NEW a \in DOMAIN seqs[i]
      PROVE  a = 1 /\ seqs[i][a] = placed[i] /\ InSomeRange(placed[i], ranges)
  <2>1. CASE InSomeRange(placed[i], ranges)
    <3>1. seqs[i] = <<placed[i]>>
      BY <1>1, <2>1
    <3> HIDE DEF seqs
    <3>2. QED
      BY <2>1, <3>1
  <2>2. CASE ~InSomeRange(placed[i], ranges)
    <3>1. seqs[i] = <<>>
      BY <1>1, <2>2
    <3> HIDE DEF seqs
    <3>2. QED
      BY <3>1
  <2>3. QED
    BY <2>1, <2>2
<1>5. A = FlattenSeq(seqs) /\ seqs = [i \in 1..N |-> seqs[i]]
  BY <1>1 DEF AcceptedFromModel
<1> HIDE DEF seqs, A, N
<1>6. A \in Seq(FromModel) /\ Joins(A, seqs, N)
  BY <1>1, <1>3, <1>5, FlattenTyped
<1>7. ASSUME NEW p \in DOMAIN A
      PROVE  InSomeRange(A[p], ranges) /\ Value(text, A[p]) \in DOMAIN consumed
  <2>1. PICK i \in 1..N : \E a \in DOMAIN seqs[i] : A[p] = seqs[i][a]
    BY <1>6 DEF Joins
  <2>2. A[p] = placed[i] /\ InSomeRange(placed[i], ranges)
    BY <1>4, <2>1
  <2>3. QED
    BY <1>1, <2>2 DEF ModelKnown
<1>8. ASSUME NEW p \in DOMAIN A, NEW q \in DOMAIN A, p < q
      PROVE  ~Overlaps(A[p], A[q]) /\ ~Overlaps(A[q], A[p])
  <2>1. PICK i \in 1..N, j \in 1..N :
           \E a \in DOMAIN seqs[i], b \in DOMAIN seqs[j] :
              /\ A[p] = seqs[i][a] /\ A[q] = seqs[j][b]
              /\ i < j \/ (i = j /\ a < b)
    BY <1>6, <1>8 DEF Joins
  <2>2. A[p] = placed[i] /\ A[q] = placed[j] /\ i < j
    BY <1>4, <2>1
  <2>3. i # j
    BY <1>1, <2>2
  <2>4. QED
    BY <1>1, <2>2, <2>3 DEF ModelKnown
<1>9. \A p, q \in DOMAIN A : p # q => p < q \/ q < p
  <2>1. DOMAIN A = 1..Len(A) /\ Len(A) \in Nat
    BY <1>6, LenProperties
  <2>2. QED
    BY <2>1
<1>10. QED
  BY <1>6, <1>7, <1>8, <1>9 DEF A

\* Findings of files that the policy names are preferred to all of the model.
LEMMA NamedFileWithstands ==
    ASSUME NEW i \in DOMAIN ranges, NEW g \in FromModel, IsRange(ranges[i])
    PROVE  LET f == RuleFinding("CustomFile", 100, ranges[i])
           IN ~Overridden(f, g)
<1> DEFINE f == RuleFinding("CustomFile", 100, ranges[i])
<1>1. /\ f.kind = "CustomFile" /\ f.source = "Rule" /\ f.confidence = 100
      /\ g.kind \in {"Person", "Organization"} /\ g.source = "Llm"
      /\ g.confidence \in 0..100 /\ g \in Finding
  BY DEF RuleFinding, FromModel, Finding
<1> HIDE DEF f
<1>2. Score(f) = 209
  BY <1>1 DEF Score, Priority, Bonus
<1>3. Score(g) \in 0..150
  <2>1. Priority[g.kind] \in {45, 50} /\ Bonus[g.source] = 0
    BY <1>1 DEF Priority, Bonus
  <2>2. QED
    BY <1>1, <2>1 DEF Score
<1>4. ContainmentPriority[f.kind] = 99 /\ ContainmentPriority[g.kind] \in {45, 50}
  BY <1>1 DEF ContainmentPriority
<1>5. ~PreferRight(f, g)
  BY <1>2, <1>3, <1>4 DEF PreferRight
<1>6. PreferRight(g, f)
  BY <1>2, <1>3, <1>4 DEF PreferRight
<1>7. QED
  BY <1>5, <1>6 DEF Overridden, f

\* Nothing else that a rule finds overlaps the finding of a named file: its range is
\* searched no further, and the ranges are apart.
LEMMA NamedFileAlone ==
    ASSUME RangesApart, NEW i \in DOMAIN ranges, InCustomFile(ranges[i], policy.files),
           NEW g \in Found, ranges \in Seq(Places),
           g # RuleFinding("CustomFile", 100, ranges[i])
    PROVE  ~Overlaps(RuleFinding("CustomFile", 100, ranges[i]), g)
<1> DEFINE f == RuleFinding("CustomFile", 100, ranges[i])
<1>1. PICK j \in DOMAIN ranges :
         /\ g \in RuleFound(ranges[j].start, ranges[j].end)
         /\ InCustomFile(ranges[j], policy.files)
            => g = RuleFinding("CustomFile", 100, ranges[j])
  BY DEF Found, FoundIn
<1>2. i # j
  BY <1>1
<1>3. i \in Nat /\ j \in Nat
  <2>1. DOMAIN ranges = 1..Len(ranges) /\ Len(ranges) \in Nat
    BY LenProperties
  <2>2. QED
    BY <2>1
<1>4. /\ ranges[i].start \in Nat /\ ranges[i].end \in Nat
      /\ ranges[j].start \in Nat /\ ranges[j].end \in Nat
      /\ i < j => ranges[i].end <= ranges[j].start
      /\ j < i => ranges[j].end <= ranges[i].start
  BY DEF RangesApart, IsRange
<1>5. /\ g.start \in Nat /\ g.end \in Nat
      /\ ranges[j].start <= g.start /\ g.end <= ranges[j].end
  BY <1>1 DEF RuleFound, Finding
<1>6. f.start = ranges[i].start /\ f.end = ranges[i].end
  BY DEF RuleFinding
<1> HIDE DEF f
<1>7. i < j \/ j < i
  BY <1>2, <1>3
<1>8. CASE i < j
  <2>1. ~(g.start < f.end)
    BY <1>4, <1>5, <1>6, <1>8
  <2>2. QED
    BY <2>1 DEF Overlaps, f
<1>9. CASE j < i
  <2>1. ~(f.start < g.end)
    BY <1>4, <1>5, <1>6, <1>9
  <2>2. QED
    BY <2>1 DEF Overlaps, f
<1>10. QED
  BY <1>7, <1>8, <1>9

\* What the first selection has left, and what is accepted from the model, go into
\* the second: the ranges of named files among them.
LEMMA MergeStep ==
    ASSUME DetectionIInv, MergeModel, ScannerIInv'
    PROVE  DetectionIInv'
<1> DEFINE A == AcceptedFromModel
           N == Len(selected)
<1>1. /\ phase = "placing" /\ phase' = "merging" /\ unread' = unread
      /\ findings' = selected \o A
      /\ StartSelection(findings')
      /\ UNCHANGED <<input, ranges, candidates, next, consumed, placed>>
  BY DEF MergeModel, scannerVars
<1>2. /\ pending = <<>> /\ unread = <<>> /\ findings \in Seq(Found)
      /\ SelectionKnown /\ ModelKnown
      /\ \A i \in DOMAIN ranges :
            InCustomFile(ranges[i], policy.files)
            => RuleFinding("CustomFile", 100, ranges[i]) \in Range(findings)
  BY <1>1 DEF DetectionIInv, PhaseKnown, FindingsKnown, Early
<1>3. Range(selected) \subseteq Range(findings) /\ Range(findings) \subseteq Found
  <2>1. Range(selected) \subseteq Range(findings)
    BY <1>2 DEF SelectionKnown, Accounted
  <2>2. \A i \in DOMAIN findings : findings[i] \in Found
    BY <1>2, ElementOfSeq
  <2>3. QED
    BY <2>1, <2>2 DEF Range
<1>4. /\ selected \in Seq(Finding) /\ N \in Nat /\ DOMAIN selected = 1..N
  BY <1>2, LenProperties DEF SelectionKnown
<1>5. selected \in Seq(Found)
  <2>1. \A i \in 1..N : selected[i] \in Found
    BY <1>3, <1>4 DEF Range
  <2>2. selected = [i \in 1..N |-> selected[i]]
    BY <1>4
  <2> HIDE DEF N
  <2>3. [i \in 1..N |-> selected[i]] \in Seq(Found)
    BY <1>4, <2>1, IsASeq
  <2>4. QED
    BY <2>2, <2>3
<1>6. /\ A \in Seq(FromModel)
      /\ \A p \in DOMAIN A : /\ InSomeRange(A[p], ranges)
                             /\ Value(text, A[p]) \in DOMAIN consumed
      /\ \A p, q \in DOMAIN A : p # q => ~Overlaps(A[p], A[q])
      /\ Len(A) \in Nat /\ DOMAIN A = 1..Len(A)
  BY <1>2, AcceptedApart, LenProperties
<1> DEFINE both == selected \o A
           S == Found \cup FromModel
<1> HIDE DEF A, N
<1>7. /\ both \in Seq(S) /\ DOMAIN both = 1..(N + Len(A))
      /\ \A i \in 1..N : both[i] = selected[i]
      /\ \A i \in 1..(N + Len(A)) :
            i \in 1..N \/ (i - N \in DOMAIN A /\ both[i] = A[i - N])
  <2>1. selected \in Seq(S) /\ A \in Seq(S)
    BY <1>5, <1>6, SeqMonotonic
  <2> HIDE DEF S
  <2>2. /\ both \in Seq(S) /\ Len(both) = N + Len(A)
        /\ \A i \in 1..(N + Len(A)) :
              both[i] = IF i <= N THEN selected[i] ELSE A[i - N]
    BY <2>1, ConcatProperties DEF N
  <2>3. DOMAIN both = 1..(N + Len(A))
    BY <2>2, LenProperties
  <2> HIDE DEF both
  <2>4. \A i \in 1..N : i \in 1..(N + Len(A)) /\ i <= N
    BY <1>4, <1>6
  <2>5. \A i \in 1..(N + Len(A)) : i \in 1..N \/ (i - N \in DOMAIN A /\ ~(i <= N))
    BY <1>4, <1>6
  <2>6. QED
    BY <2>2, <2>3, <2>4, <2>5
<1> HIDE DEF both
<1>8. findings' = both
  BY <1>1 DEF both, A
<1>9. findings' \in Seq(Finding)
  BY <1>7, <1>8, FoundIsFinding, SeqMonotonic
<1>10. Found' = Found /\ policy' = policy /\ text' = text
  BY <1>1 DEF Found, policy, text
<1>11. ASSUME NEW i \in DOMAIN ranges, InCustomFile(ranges[i], policy.files)
       PROVE  RuleFinding("CustomFile", 100, ranges[i]) \in Range(findings')
  <2> DEFINE f == RuleFinding("CustomFile", 100, ranges[i])
  <2>1. f \in Range(findings)
    BY <1>2, <1>11
  <2>2. RangesApart /\ ranges \in Seq(Places)
    BY DEF DetectionIInv, ScannerIInv, ScannerTyped
  <2>3. f \in Found
    BY <1>3, <2>1
  <2>4. ASSUME NEW g \in Range(findings) \ {f} PROVE ~Overlaps(f, g)
    <3>1. g \in Found /\ g # f
      BY <1>3, <2>4
    <3>2. QED
      BY <2>2, <3>1, <1>11, NamedFileAlone
  <2>5. f \in Range(selected)
    <3>1. Range(pending) = {}
      BY <1>2 DEF Range
    <3> HIDE DEF f
    <3>2. QED
      BY <1>2, <2>1, <2>4, <3>1 DEF SelectionKnown, Accounted
  <2>6. PICK k \in 1..N : selected[k] = f
    BY <1>4, <2>5 DEF Range
  <2>7. k \in DOMAIN both /\ both[k] = f
    BY <1>4, <1>6, <1>7, <2>6
  <2>8. QED
    BY <1>8, <2>7 DEF Range
<1>12. FindingsKnown'
  BY <1>1, <1>7, <1>8, <1>10, <1>11 DEF FindingsKnown
<1>13. SelectionKnown'
  <2>1. /\ pending' \in Seq(Finding) /\ selected' \in Seq(Finding)
        /\ SweepOrder' /\ Accounted'
    BY <1>1, <1>9, SelectionStarts
  <2>2. selected' = <<>>
    BY <1>1 DEF StartSelection
  <2>3. SelectedDisjoint'
    BY <2>2 DEF SelectedDisjoint
  <2>4. QED
    BY <2>1, <2>3 DEF SelectionKnown
<1>14. ModelKnown'
  BY <1>1, <1>2, <1>10 DEF ModelKnown
<1>15. PhaseKnown'
  BY <1>1, <1>2 DEF PhaseKnown, Early
<1>16. CandidatesPlacedApart'
  <2> DEFINE ofModel == {i \in DOMAIN both : both[i].source = "Llm"}
  <2>1. ASSUME NEW i \in ofModel PROVE i - N \in DOMAIN A /\ both[i] = A[i - N] /\ i \in Nat
    <3>1. i \notin 1..N
      <4>1. \A k \in 1..N : selected[k].source = "Rule"
        BY <1>4, <1>5, FoundIsFinding, ElementOfSeq
      <4>2. QED
        BY <1>7, <4>1
    <3>2. i \in 1..(N + Len(A))
      BY <1>7
    <3>3. i \in Nat
      BY <1>4, <1>6, <3>2
    <3>4. QED
      BY <1>7, <3>1, <3>2, <3>3
  <2>2. \A i \in ofModel : /\ InSomeRange(both[i], ranges)
                           /\ Value(text, both[i]) \in DOMAIN consumed
    BY <1>6, <2>1
  <2>3. ASSUME NEW i \in ofModel, NEW j \in ofModel, i # j
        PROVE  ~Overlaps(both[i], both[j])
    <3>1. i - N # j - N
      BY <1>4, <2>1, <2>3
    <3>2. QED
      BY <1>6, <2>1, <3>1
  <2>4. QED
    BY <1>1, <1>8, <1>10, <2>2, <2>3 DEF CandidatesPlacedApart
<1>17. QED
  BY <1>12, <1>13, <1>14, <1>15, <1>16 DEF DetectionIInv

LEMMA DetectionStep == DetectionIInv /\ [Next]_vars => DetectionIInv'
<1> SUFFICES ASSUME DetectionIInv, [Next]_vars PROVE DetectionIInv'
  OBVIOUS
<1>1. ScannerIInv'
  BY ScannerStep DEF DetectionIInv
<1>2. PhaseKnown /\ next \in Nat \ {0}
  BY DEF DetectionIInv, ModelKnown
<1>3. CASE Build
  <2>1. PhaseKnown'
    BY <1>2, <1>3 DEF Build, PhaseKnown, Early, scannerVars, selectionVars
  <2>2. QED
    BY <1>1, <1>2, <1>3, <2>1, KeptStep DEF Build, Early, scannerVars
<1>4. CASE FindRanges
  <2>1. /\ phase = "scanning" /\ UNCHANGED detectionVars /\ UNCHANGED selectionVars
    BY <1>4 DEF FindRanges
  <2>2. /\ findings = <<>> /\ findings' = <<>> /\ phase' = "scanning"
    BY <1>2, <2>1 DEF PhaseKnown, Early, detectionVars
  <2>3. PhaseKnown'
    BY <1>2, <2>1 DEF PhaseKnown, Early, detectionVars, selectionVars
  <2>4. FindingsKnown'
    BY <2>2, EmptySeq DEF FindingsKnown, Early
  <2>5. SelectionKnown' /\ ModelKnown'
    <3>1. SelectionKnown' = SelectionKnown
      BY <2>1 DEF SelectionKnown, SweepOrder, Accounted, SelectedDisjoint, detectionVars,
                  selectionVars
    <3>2. text' = text
      BY <2>1 DEF text, detectionVars
    <3>3. QED
      BY <2>1, <3>1, <3>2 DEF DetectionIInv, ModelKnown, detectionVars
  <2>6. CandidatesPlacedApart'
    BY <2>2 DEF CandidatesPlacedApart
  <2>7. QED
    BY <1>1, <2>3, <2>4, <2>5, <2>6 DEF DetectionIInv
<1>5. CASE NothingToSearch
  <2>1. PhaseKnown'
    BY <1>2, <1>5 DEF NothingToSearch, PhaseKnown, Early, scannerVars, selectionVars
  <2>2. QED
    BY <1>1, <1>2, <1>5, <2>1, KeptStep DEF NothingToSearch, Early, scannerVars
<1>6. CASE DetectWithPolicy
  BY <1>1, <1>6, DetectStep
<1>7. CASE Selection
  BY <1>1, <1>7, SelectionStep
<1>8. CASE WithoutModel
  <2>1. PhaseKnown'
    BY <1>2, <1>8 DEF WithoutModel, PhaseKnown, Early, scannerVars, selectionVars
  <2>2. QED
    BY <1>1, <1>2, <1>8, <2>1, KeptStep DEF WithoutModel, Early, scannerVars
<1>9. CASE NothingToAsk
  <2>1. PhaseKnown'
    BY <1>2, <1>9 DEF NothingToAsk, PhaseKnown, Early, scannerVars, selectionVars
  <2>2. QED
    BY <1>1, <1>2, <1>9, <2>1, KeptStep DEF NothingToAsk, Early, scannerVars
<1>10. CASE ModelFails
  <2>1. PhaseKnown'
    BY <1>2, <1>10 DEF ModelFails, PhaseKnown, Early, scannerVars, selectionVars
  <2>2. QED
    BY <1>1, <1>2, <1>10, <2>1, KeptStep DEF ModelFails, Early, scannerVars
<1>11. CASE ModelAnswers
  BY <1>1, <1>11, AnswersStep
<1>12. CASE SkipCandidate
  <2>1. PhaseKnown'
    BY <1>2, <1>12 DEF SkipCandidate, PhaseKnown, Early, scannerVars, selectionVars
  <2>2. next + 1 \in Nat \ {0}
    BY <1>2
  <2>3. QED
    BY <1>1, <1>12, <2>1, <2>2, KeptStep DEF SkipCandidate, Early, scannerVars
<1>13. CASE PlaceCandidate
  BY <1>1, <1>13, PlaceStep
<1>14. CASE MergeModel
  BY <1>1, <1>14, MergeStep
<1>15. CASE Finish
  <2>1. PhaseKnown'
    BY <1>2, <1>15 DEF Finish, PhaseKnown, Early, scannerVars, selectionVars
  <2>2. QED
    BY <1>1, <1>2, <1>15, <2>1, KeptStep DEF Finish, Early, scannerVars
<1>16. CASE UNCHANGED vars
  <2>1. PhaseKnown'
    BY <1>2, <1>16 DEF PhaseKnown, Early, vars, detectionVars, scannerVars, selectionVars
  <2>2. QED
    BY <1>1, <1>2, <1>16, <2>1, KeptStep DEF vars, detectionVars, scannerVars
<1>17. QED
  BY <1>3, <1>4, <1>5, <1>6, <1>7, <1>8, <1>9, <1>10, <1>11, <1>12, <1>13, <1>14, <1>15,
     <1>16 DEF Next

\* The invariant holds of detection as a whole.
LEMMA DetectionInvariant == Spec => []DetectionIInv
  BY InitDetection, DetectionStep, PTL DEF Spec

\* What is redacted is disjoint and in the order of the text, in both selections.
THEOREM DetectedDisjoint == Spec => []SelectedDisjoint
<1>1. DetectionIInv => SelectedDisjoint
  BY DEF DetectionIInv, SelectionKnown
<1>2. QED
  BY <1>1, DetectionInvariant, PTL

\* Whatever was found, and however far it overlaps: a finding is given up only for one
\* that it overlaps and that is preferred to it.
THEOREM UnbeatenIsSelected == Spec => []UnbeatenSelected
<1>1. DetectionIInv => UnbeatenSelected
  <2> SUFFICES ASSUME DetectionIInv, phase = "done" PROVE UnbeatenSelected
    BY DEF UnbeatenSelected
  <2>1. Range(pending) = {}
    BY DEF DetectionIInv, PhaseKnown, Range
  <2>2. Accounted
    BY DEF DetectionIInv, SelectionKnown
  <2>3. QED
    BY <2>1, <2>2 DEF Accounted, UnbeatenSelected
<1>2. QED
  BY <1>1, DetectionInvariant, PTL

\* Whatever the model names, and however often: its findings are on occurrences of it,
\* in ranges that may be redacted, and no two on the same text.
THEOREM CandidatesApart == Spec => []CandidatesPlacedApart
<1>1. DetectionIInv => CandidatesPlacedApart
  BY DEF DetectionIInv
<1>2. QED
  BY <1>1, DetectionInvariant, PTL

\* Whatever else is found in them: changed lines of a file that the policy names are
\* withheld as a whole, but those that are taken for a header, and those behind one
\* that is taken for the header of another file, up to the next "diff --git".
THEOREM NamedFilesWithheld == Spec => []CustomFilesWithheld
<1>1. DetectionIInv => CustomFilesWithheld
  <2> SUFFICES ASSUME DetectionIInv, phase = "done", input.kind = "GitDiff",
                      NEW n \in Content(input.lines),
                      input.lines[n].file \in policy.files,
                      ~TakenForHeader(input.lines[n]), FileKept(input.lines, n)
               PROVE  \E f \in Range(selected) :
                         /\ f.kind = "CustomFile"
                         /\ f.start = BodyRange(input.lines, n).start
                         /\ f.end = BodyRange(input.lines, n).end
    BY DEF CustomFilesWithheld
  <2> DEFINE file == input.lines[n].file
             from == BodyRange(input.lines, n).start
             to == BodyRange(input.lines, n).end
  <2>1. /\ input \in Inputs /\ RangesApart /\ RangesKnown /\ ranges \in Seq(Places)
        /\ SelectionKnown /\ unread = <<>> /\ pending = <<>>
        /\ findings \in Seq(Found \cup FromModel)
        /\ \A i \in DOMAIN ranges :
              InCustomFile(ranges[i], policy.files)
              => RuleFinding("CustomFile", 100, ranges[i]) \in Range(findings)
    BY DEF DetectionIInv, ScannerIInv, ScannerTyped, PhaseKnown, FindingsKnown, Early
  <2>2. n <= Seen
    <3>1. /\ input.lines \in Seq(Lines) /\ Len(input.lines) \in Nat
          /\ n \in 1..Len(input.lines)
      BY <2>1, InputsAssumption, LenProperties DEF Content
    <3>2. Seen = Len(input.lines)
      BY <2>1, <3>1 DEF Seen
    <3>3. QED
      BY <3>1, <3>2
  <2>3. file # NoPath
    <3>1. policy \in Policies
      BY <2>1, InputsAssumption DEF policy
    <3>2. QED
      BY <3>1 DEF Policies
  <2>4. PICK i \in DOMAIN ranges : ranges[i] = RedactableRange(from, to, file)
    BY <2>1, <2>2, <2>3 DEF RangesKnown
  <2>5. InCustomFile(ranges[i], policy.files) /\ ranges[i].start = from /\ ranges[i].end = to
    BY <2>4 DEF InCustomFile, RedactableRange
  <2> DEFINE f == RuleFinding("CustomFile", 100, ranges[i])
  <2>6. f \in Range(findings)
    BY <2>1, <2>5
  <2>7. ASSUME NEW g \in Range(findings) \ {f}, Overlaps(f, g) PROVE ~Overridden(f, g)
    <3>1. \A k \in DOMAIN findings : findings[k] \in Found \cup FromModel
      BY <2>1, ElementOfSeq
    <3>2. g \in Found \cup FromModel /\ g # f
      BY <2>7, <3>1 DEF Range
    <3>3. g \notin Found
      BY <2>1, <2>5, <2>7, <3>2, NamedFileAlone
    <3>4. IsRange(ranges[i])
      BY <2>1 DEF RangesApart
    <3>5. QED
      BY <3>2, <3>3, <3>4, NamedFileWithstands
  <2>8. f.kind = "CustomFile" /\ f.start = from /\ f.end = to
    BY <2>5 DEF RuleFinding
  <2> HIDE DEF f
  <2>9. f \in Range(selected)
    <3>1. Range(pending) = {}
      BY <2>1 DEF Range
    <3>2. QED
      BY <2>1, <2>6, <2>7, <3>1 DEF SelectionKnown, Accounted
  <2>10. QED
    BY <2>8, <2>9
<1>2. QED
  BY <1>1, DetectionInvariant, PTL

--------------------------------------------------------------------------------
(***************************************************************************)
(* What the rules found withstands the model                               *)
(***************************************************************************)

\* What is selected is in the order of the sweep, and no two next to each other overlap.
SelectedInOrder ==
    /\ \A i, j \in DOMAIN selected : i < j => ~Before(selected[j], selected[i])
    /\ \A i, j \in DOMAIN selected : j = i + 1 => ~Overlaps(selected[i], selected[j])

\* In the second selection, findings of rules with none between them do not overlap:
\* those still to be seen, and the last one selected with the first of these.
NextRulesApart ==
    /\ \A p, q \in DOMAIN pending :
          /\ p < q /\ pending[p].source = "Rule" /\ pending[q].source = "Rule"
          /\ \A k \in DOMAIN pending : p < k /\ k < q => pending[k].source # "Rule"
          => ~Overlaps(pending[p], pending[q])
    /\ \A q \in DOMAIN pending :
          /\ selected # <<>> /\ Previous.source = "Rule" /\ pending[q].source = "Rule"
          /\ \A k \in DOMAIN pending : k < q => pending[k].source # "Rule"
          => ~Overlaps(Previous, pending[q])

Strong(f) == f.source = "Rule" /\ f.kind \notin {"CustomString", "Phone"}

StrongKept ==
    \A f \in Range(findings) : Strong(f) => f \in Range(pending) \cup Range(selected)

RulesKnown ==
    /\ SelectedInOrder
    /\ stats \in [failed : BOOLEAN, total : Nat]
    /\ phase \notin {"merging", "done"} => stats.total = 0
    /\ phase = "merging" => NextRulesApart
    /\ phase = "merging" \/ (phase = "done" /\ stats.total > 0) => StrongKept

RulesIInv == DetectionIInv /\ RulesKnown

\* A strong finding of a rule wins against each of the model, on whatever side.
LEMMA StrongWins ==
    ASSUME NEW r \in Found, Strong(r), NEW m \in FromModel
    PROVE  PreferRight(m, r) /\ ~PreferRight(r, m)
<1>1. /\ r \in Finding /\ m \in Finding
      /\ r.kind \in FindingKind \ {"CustomString", "Phone", "Organization"}
      /\ r.source = "Rule" /\ r.confidence \in 76..100
      /\ r.kind = "Person" => r.confidence = 99
      /\ m.kind \in {"Person", "Organization"} /\ m.source = "Llm"
      /\ m.confidence \in 0..100
  <2>1. r \in Finding /\ m \in Finding /\ r.confidence \in 0..100 /\ m.confidence \in 0..100
    BY FoundIsFinding, FindingNumbers
  <2>2. /\ r.kind # "Organization" /\ r.confidence >= 76
        /\ r.kind = "Person" => r.confidence = 99
    BY DEF Found, FoundIn, RuleFound
  <2>3. r.confidence \in 76..100
    BY <2>1, <2>2
  <2>4. QED
    BY <2>1, <2>2, <2>3 DEF Strong, Finding, FromModel
<1>2. Score(m) \in 0..150 /\ ContainmentPriority[m.kind] \in {45, 50}
  <2>1. /\ Priority[m.kind] \in {45, 50} /\ Bonus[m.source] = 0
        /\ ContainmentPriority[m.kind] \in {45, 50}
    BY <1>1 DEF Priority, Bonus, ContainmentPriority
  <2>2. QED
    BY <1>1, <2>1 DEF Score
<1>3. Score(r) \in Nat /\ Score(r) > 150
  <2>1. Bonus[r.source] = 10
    BY <1>1 DEF Bonus
  <2>2. CASE r.kind = "Person"
    <3>1. Priority[r.kind] = 50 /\ r.confidence = 99
      BY <1>1, <2>2 DEF Priority
    <3>2. QED
      BY <2>1, <3>1 DEF Score
  <2>3. CASE r.kind # "Person"
    <3>1. Priority[r.kind] \in {70, 75, 80, 85, 90, 99, 100}
      BY <1>1, <2>3 DEF Priority, FindingKind
    <3>2. QED
      BY <1>1, <2>1, <3>1 DEF Score
  <2>4. QED
    BY <2>2, <2>3
<1>4. ContainmentPriority[r.kind] \in {50, 75, 80, 85, 90, 95, 99, 100}
  BY <1>1 DEF ContainmentPriority, FindingKind
<1>5. QED
  BY <1>2, <1>3, <1>4 DEF PreferRight

\* What is found is found by rules or placed for the model.
LEMMA FoundBy ==
    ASSUME findings \in Seq(Found \cup FromModel)
    PROVE  \A f \in Range(findings) :
              /\ f \in Finding
              /\ f.source = "Rule" => f \in Found
              /\ f.source # "Rule" => f \in FromModel
<1>1. \A i \in DOMAIN findings : findings[i] \in Found \cup FromModel
  BY ElementOfSeq
<1>2. "Rule" # "Llm"
  OBVIOUS
<1>3. QED
  BY <1>1, <1>2, FoundIsFinding DEF Range

\* The sweep keeps what it selects in its order, and next to each other apart.
LEMMA SweepKeepsOrder ==
    ASSUME SelectionKnown, SelectedInOrder, Sweep
    PROVE  SelectedInOrder'
<1> DEFINE f == Head(pending)
           n == Len(selected)
<1>1. /\ pending \in Seq(Finding) /\ selected \in Seq(Finding) /\ SweepOrder
  BY DEF SelectionKnown
<1>2. f \in Finding /\ f = pending[1] /\ 1 \in DOMAIN pending
  BY <1>1, SweepTakesFirst
<1> HIDE DEF f
<1>3. \A i \in DOMAIN selected : ~Before(f, selected[i])
  BY <1>1, <1>2 DEF SweepOrder
<1>4. DOMAIN selected = 1..n /\ n \in Nat
  BY <1>1, LenProperties
<1>5. Select(f) \/ Replace(f) \/ Drop(f)
  BY DEF Sweep, f
<1>6. CASE Select(f)
  <2>1. /\ DOMAIN selected' = DOMAIN selected \cup {n + 1}
        /\ \A i \in DOMAIN selected : selected'[i] = selected[i]
        /\ selected'[n + 1] = f
    BY <1>1, <1>2, <1>6, SweepSelects
  <2>2. ASSUME NEW i \in DOMAIN selected', NEW j \in DOMAIN selected', i < j
        PROVE  ~Before(selected'[j], selected'[i])
    <3>1. i \in DOMAIN selected
      BY <1>4, <2>1, <2>2
    <3>2. QED
      BY <1>3, <2>1, <2>2, <3>1 DEF SelectedInOrder
  <2>3. ASSUME NEW i \in DOMAIN selected', NEW j \in DOMAIN selected', j = i + 1
        PROVE  ~Overlaps(selected'[i], selected'[j])
    <3>1. i \in DOMAIN selected
      BY <1>4, <2>1, <2>3
    <3>2. CASE j \in DOMAIN selected
      BY <2>1, <2>3, <3>1, <3>2 DEF SelectedInOrder
    <3>3. CASE j \notin DOMAIN selected
      <4>1. j = n + 1 /\ i = n
        BY <1>4, <2>1, <2>3, <3>3
      <4>2. selected # <<>> /\ Previous = selected[n]
        BY <3>1 DEF Previous
      <4>3. ~Overlaps(selected[n], f)
        BY <1>6, <4>2 DEF Select, OverlapsLast
      <4>4. QED
        BY <2>1, <3>1, <4>1, <4>3
    <3>4. QED
      BY <3>2, <3>3
  <2>4. QED
    BY <2>2, <2>3 DEF SelectedInOrder
<1>7. CASE Replace(f)
  <2> DEFINE last == selected[n]
  <2>1. /\ n \in DOMAIN selected /\ DOMAIN selected' = DOMAIN selected
        /\ \A i \in DOMAIN selected : selected'[i] = IF i = n THEN f ELSE selected[i]
        /\ Previous = last /\ last \in Finding
    BY <1>1, <1>2, <1>7, SweepSelects DEF Replace
  <2>2. ASSUME NEW i \in DOMAIN selected', NEW j \in DOMAIN selected', i < j
        PROVE  ~Before(selected'[j], selected'[i])
    <3>1. i \in DOMAIN selected /\ j \in DOMAIN selected /\ i # n
      BY <1>4, <2>1, <2>2
    <3>2. QED
      BY <1>3, <2>1, <2>2, <3>1 DEF SelectedInOrder
  <2>3. ASSUME NEW i \in DOMAIN selected', NEW j \in DOMAIN selected', j = i + 1
        PROVE  ~Overlaps(selected'[i], selected'[j])
    <3>1. i \in DOMAIN selected /\ j \in DOMAIN selected /\ i # n /\ i < j
      BY <1>4, <2>1, <2>3
    <3>2. ~Overlaps(selected[i], selected[j]) /\ ~Before(selected[j], selected[i])
      BY <2>3, <3>1 DEF SelectedInOrder
    <3>3. CASE j # n
      BY <2>1, <3>1, <3>2, <3>3
    <3>4. CASE j = n
      <4> DEFINE g == selected[i]
      <4>1. g \in Finding
        BY <1>1, <3>1, ElementOfSeq
      <4>2. ~Overlaps(g, last) /\ ~Before(last, g) /\ ~Before(f, last)
        BY <1>3, <2>1, <3>2, <3>4
      <4>3. Overlaps(last, f)
        BY <1>7, <2>1 DEF Replace, OverlapsLast
      <4>4. selected'[i] = g /\ selected'[j] = f
        BY <2>1, <3>1, <3>4
      <4> HIDE DEF g, last
      <4>5. /\ g.start \in Nat /\ g.end \in Nat /\ last.start \in Nat /\ last.end \in Nat
            /\ f.start \in Nat /\ f.end \in Nat
        BY <1>2, <2>1, <4>1, FindingNumbers
      <4>6. g.start <= last.start /\ last.start <= f.start
        BY <1>2, <2>1, <4>1, <4>2, BeforeOrders
      <4>7. ~Overlaps(g, f)
        BY <4>2, <4>3, <4>5, <4>6 DEF Overlaps
      <4>8. QED
        BY <4>4, <4>7
    <3>5. QED
      BY <3>3, <3>4
  <2>4. QED
    BY <2>2, <2>3 DEF SelectedInOrder
<1>8. CASE Drop(f)
  BY <1>8 DEF Drop, SelectedInOrder
<1>9. QED
  BY <1>5, <1>6, <1>7, <1>8

\* A step of the second selection gives up no strong finding of a rule.
LEMMA SweepKeepsStrong ==
    ASSUME SelectionKnown, findings \in Seq(Found \cup FromModel), NextRulesApart,
           StrongKept, Sweep, UNCHANGED findings
    PROVE  NextRulesApart' /\ StrongKept'
<1> DEFINE f == Head(pending)
           n == Len(selected)
<1>1. /\ pending \in Seq(Finding) /\ selected \in Seq(Finding)
      /\ Range(pending) \subseteq Range(findings) /\ Range(selected) \subseteq Range(findings)
  BY DEF SelectionKnown, Accounted
<1>2. /\ f \in Finding /\ f = pending[1]
      /\ 1 \in DOMAIN pending /\ DOMAIN pending \subseteq Nat \ {0}
      /\ \A j \in DOMAIN pending' :
            j \in Nat \ {0} /\ j + 1 \in DOMAIN pending /\ pending'[j] = pending[j + 1]
      /\ \A j \in DOMAIN pending :
            j # 1 => j - 1 \in DOMAIN pending' /\ pending'[j - 1] = pending[j]
  BY <1>1, SweepTakesFirst
<1> HIDE DEF f
<1>3. Select(f) \/ Replace(f) \/ Drop(f)
  BY DEF Sweep, f
<1>4. /\ \A g \in Range(findings) : /\ g.source = "Rule" => g \in Found
                                    /\ g.source # "Rule" => g \in FromModel
      /\ f \in Range(findings)
  <2>1. f \in Range(pending)
    BY <1>2 DEF Range
  <2>2. QED
    BY <1>1, <2>1, FoundBy
<1>5. /\ DOMAIN selected = 1..n /\ n \in Nat
      /\ OverlapsLast(f) => /\ n \in DOMAIN selected /\ Previous = selected[n]
                            /\ selected # <<>> /\ Overlaps(Previous, f)
                            /\ Previous \in Range(selected)
  <2>1. DOMAIN selected = 1..n /\ n \in Nat
    BY <1>1, <1>2, SweepSelects
  <2>2. OverlapsLast(f) => n \in DOMAIN selected /\ Previous = selected[n]
    BY <1>1, <1>2, SweepSelects
  <2>3. OverlapsLast(f) => selected # <<>> /\ Overlaps(Previous, f)
    BY DEF OverlapsLast
  <2>4. OverlapsLast(f) => Previous \in Range(selected)
    BY <2>2 DEF Range
  <2>5. QED
    BY <2>1, <2>2, <2>3, <2>4
<1>6. f.source = "Rule" /\ selected # <<>> /\ Previous.source = "Rule" => ~Overlaps(Previous, f)
  <2>1. \A k \in DOMAIN pending : ~(k < 1)
    BY <1>2
  <2>2. QED
    BY <1>2, <2>1 DEF NextRulesApart
<1>7. ASSUME NEW p \in DOMAIN pending', NEW q \in DOMAIN pending',
             p < q, pending'[p].source = "Rule", pending'[q].source = "Rule",
             \A k \in DOMAIN pending' : p < k /\ k < q => pending'[k].source # "Rule"
      PROVE  ~Overlaps(pending'[p], pending'[q])
  <2>1. /\ p + 1 \in DOMAIN pending /\ q + 1 \in DOMAIN pending /\ p + 1 < q + 1
        /\ pending'[p] = pending[p + 1] /\ pending'[q] = pending[q + 1]
    BY <1>2, <1>7
  <2>2. ASSUME NEW k \in DOMAIN pending, p + 1 < k, k < q + 1
        PROVE  pending[k].source # "Rule"
    <3>1. k # 1 /\ p < k - 1 /\ k - 1 < q
      BY <1>2, <2>2
    <3>2. QED
      BY <1>2, <1>7, <3>1
  <2>3. QED
    BY <1>7, <2>1, <2>2 DEF NextRulesApart
<1>8. ASSUME NEW q \in DOMAIN pending', f.source = "Rule", pending'[q].source = "Rule",
             \A k \in DOMAIN pending' : k < q => pending'[k].source # "Rule"
      PROVE  ~Overlaps(f, pending'[q])
  <2>1. q + 1 \in DOMAIN pending /\ 1 < q + 1 /\ pending'[q] = pending[q + 1]
    BY <1>2, <1>8
  <2>2. ASSUME NEW k \in DOMAIN pending, 1 < k, k < q + 1
        PROVE  pending[k].source # "Rule"
    <3>1. k # 1 /\ k - 1 < q
      BY <1>2, <2>2
    <3>2. QED
      BY <1>2, <1>8, <3>1
  <2>3. QED
    BY <1>2, <1>8, <2>1, <2>2 DEF NextRulesApart
<1>9. ASSUME NEW q \in DOMAIN pending', f.source # "Rule", pending'[q].source = "Rule",
             \A k \in DOMAIN pending' : k < q => pending'[k].source # "Rule",
             selected # <<>>, Previous.source = "Rule"
      PROVE  ~Overlaps(Previous, pending'[q])
  <2>1. q + 1 \in DOMAIN pending /\ pending'[q] = pending[q + 1]
    BY <1>2
  <2>2. ASSUME NEW k \in DOMAIN pending, k < q + 1
        PROVE  pending[k].source # "Rule"
    <3>1. CASE k = 1
      BY <1>2, <1>9, <3>1
    <3>2. CASE k # 1
      <4>1. k - 1 < q
        BY <1>2, <2>2
      <4>2. QED
        BY <1>2, <1>9, <3>2, <4>1
    <3>3. QED
      BY <3>1, <3>2
  <2>3. QED
    BY <1>9, <2>1, <2>2 DEF NextRulesApart
<1>10. \A g \in Range(pending) : g = f \/ g \in Range(pending')
  <2>1. \A j \in DOMAIN pending : pending[j] = f \/ \E k \in DOMAIN pending' : pending'[k] = pending[j]
    BY <1>2
  <2>2. QED
    BY <2>1 DEF Range
<1>11. ASSUME Select(f) \/ Replace(f)
       PROVE  /\ selected' # <<>> /\ Previous' = f /\ f \in Range(selected')
              /\ \A g \in Range(selected) :
                    \/ g \in Range(selected')
                    \/ g = Previous /\ Replace(f)
  <2>1. CASE Select(f)
    <3>1. /\ selected' \in Seq(Finding)
          /\ DOMAIN selected' = DOMAIN selected \cup {n + 1}
          /\ \A i \in DOMAIN selected : selected'[i] = selected[i]
          /\ selected'[n + 1] = f
      BY <1>1, <1>2, <2>1, SweepSelects
    <3>2. DOMAIN selected' = 1..Len(selected') /\ Len(selected') \in Nat
      BY <3>1, LenProperties
    <3>3. Len(selected') = n + 1
      BY <1>5, <3>1, <3>2
    <3>4. selected' # <<>> /\ Previous' = f
      BY <1>5, <3>1, <3>3 DEF Previous
    <3>5. f \in Range(selected') /\ \A g \in Range(selected) : g \in Range(selected')
      BY <3>1 DEF Range
    <3>6. QED
      BY <3>4, <3>5
  <2>2. CASE Replace(f)
    <3>1. /\ selected' \in Seq(Finding)
          /\ n \in DOMAIN selected /\ DOMAIN selected' = DOMAIN selected
          /\ \A i \in DOMAIN selected : selected'[i] = IF i = n THEN f ELSE selected[i]
      BY <1>1, <1>2, <2>2, SweepSelects
    <3>2. DOMAIN selected' = 1..Len(selected') /\ Len(selected') \in Nat
      BY <3>1, LenProperties
    <3>3. Len(selected') = n
      BY <1>5, <3>1, <3>2
    <3>4. selected' # <<>> /\ Previous' = f
      BY <3>1, <3>3 DEF Previous
    <3>5. Previous = selected[n]
      BY DEF Previous
    <3>6. f \in Range(selected')
      BY <3>1 DEF Range
    <3>7. \A g \in Range(selected) : g \in Range(selected') \/ g = Previous
      BY <3>1, <3>5 DEF Range
    <3>8. QED
      BY <2>2, <3>4, <3>6, <3>7
  <2>3. QED
    BY <1>11, <2>1, <2>2
<1>12. CASE Select(f) \/ Replace(f)
  <2>1. NextRulesApart'
    <3>1. \A q \in DOMAIN pending' :
             /\ Previous'.source = "Rule" /\ pending'[q].source = "Rule"
             /\ \A k \in DOMAIN pending' : k < q => pending'[k].source # "Rule"
             => ~Overlaps(Previous', pending'[q])
      BY <1>8, <1>11, <1>12
    <3>2. QED
      BY <1>7, <3>1 DEF NextRulesApart
  <2>2. ASSUME NEW g \in Range(findings), Strong(g)
        PROVE  g \in Range(pending') \cup Range(selected')
    <3>1. CASE g \in Range(pending)
      BY <1>10, <1>11, <1>12, <3>1
    <3>2. CASE g \in Range(selected)
      <4>1. CASE g = Previous /\ Replace(f)
        <5>1. OverlapsLast(f) /\ PreferRight(Previous, f)
          BY <4>1 DEF Replace
        <5>2. f.source # "Rule"
          BY <1>5, <1>6, <2>2, <4>1, <5>1 DEF Strong
        <5>3. f \in FromModel /\ g \in Found
          BY <1>4, <2>2, <5>2 DEF Strong
        <5>4. ~PreferRight(g, f)
          BY <2>2, <5>3, StrongWins
        <5>5. QED
          BY <4>1, <5>1, <5>4
      <4>2. QED
        BY <1>11, <1>12, <3>2, <4>1
    <3>3. QED
      BY <2>2, <3>1, <3>2 DEF StrongKept
  <2>3. QED
    BY <2>1, <2>2 DEF StrongKept
<1>13. CASE Drop(f)
  <2>1. /\ UNCHANGED selected /\ OverlapsLast(f) /\ ~PreferRight(Previous, f)
        /\ selected # <<>> /\ Overlaps(Previous, f) /\ Previous \in Range(findings)
    BY <1>1, <1>5, <1>13 DEF Drop
  <2>2. Previous' = Previous
    BY <2>1 DEF Previous
  <2>3. f.source = "Rule" => Previous.source # "Rule"
    BY <1>6, <2>1
  <2>4. NextRulesApart'
    <3>1. \A q \in DOMAIN pending' :
             /\ Previous.source = "Rule" /\ pending'[q].source = "Rule"
             /\ \A k \in DOMAIN pending' : k < q => pending'[k].source # "Rule"
             => ~Overlaps(Previous, pending'[q])
      BY <1>9, <2>1, <2>3
    <3>2. QED
      BY <1>7, <2>2, <3>1 DEF NextRulesApart
  <2>5. ~Strong(f)
    <3> SUFFICES ASSUME Strong(f) PROVE FALSE
      OBVIOUS
    <3>1. f \in Found /\ Previous \in FromModel
      BY <1>4, <2>1, <2>3 DEF Strong
    <3>2. PreferRight(Previous, f)
      BY <3>1, StrongWins
    <3>3. QED
      BY <2>1, <3>2
  <2>6. StrongKept'
    BY <1>10, <2>1, <2>5 DEF StrongKept
  <2>7. QED
    BY <2>4, <2>6
<1>14. QED
  BY <1>3, <1>12, <1>13

\* Sorting leaves the rules' findings in their order: those with none between them were
\* next to each other.
LEMMA SortedRulesApart ==
    ASSUME SelectionKnown, SelectedInOrder,
           NEW found \in Seq(Finding), Len(selected) <= Len(found),
           \A i \in 1..Len(selected) : found[i] = selected[i] /\ selected[i].source = "Rule",
           \A i \in DOMAIN found : found[i].source = "Rule" => i \in 1..Len(selected),
           pending' = Sorted(found), selected' = <<>>
    PROVE  NextRulesApart'
<1> DEFINE n == Len(selected)
           sorted == Sorted(found)
           rank(i) == Rank(found, i)
<1>1. /\ DOMAIN selected = 1..n /\ n \in Nat
      /\ DOMAIN found = 1..Len(found) /\ Len(found) \in Nat
  BY LenProperties DEF SelectionKnown
<1>2. /\ DOMAIN sorted = DOMAIN found
      /\ \A i \in DOMAIN found : rank(i) \in DOMAIN found /\ sorted[rank(i)] = found[i]
      /\ \A k \in DOMAIN found : \E i \in DOMAIN found : rank(i) = k
      /\ \A i, j \in DOMAIN found :
            rank(i) < rank(j) <=> \/ Before(found[i], found[j])
                                  \/ ~Before(found[j], found[i]) /\ i < j
  BY SortedPlaces
<1> HIDE DEF sorted, rank, n
<1>3. /\ 1..n \subseteq DOMAIN found
      /\ \A i \in 1..n : found[i] = selected[i] /\ found[i].source = "Rule"
      /\ \A i \in DOMAIN found : found[i].source = "Rule" => i \in 1..n
  <2>1. \A i \in 1..n : i \in DOMAIN found
    BY <1>1 DEF n
  <2>2. QED
    BY <2>1 DEF n
<1>4. \A i, j \in 1..n : i < j => rank(i) < rank(j)
  BY <1>1, <1>2, <1>3 DEF SelectedInOrder
<1>5. ASSUME NEW p \in DOMAIN sorted, NEW q \in DOMAIN sorted, p < q,
             sorted[p].source = "Rule", sorted[q].source = "Rule",
             \A k \in DOMAIN sorted : p < k /\ k < q => sorted[k].source # "Rule"
      PROVE  ~Overlaps(sorted[p], sorted[q])
  <2>1. PICK i \in DOMAIN found : rank(i) = p
    BY <1>2
  <2>2. PICK j \in DOMAIN found : rank(j) = q
    BY <1>2
  <2>3. /\ i \in 1..n /\ j \in 1..n /\ sorted[p] = selected[i] /\ sorted[q] = selected[j]
    BY <1>2, <1>3, <1>5, <2>1, <2>2
  <2>4. p \in Nat /\ q \in Nat /\ i \in Nat /\ j \in Nat
    <3>1. \A k \in DOMAIN found : k \in Nat
      BY <1>1
    <3>2. QED
      BY <1>2, <3>1
  <2>5. i < j
    <3>1. ~(j < i)
      <4>1. j < i => q < p
        BY <1>4, <2>1, <2>2, <2>3
      <4>2. QED
        BY <1>5, <2>4, <4>1
    <3>2. i # j
      BY <1>5, <2>1, <2>2, <2>4
    <3>3. QED
      BY <2>4, <3>1, <3>2
  <2>6. j = i + 1
    <3> SUFFICES ASSUME j # i + 1 PROVE FALSE
      OBVIOUS
    <3> DEFINE k == i + 1
    <3>1. k \in 1..n /\ i < k /\ k < j
      BY <1>1, <2>3, <2>4, <2>5
    <3> HIDE DEF k
    <3>2. /\ rank(k) \in DOMAIN sorted /\ p < rank(k) /\ rank(k) < q
          /\ sorted[rank(k)].source = "Rule"
      <4>1. rank(i) < rank(k) /\ rank(k) < rank(j)
        BY <1>4, <2>3, <3>1
      <4>2. k \in DOMAIN found /\ found[k].source = "Rule"
        BY <1>3, <3>1
      <4>3. rank(k) \in DOMAIN sorted /\ sorted[rank(k)] = found[k]
        BY <1>2, <4>2
      <4>4. QED
        BY <2>1, <2>2, <4>1, <4>2, <4>3
    <3>3. QED
      BY <1>5, <3>2
  <2>7. ~Overlaps(selected[i], selected[j])
    BY <1>1, <2>3, <2>6 DEF SelectedInOrder
  <2>8. QED
    BY <2>3, <2>7
<1>6. pending' = sorted
  BY DEF sorted
<1>7. QED
  BY <1>5, <1>6 DEF NextRulesApart

\* The second selection starts with the rules' findings as the first has left them.
LEMMA MergeKeepsRules ==
    ASSUME RulesIInv, MergeModel, DetectionIInv'
    PROVE  RulesKnown'
<1> DEFINE A == AcceptedFromModel
           n == Len(selected)
           both == selected \o A
<1>1. /\ phase = "placing" /\ phase' = "merging" /\ findings' = both
      /\ pending' = Sorted(both) /\ selected' = <<>>
      /\ stats' = [stats EXCEPT !.total = @ + Len(A)]
  BY DEF MergeModel, StartSelection
<1>2. /\ SelectionKnown /\ ModelKnown /\ SelectedInOrder
      /\ findings \in Seq(Found)
      /\ stats \in [failed : BOOLEAN, total : Nat]
  BY <1>1 DEF RulesIInv, RulesKnown, DetectionIInv, FindingsKnown
<1>3. selected \in Seq(Finding) /\ DOMAIN selected = 1..n /\ n \in Nat
  BY <1>2, LenProperties DEF SelectionKnown
<1>4. ASSUME NEW i \in 1..n PROVE selected[i].source = "Rule"
  <2>1. selected[i] \in Range(findings)
    BY <1>2, <1>3 DEF SelectionKnown, Accounted, Range
  <2>2. \A k \in DOMAIN findings : findings[k].source = "Rule"
    BY <1>2, ElementOfSeq, FoundIsFinding
  <2>3. QED
    BY <2>1, <2>2 DEF Range
<1>5. A \in Seq(FromModel) /\ DOMAIN A = 1..Len(A) /\ Len(A) \in Nat
  BY <1>2, AcceptedApart, LenProperties
<1>6. \A i \in 1..Len(A) : A[i].source = "Llm"
  BY <1>5, ElementOfSeq, FoundIsFinding
<1> HIDE DEF A
<1>7. A \in Seq(Finding)
  BY <1>5, FoundIsFinding, SeqMonotonic
<1>8. /\ both \in Seq(Finding) /\ Len(both) = n + Len(A)
      /\ \A i \in 1..(n + Len(A)) : both[i] = IF i <= n THEN selected[i] ELSE A[i - n]
  BY <1>3, <1>7, ConcatProperties
<1> HIDE DEF both, n
<1>9. \A i \in 1..n : both[i] = selected[i] /\ both[i].source = "Rule"
  <2>1. \A i \in 1..n : i \in 1..(n + Len(A)) /\ i <= n
    BY <1>3, <1>5
  <2>2. QED
    BY <1>4, <1>8, <2>1
<1>10. \A i \in DOMAIN both : both[i].source = "Rule" => i \in 1..n
  <2>1. DOMAIN both = 1..(n + Len(A))
    BY <1>8, LenProperties
  <2>2. \A i \in 1..(n + Len(A)) : i \in 1..n \/ (i - n \in 1..Len(A) /\ ~(i <= n))
    BY <1>3, <1>5
  <2>3. "Llm" # "Rule"
    OBVIOUS
  <2>4. QED
    BY <1>6, <1>8, <2>1, <2>2, <2>3
<1>11. NextRulesApart'
  <2>1. n <= Len(both)
    BY <1>3, <1>5, <1>8
  <2>2. \A i \in 1..n : both[i] = selected[i] /\ selected[i].source = "Rule"
    BY <1>9
  <2>3. QED
    BY <1>1, <1>2, <1>8, <1>10, <2>1, <2>2, SortedRulesApart DEF n
<1>12. StrongKept'
  <2>1. SelectionKnown'
    BY DEF DetectionIInv
  <2>2. /\ DOMAIN Sorted(both) = DOMAIN both
        /\ \A i \in DOMAIN both : \E k \in DOMAIN both : Sorted(both)[k] = both[i]
    BY <1>8, SortedPlaces
  <2>3. \A g \in Range(both) : g \in Range(Sorted(both))
    BY <2>2 DEF Range
  <2>4. QED
    BY <1>1, <2>3 DEF StrongKept
<1>13. stats' \in [failed : BOOLEAN, total : Nat]
  <2>1. stats.total + Len(A) \in Nat
    BY <1>2, <1>5
  <2>2. QED
    BY <1>1, <1>2, <2>1 DEF A
<1>14. SelectedInOrder'
  BY <1>1 DEF SelectedInOrder
<1>15. QED
  BY <1>1, <1>11, <1>12, <1>13, <1>14 DEF RulesKnown

LEMMA InitRules == Init => RulesIInv
<1> SUFFICES ASSUME Init PROVE RulesIInv
  OBVIOUS
<1>1. phase = "building" /\ stats = NoStats /\ selected = <<>>
  BY DEF Init
<1>2. SelectedInOrder
  BY <1>1 DEF SelectedInOrder
<1>3. RulesKnown
  BY <1>1, <1>2 DEF RulesKnown, NoStats
<1>4. QED
  BY <1>3, InitDetection DEF RulesIInv

LEMMA RulesStep == RulesIInv /\ [Next]_vars => RulesIInv'
<1> SUFFICES ASSUME RulesIInv, [Next]_vars PROVE RulesIInv'
  OBVIOUS
<1>1. DetectionIInv /\ DetectionIInv'
  BY DetectionStep DEF RulesIInv
<1>2. SUFFICES RulesKnown'
  BY <1>1 DEF RulesIInv
<1>3. /\ SelectedInOrder /\ stats \in [failed : BOOLEAN, total : Nat]
      /\ phase \notin {"merging", "done"} => stats.total = 0
      /\ phase = "merging" => NextRulesApart
      /\ phase = "merging" \/ (phase = "done" /\ stats.total > 0) => StrongKept
  BY DEF RulesIInv, RulesKnown
<1>4. ~(0 > 0)
  OBVIOUS
<1>5. CASE Selection
  <2>1. /\ phase \in {"selecting", "merging"} /\ Sweep
        /\ UNCHANGED <<phase, findings, stats>>
    BY <1>5 DEF Selection, detectionVars
  <2>2. SelectionKnown /\ findings \in Seq(Found \cup FromModel)
    BY <1>1 DEF DetectionIInv, FindingsKnown
  <2>3. SelectedInOrder'
    BY <1>3, <2>1, <2>2, SweepKeepsOrder
  <2>4. phase = "merging" => NextRulesApart' /\ StrongKept'
    BY <1>3, <2>1, <2>2, SweepKeepsStrong
  <2>5. QED
    BY <1>3, <2>1, <2>3, <2>4 DEF RulesKnown
<1>6. CASE MergeModel
  BY <1>1, <1>6, MergeKeepsRules
<1>7. CASE DetectWithPolicy
  <2>1. /\ phase = "scanning" /\ phase' = "selecting" /\ selected' = <<>> /\ stats' = stats
    BY <1>7 DEF DetectWithPolicy, StartSelection
  <2>2. SelectedInOrder'
    BY <2>1 DEF SelectedInOrder
  <2>3. QED
    BY <1>3, <2>1, <2>2 DEF RulesKnown
<1>8. CASE Finish
  <2>1. /\ phase = "merging" /\ phase' = "done"
        /\ UNCHANGED <<findings, stats, pending, selected>>
    BY <1>8 DEF Finish, selectionVars
  <2>2. SelectedInOrder' /\ StrongKept'
    BY <1>3, <2>1 DEF SelectedInOrder, StrongKept
  <2>3. QED
    BY <1>3, <2>1, <2>2 DEF RulesKnown
<1>9. CASE ModelFails
  <2>1. /\ phase = "selecting" /\ phase' = "placing" /\ selected' = selected
        /\ stats' = [stats EXCEPT !.failed = TRUE]
    BY <1>9 DEF ModelFails, selectionVars
  <2>2. stats' \in [failed : BOOLEAN, total : Nat] /\ stats'.total = 0
    BY <1>3, <2>1
  <2>3. SelectedInOrder'
    BY <1>3, <2>1 DEF SelectedInOrder
  <2>4. QED
    BY <2>1, <2>2, <2>3 DEF RulesKnown
<1>10. CASE UNCHANGED vars
  <2>1. UNCHANGED <<phase, findings, stats, pending, selected>>
    BY <1>10 DEF vars, detectionVars, selectionVars
  <2>2. /\ SelectedInOrder' = SelectedInOrder /\ NextRulesApart' = NextRulesApart
        /\ StrongKept' = StrongKept
    BY <2>1 DEF SelectedInOrder, NextRulesApart, StrongKept, Previous
  <2>3. QED
    BY <1>3, <2>1, <2>2 DEF RulesKnown
<1>11. CASE Build \/ FindRanges \/ NothingToSearch \/ WithoutModel \/ NothingToAsk
            \/ ModelAnswers \/ SkipCandidate \/ PlaceCandidate
  <2>1. /\ UNCHANGED <<stats, selected>> /\ phase \notin {"merging", "done"}
        /\ phase' # "merging"
    BY <1>11 DEF Build, FindRanges, NothingToSearch, WithoutModel, NothingToAsk, ModelAnswers,
                 SkipCandidate, PlaceCandidate, detectionVars, selectionVars
  <2>2. SelectedInOrder'
    BY <1>3, <2>1 DEF SelectedInOrder
  <2>3. stats'.total = 0 /\ stats' \in [failed : BOOLEAN, total : Nat]
    BY <1>3, <2>1
  <2>4. QED
    BY <1>4, <2>1, <2>2, <2>3 DEF RulesKnown
<1>12. QED
  BY <1>5, <1>6, <1>7, <1>8, <1>9, <1>10, <1>11 DEF Next

\* Whatever the model claims, and even where findings are empty: nothing that a rule
\* found and the first selection kept is given up for it, but custom strings and phone
\* numbers.
THEOREM RulesAreNotGivenUp == Spec => []RulesWithstandModel
<1>1. RulesIInv => RulesWithstandModel
  <2> SUFFICES ASSUME RulesIInv, phase = "done", stats.total > 0,
                      NEW f \in Range(findings), Strong(f)
               PROVE  f \in Range(selected)
    BY DEF RulesWithstandModel, Strong
  <2>1. Range(pending) = {}
    BY DEF RulesIInv, DetectionIInv, PhaseKnown, Range
  <2>2. StrongKept
    BY DEF RulesIInv, RulesKnown
  <2>3. QED
    BY <2>1, <2>2 DEF StrongKept
<1>2. QED
  BY <1>1, InitRules, RulesStep, PTL DEF Spec
=============================================================================
