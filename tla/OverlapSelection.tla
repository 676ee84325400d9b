---------------------------- MODULE OverlapSelection ----------------------------
(***************************************************************************)
(* select_non_overlapping: findings of several detectors, sorted by where  *)
(* they start, are swept once; each is compared with the last selected one *)
(* only, and replaces it, is dropped, or is selected next to it.           *)
(*                                                                         *)
(* A finding is its kind, its source, its confidence and its range of the  *)
(* text, of which the end is excluded.  The matched text follows from it.  *)
(***************************************************************************)
EXTENDS Integers, Sequences, FiniteSets

VARIABLES
    pending,    \* the sorted findings that the sweep has still to see
    selected,   \* the findings that it has selected so far
    dropped     \* how many it has counted as dropped

selectionVars == <<pending, selected, dropped>>

(***************************************************************************)
(* Findings                                                                *)
(***************************************************************************)

FindingKind == {"Secret", "Domain", "Url", "Email", "Ip", "Cidr", "Phone", "Person",
                "Organization", "CustomString", "CustomFile"}

FindingSource == {"Rule", "Llm"}

Finding == [kind : FindingKind, source : FindingSource, confidence : 0..100,
            start : Nat, end : Nat]

Priority ==
    [Secret |-> 100, Domain |-> 70, Url |-> 90, Email |-> 85, Ip |-> 75, Cidr |-> 80,
     Phone |-> 60, Person |-> 50, Organization |-> 45, CustomString |-> 95,
     CustomFile |-> 99]

ContainmentPriority ==
    [Secret |-> 75, Domain |-> 80, Url |-> 100, Email |-> 95, Ip |-> 85, Cidr |-> 90,
     Phone |-> 70, Person |-> 50, Organization |-> 45, CustomString |-> 40,
     CustomFile |-> 99]

Bonus == [Rule |-> 10, Llm |-> 0]

Score(f) == Priority[f.kind] + Bonus[f.source] + f.confidence

Length(f) == f.end - f.start

(***************************************************************************)
(* Sorting and comparing                                                   *)
(***************************************************************************)

\* The order of the sweep: by start, then the higher score, then the longer.
Before(left, right) ==
    \/ left.start < right.start
    \/ /\ left.start = right.start
       /\ \/ Score(left) > Score(right)
          \/ Score(left) = Score(right) /\ Length(left) > Length(right)

\* The sort is stable: what is equal in that order stays as it was found.
Rank(findings, i) ==
    Cardinality({j \in DOMAIN findings :
                    \/ Before(findings[j], findings[i])
                    \/ ~Before(findings[i], findings[j]) /\ j <= i})

Sorted(findings) ==
    [k \in DOMAIN findings |->
        findings[CHOOSE i \in DOMAIN findings : Rank(findings, i) = k]]

\* Mutant: ranges that touch, or one in the other, are not taken to overlap.
OverlapsPartly(left, right) ==
    /\ left.start < right.start
    /\ right.start < left.end
    /\ left.end < right.end

Overlaps(left, right) == left.start < right.end /\ right.start < left.end

Encloses(left, right) == left.start <= right.start /\ left.end >= right.end

\* Mutant: of two findings, the longer one is preferred.
PreferRightLonger(left, right) == Length(right) > Length(left)

PreferRight(left, right) ==
    IF /\ Encloses(left, right) \/ Encloses(right, left)
       /\ ContainmentPriority[left.kind] # ContainmentPriority[right.kind]
    THEN ContainmentPriority[right.kind] > ContainmentPriority[left.kind]
    ELSE \/ Score(right) > Score(left)
         \/ Score(right) = Score(left) /\ Length(right) > Length(left)

(***************************************************************************)
(* The sweep                                                               *)
(***************************************************************************)

StartSelection(findings) ==
    /\ pending' = Sorted(findings)
    /\ selected' = <<>>

Previous == selected[Len(selected)]

\* Mutant: findings that touch are compared as well.
OverlapsOrTouchesLast(finding) == selected # <<>> /\ finding.start <= Previous.end

OverlapsLast(finding) == selected # <<>> /\ Overlaps(Previous, finding)

Select(finding) ==
    /\ ~OverlapsLast(finding)
    /\ selected' = Append(selected, finding)
    /\ UNCHANGED dropped

Replace(finding) ==
    /\ OverlapsLast(finding)
    /\ PreferRight(Previous, finding)
    /\ selected' = [selected EXCEPT ![Len(selected)] = finding]
    /\ UNCHANGED dropped

Drop(finding) ==
    /\ OverlapsLast(finding)
    /\ ~PreferRight(Previous, finding)
    /\ dropped' = dropped + 1
    /\ UNCHANGED selected

\* One iteration of the loop.
Sweep ==
    /\ pending # <<>>
    /\ pending' = Tail(pending)
    /\ Select(Head(pending)) \/ Replace(Head(pending)) \/ Drop(Head(pending))

\* A selection by itself: of findings that are sorted by their start.
SelectionInit ==
    /\ pending \in Seq(Finding)
    /\ \A i, j \in DOMAIN pending : i < j => pending[i].start <= pending[j].start
    /\ selected = <<>>
    /\ dropped = 0

SelectionSpec == SelectionInit /\ [][Sweep]_selectionVars

(***************************************************************************)
(* Properties                                                              *)
(***************************************************************************)

Empty(f) == f.start >= f.end

\* Selected findings are disjoint and in the order of the text, whatever was
\* found, as long as none of them is empty: redact_fragment slices the text
\* between them.
SelectedDisjoint ==
    (\A i \in DOMAIN selected : ~Empty(selected[i])) =>
        \A i, j \in DOMAIN selected : i < j => selected[i].end <= selected[j].start
=============================================================================
