------------------------------ MODULE LlmCandidates -----------------------------
(***************************************************************************)
(* Placing the candidates of a language model: each names a kind and a     *)
(* value, copied from the text, and gets the first occurrence of its value *)
(* that no other candidate's finding occupies.                             *)
(*                                                                         *)
(* A text is a sequence of bytes, its offsets counted from 0.  A character *)
(* of two bytes is "h1" followed by "h2".                                  *)
(***************************************************************************)
EXTENDS Integers, Sequences, FiniteSets

CONSTANT Unplaced    \* what find_next_unoccupied_match returns for none

Prefixed(text, value, at) ==
    /\ at + Len(value) <= Len(text)
    /\ SubSeq(text, at + 1, at + Len(value)) = value

Occurrences(text, value) == {at \in 0..Len(text) : Prefixed(text, value, at)}

CharBoundary(text, at) == at = Len(text) \/ text[at + 1] # "h2"

(***************************************************************************)
(* collect_match_positions resumes one byte behind the start of a match:   *)
(* the slice panics where that is inside a character.                      *)
(***************************************************************************)
SearchPanics(text, value) ==
    /\ value # <<>>
    /\ \E at \in Occurrences(text, value) : ~CharBoundary(text, at + 1)

\* Of positions in the order of the text, how many are up to and with this one.
IndexOf(positions, at) == Cardinality({p \in positions : p <= at})

Disjoint(start, end, used) == end <= used.start \/ used.end <= start

\* Mutant: any position that this value has not used yet will do.
FreePositionsOfValue(positions, consumed, length, occupied) ==
    {at \in positions : IndexOf(positions, at) > consumed}

\* Positions of a value that its earlier candidates have not passed, and where
\* nothing is placed.
FreePositions(positions, consumed, length, occupied) ==
    {at \in positions :
        /\ IndexOf(positions, at) > consumed
        /\ \A used \in occupied : Disjoint(at, at + length, used)}

NextUnoccupied(positions, consumed, length, occupied) ==
    LET free == FreePositions(positions, consumed, length, occupied)
    IN IF free = {} THEN Unplaced ELSE CHOOSE at \in free : \A p \in free : at <= p

\* What is passed is passed for good, whether something was placed or not.
ConsumedAfter(positions, at) ==
    IF at = Unplaced THEN Cardinality(positions) ELSE IndexOf(positions, at)

AllowedKinds(rules) == {"Person", "Organization"} \cap rules

Unstated == -1

Confidence(stated) ==
    CASE stated = Unstated -> 60
      [] stated > 100      -> 100
      [] OTHER             -> stated

InSomeRange(finding, ranges) ==
    \E i \in DOMAIN ranges : ranges[i].start <= finding.start /\ finding.end <= ranges[i].end
=============================================================================
