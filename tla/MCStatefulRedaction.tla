--------------------------- MODULE MCStatefulRedaction ---------------------------
(***************************************************************************)
(* Instances of StatefulRedaction for TLC.                                 *)
(***************************************************************************)
EXTENDS StatefulRedaction, TLC

\* Requests, kinds, original values and external identifiers are interchangeable.
Symmetry ==
    Permutations(Scopes) \cup Permutations(Kinds)
        \cup Permutations(Originals) \cup Permutations(ExternalIds)
=============================================================================
