----------------------------- MODULE MCRestoreState -----------------------------
(***************************************************************************)
(* Instances of RestoreState for TLC.                                      *)
(***************************************************************************)
EXTENDS RestoreState, TLC

\* Redactors and original values are interchangeable.
Symmetry == Permutations(Scopes) \cup Permutations(Originals)
=============================================================================
