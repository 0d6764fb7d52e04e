---------------------------- MODULE MCPublication -----------------------------
(***************************************************************************)
(* Values of Publication's constants for TLC: scripts of two parts, one of *)
(* them written whole and the others reached by edits.                     *)
(***************************************************************************)
EXTENDS Publication, TLC

MCDrafts == {[p \in Parts |-> t] : t \in {"old"}}

Symmetry == Permutations(Notebooks)
==============================================================================
