----------------------------- MODULE MCControl -----------------------------
(* Small instances of Control for TLC. *)
EXTENDS Control, TLC

Symmetry == Permutations(RunId)
=============================================================================
