----------------------------- MODULE MCConsole -----------------------------
(* Small instances of Console for TLC. *)
EXTENDS Console, TLC

Symmetry == Permutations(RunId)
=============================================================================
