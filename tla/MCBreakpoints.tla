--------------------------- MODULE MCBreakpoints ---------------------------
(* Small instances of Breakpoints for TLC. *)
EXTENDS Breakpoints, TLC

Symmetry == Permutations(Name)
=============================================================================
