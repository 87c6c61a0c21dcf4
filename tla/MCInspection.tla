---------------------------- MODULE MCInspection ----------------------------
(* A small instance of Inspection for TLC. *)
EXTENDS Inspection

Files == {[i \in 1..n |-> "newline"] : n \in 0..9} \cup BoundedSeq({"text", "newline"}, 3)
         \cup {[i \in 1..20 |-> IF i % 2 = 0 THEN "newline" ELSE "text"]}
=============================================================================
