------------------------------- MODULE Loops -------------------------------
(***************************************************************************)
(* A loop over a sequence, as the parsers of the client have many.         *)
(***************************************************************************)
EXTENDS Naturals, Sequences

\* The state of a loop before each element of the sequence and after the last:
\* state[n] is that after n elements.
Loop(Step(_, _), start, seq) ==
  LET state[n \in 0..Len(seq)] == IF n = 0 THEN start ELSE Step(state[n-1], seq[n])
  IN  state

\* The state it ends in.
LoopEnd(Step(_, _), start, seq) == Loop(Step, start, seq)[Len(seq)]
=============================================================================
