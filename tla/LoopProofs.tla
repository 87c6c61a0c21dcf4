----------------------------- MODULE LoopProofs -----------------------------
(***************************************************************************)
(* Induction, and what it says of loops over a sequence (module Loops).    *)
(*                                                                         *)
(* The principles are stated for a set instead of a predicate and for a    *)
(* function instead of an operator, which first-order provers can          *)
(* instantiate.                                                            *)
(***************************************************************************)
EXTENDS Loops, Integers, SequenceTheorems, WellFoundedInduction, TLAPS

\* Every nonempty set of natural numbers has a least element.
LEMMA LeastNatural ==
  ASSUME NEW T, T \subseteq Nat, T # {}
  PROVE  \E n \in T : \A m \in T : n <= m
<1>1. PICK n \in T : \A m \in T : ~ (<<m, n>> \in OpToRel(<, Nat))
  BY WFMin, NatLessThanWellFounded
<1>2. \A m \in T : ~(m < n)
  BY <1>1 DEF OpToRel
<1> QED BY <1>2

\* Induction up to a bound.
LEMMA InductionUpTo ==
  ASSUME NEW N \in Nat, NEW S, 0 \in S, \A n \in 1..N : n - 1 \in S => n \in S
  PROVE  0..N \subseteq S
<1> SUFFICES ASSUME NEW x \in 0..N, x \notin S PROVE FALSE
  OBVIOUS
<1> DEFINE T == (0..N) \ S
<1>1. T \subseteq Nat /\ T # {}
  OBVIOUS
<1>2. PICK n \in T : \A m \in T : n <= m
  <2> HIDE DEF T
  <2> QED BY <1>1, LeastNatural
<1>3. n \in 1..N /\ n - 1 \in 0..N
  BY <1>2
<1>4. n - 1 \notin T
  BY <1>2, <1>3
<1> QED BY <1>2, <1>3, <1>4

\* The body of a loop as a function of the state and the element.
StepFunction(T, W) == [T \X W -> T]
OneStep(step, t, w)  == step[<<t, w>>]

\* g is the run of a loop with this step function: its state after each element.
IsRun(g, start, step, seq) ==
  g = [n \in 0..Len(seq) |-> IF n = 0 THEN start ELSE OneStep(step, g[n-1], seq[n])]

\* A step function defines the run of a loop: the functions that follow it for n
\* elements exist for every n.
LEMMA RunExists ==
  ASSUME NEW T, NEW W, NEW start \in T, NEW step \in StepFunction(T, W), NEW seq \in Seq(W)
  PROVE  \E g \in [0..Len(seq) -> T] : IsRun(g, start, step, seq)
<1> DEFINE Follows(g, m) == \A n \in 0..m :
             g[n] = IF n = 0 THEN start ELSE OneStep(step, g[n-1], seq[n])
           S == {m \in 0..Len(seq) : \E g \in [0..m -> T] : Follows(g, m)}
<1>0. Len(seq) \in Nat /\ \A n \in 1..Len(seq) : seq[n] \in W
  BY LenProperties, ElementOfSeq
<1>1. 0 \in S
  <2>1. [n \in 0..0 |-> start] \in [0..0 -> T] /\ Follows([n \in 0..0 |-> start], 0)
    OBVIOUS
  <2> HIDE DEF Follows
  <2>2. \E g \in [0..0 -> T] : Follows(g, 0)
    BY <2>1
  <2> QED BY <1>0, <2>2
<1>2. ASSUME NEW m \in 1..Len(seq), m - 1 \in S PROVE m \in S
  <2>1. PICK g \in [0..m-1 -> T] : Follows(g, m-1)
    BY <1>2
  <2> DEFINE h == [n \in 0..m |-> IF n = m THEN OneStep(step, g[m-1], seq[m]) ELSE g[n]]
  <2>2. m - 1 \in 0..m-1 /\ g[m-1] \in T /\ seq[m] \in W
    BY <1>0, <2>1
  <2>3. h \in [0..m -> T]
    <3>1. OneStep(step, g[m-1], seq[m]) \in T
      BY <2>2 DEF StepFunction, OneStep
    <3>2. \A n \in 0..m : n # m => n \in 0..m-1
      OBVIOUS
    <3> QED BY <2>1, <3>1, <3>2
  <2>4. Follows(h, m)
    <3> SUFFICES ASSUME NEW n \in 0..m
                 PROVE  h[n] = IF n = 0 THEN start ELSE OneStep(step, h[n-1], seq[n])
      OBVIOUS
    <3>1. CASE n = 0
      <4>1. 0 # m /\ 0 \in 0..m-1 /\ 0 \in 0..m
        OBVIOUS
      <4>2. g[0] = start
        BY <2>1, <4>1
      <4>3. h[0] = g[0]
        BY <4>1
      <4> QED BY <3>1, <4>2, <4>3
    <3>2. CASE n \in 1..m-1
      <4>1. n \in 0..m-1 /\ n - 1 \in 0..m-1 /\ n # m /\ n - 1 # m /\ n # 0
        BY <3>2
      <4>2. h[n] = g[n] /\ h[n-1] = g[n-1]
        BY <4>1
      <4>3. g[n] = OneStep(step, g[n-1], seq[n])
        BY <2>1, <4>1
      <4> QED BY <4>1, <4>2, <4>3
    <3>3. CASE n = m
      <4>1. h[m] = OneStep(step, g[m-1], seq[m]) /\ h[m-1] = g[m-1] /\ m # 0
        <5>1. m - 1 \in 0..m /\ m - 1 # m
          OBVIOUS
        <5> QED BY <5>1
      <4> QED BY <3>3, <4>1
    <3> QED BY <3>1, <3>2, <3>3
  <2> HIDE DEF Follows, h
  <2>5. \E k \in [0..m -> T] : Follows(k, m)
    BY <2>3, <2>4
  <2> QED BY <1>0, <2>5
<1>3. Len(seq) \in S
  <2> HIDE DEF S
  <2>1. 0..Len(seq) \subseteq S
    BY <1>0, <1>1, <1>2, InductionUpTo
  <2> QED BY <1>0, <2>1
<1>4. PICK g \in [0..Len(seq) -> T] : Follows(g, Len(seq))
  BY <1>3
<1>5. IsRun(g, start, step, seq)
  BY <1>4 DEF IsRun
<1> QED BY <1>5

\* Induction over sequences: from the empty one, an element at a time.
LEMMA SeqInduction ==
  ASSUME NEW W, NEW S, <<>> \in S, \A s \in Seq(W), w \in W : s \in S => Append(s, w) \in S
  PROVE  Seq(W) \subseteq S
<1> SUFFICES ASSUME NEW seq \in Seq(W) PROVE seq \in S
  OBVIOUS
<1> DEFINE L == {n \in 0..Len(seq) : \A s \in Seq(W) : Len(s) = n => s \in S}
<1>0. Len(seq) \in Nat
  BY LenProperties
<1>1. 0 \in L
  BY <1>0, EmptySeq
<1>2. ASSUME NEW n \in 1..Len(seq), n - 1 \in L PROVE n \in L
  <2> SUFFICES ASSUME NEW t \in Seq(W), Len(t) = n PROVE t \in S
    OBVIOUS
  <2>1. t # <<>>
    BY EmptySeq
  <2>2. PICK s \in Seq(W), w \in W : t = Append(s, w)
    BY <2>1, SequenceEmptyOrAppend
  <2>3. Len(t) = Len(s) + 1 /\ Len(s) \in Nat
    BY <2>2, AppendProperties, LenProperties
  <2>4. Len(s) = n - 1
    BY <2>3
  <2> QED BY <1>2, <2>2, <2>4
<1> HIDE DEF L
<1>3. Len(seq) \in L
  <2>1. 0..Len(seq) \subseteq L
    BY <1>0, <1>1, <1>2, InductionUpTo
  <2> QED BY <1>0, <2>1
<1> QED BY <1>3 DEF L

\* The run of a loop over a sequence, element by element.
LEMMA RunUnique ==
  ASSUME NEW W, NEW start, NEW step, NEW seq \in Seq(W), NEW w \in W,
         NEW g, IsRun(g, start, step, seq), NEW h, IsRun(h, start, step, Append(seq, w))
  PROVE  h[Len(Append(seq, w))] = OneStep(step, g[Len(seq)], w)
<1> DEFINE long == Append(seq, w)
           S    == {n \in 0..Len(seq) : h[n] = g[n]}
<1>0. /\ Len(seq) \in Nat /\ Len(long) = Len(seq) + 1 /\ long[Len(seq) + 1] = w
      /\ \A n \in 1..Len(seq) : long[n] = seq[n]
  BY LenProperties, AppendProperties
<1> USE DEF IsRun
<1>1. 0 \in S
  <2>1. 0 \in 0..Len(seq) /\ 0 \in 0..Len(long)
    BY <1>0
  <2>2. g[0] = start /\ h[0] = start
    BY <2>1
  <2> QED BY <2>1, <2>2
<1>2. ASSUME NEW n \in 1..Len(seq), n - 1 \in S PROVE n \in S
  <2>1. n \in 0..Len(seq) /\ n \in 0..Len(long) /\ n # 0
    BY <1>0
  <2>2. g[n] = OneStep(step, g[n-1], seq[n]) /\ h[n] = OneStep(step, h[n-1], long[n])
    BY <2>1
  <2>3. h[n-1] = g[n-1] /\ long[n] = seq[n]
    BY <1>0, <1>2
  <2> QED BY <2>1, <2>2, <2>3
<1>3. h[Len(seq)] = g[Len(seq)]
  <2>1. 0..Len(seq) \subseteq S
    <3> HIDE DEF S
    <3> QED BY <1>0, <1>1, <1>2, InductionUpTo
  <2>2. Len(seq) \in S
    <3> HIDE DEF S
    <3> QED BY <1>0, <2>1
  <2> QED BY <2>2
<1>4. Len(long) \in 0..Len(long) /\ Len(long) # 0 /\ Len(long) - 1 = Len(seq)
  BY <1>0
<1>5. h[Len(long)] = OneStep(step, h[Len(long) - 1], long[Len(long)])
  BY <1>4
<1> QED BY <1>0, <1>3, <1>4, <1>5

\* e takes these steps as long as it is in T.
Takes(e, T, start, step, seq) ==
  e[0] = start /\ \A n \in 1..Len(seq) : e[n-1] \in T => e[n] = OneStep(step, e[n-1], seq[n])

\* Whatever takes the same steps ends where the run ends.
LEMMA RunIs ==
  ASSUME NEW T, NEW W, NEW start \in T, NEW step \in StepFunction(T, W), NEW seq \in Seq(W),
         NEW g \in [0..Len(seq) -> T], IsRun(g, start, step, seq),
         NEW e, Takes(e, T, start, step, seq)
  PROVE  e[Len(seq)] = g[Len(seq)]
<1> USE DEF Takes
<1> DEFINE S == {n \in 0..Len(seq) : e[n] = g[n]}
<1>0. Len(seq) \in Nat
  BY LenProperties
<1>1. 0 \in S
  <2>1. 0 \in 0..Len(seq)
    BY <1>0
  <2> QED BY <2>1 DEF IsRun
<1>2. ASSUME NEW n \in 1..Len(seq), n - 1 \in S PROVE n \in S
  <2>1. n \in 0..Len(seq) /\ n # 0 /\ n - 1 \in 0..Len(seq)
    BY <1>0
  <2>2. g[n] = OneStep(step, g[n-1], seq[n]) /\ g[n-1] \in T
    BY <2>1 DEF IsRun
  <2>3. e[n-1] = g[n-1]
    BY <1>2
  <2> QED BY <2>1, <2>2, <2>3
<1>3. Len(seq) \in S
  <2> HIDE DEF S
  <2>1. 0..Len(seq) \subseteq S
    BY <1>0, <1>1, <1>2, InductionUpTo
  <2> QED BY <1>0, <2>1
<1> QED BY <1>3

\* What a loop with this step function comes to, as a function of the sequence.
LEMMA RunEnds ==
  ASSUME NEW T, NEW W, NEW start \in T, NEW step \in StepFunction(T, W)
  PROVE  \E R \in [Seq(W) -> T] :
           /\ R[<<>>] = start
           /\ \A s \in Seq(W), w \in W : R[Append(s, w)] = OneStep(step, R[s], w)
           /\ \A s \in Seq(W) : \E g \in [0..Len(s) -> T] :
                IsRun(g, start, step, s) /\ R[s] = g[Len(s)]
<1> DEFINE Run(s) == CHOOSE g : g \in [0..Len(s) -> T] /\ IsRun(g, start, step, s)
           R      == [s \in Seq(W) |-> Run(s)[Len(s)]]
<1>1. ASSUME NEW s \in Seq(W)
      PROVE  Run(s) \in [0..Len(s) -> T] /\ IsRun(Run(s), start, step, s)
  <2>1. \E g \in [0..Len(s) -> T] : IsRun(g, start, step, s)
    BY RunExists
  <2> QED BY <2>1
<1>2. \A s \in Seq(W) : Len(s) \in Nat
  BY LenProperties
<1> HIDE DEF Run
<1>3. R \in [Seq(W) -> T]
  <2>1. ASSUME NEW s \in Seq(W) PROVE Run(s)[Len(s)] \in T
    <3>1. Len(s) \in 0..Len(s)
      BY <1>2
    <3>2. Run(s) \in [0..Len(s) -> T]
      BY <1>1
    <3> QED BY <3>1, <3>2
  <2> QED BY <2>1
<1>4. R[<<>>] = start
  <2>1. <<>> \in Seq(W) /\ Len(<<>>) = 0
    BY EmptySeq
  <2>2. R[<<>>] = Run(<<>>)[0]
    BY <2>1
  <2> DEFINE empty == <<>>
  <2>3. IsRun(Run(empty), start, step, empty) /\ 0 \in 0..Len(empty)
    <3>1. 0 \in 0..Len(empty)
      BY <2>1
    <3>2. empty \in Seq(W)
      BY <2>1
    <3> HIDE DEF empty
    <3> QED BY <1>1, <3>1, <3>2
  <2>4. Run(<<>>)[0] = start
    BY <2>3 DEF IsRun
  <2> QED BY <2>2, <2>4
<1>5. ASSUME NEW s \in Seq(W), NEW w \in W
      PROVE  R[Append(s, w)] = OneStep(step, R[s], w)
  <2>1. Append(s, w) \in Seq(W)
    BY AppendProperties
  <2>2. IsRun(Run(s), start, step, s) /\ IsRun(Run(Append(s, w)), start, step, Append(s, w))
    BY <1>1, <2>1
  <2>3. Run(Append(s, w))[Len(Append(s, w))] = OneStep(step, Run(s)[Len(s)], w)
    <3>1. PICK g, h, f : g = Run(s) /\ h = Run(Append(s, w)) /\ f = step
      OBVIOUS
    <3>2. IsRun(g, start, f, s) /\ IsRun(h, start, f, Append(s, w))
      BY <2>2, <3>1
    <3>3. h[Len(Append(s, w))] = OneStep(f, g[Len(s)], w)
      BY <3>2, RunUnique
    <3> QED BY <3>1, <3>3
  <2> QED BY <2>1, <2>3
<1>6. ASSUME NEW s \in Seq(W)
      PROVE  \E g \in [0..Len(s) -> T] : IsRun(g, start, step, s) /\ R[s] = g[Len(s)]
  <2>1. R[s] = Run(s)[Len(s)]
    OBVIOUS
  <2> QED BY <1>1, <2>1
<1> HIDE DEF R
<1> QED BY <1>3, <1>4, <1>5, <1>6
=============================================================================
