-------------------------- MODULE ArgumentsProofs --------------------------
(***************************************************************************)
(* Theorems about the parsing of requests (module Arguments): what a user  *)
(* has said is what the server is asked for, for every alphabet, however   *)
(* many flags and words there are and in whatever order they come.         *)
(***************************************************************************)
EXTENDS Inspection, CommandLineProofs, LoopProofs

USE CommandLineAssumption, ArgumentsAssumption, InspectionAssumption

----------------------------------------------------------------------------
(* The loops, a word at a time. *)

Words == Seq(Text) \ {<<>>}

Command == DOMAIN Valued

ArgState(c) == [want : Valued[c] \cup {""}, val : [Flag -> Seq(Seq(Text))],
                on : SUBSET Switches(c), pos : Seq(Words), bad : BOOLEAN]

ArgsLoop(c, ws) == LoopEnd(LAMBDA t, w : TakeArg(c, t, w), NoArgs, ws)

\* Each command's flags are flags.
LEMMA FlagsAreFlags ==
  ASSUME NEW c \in Command
  PROVE  Valued[c] \subseteq Flag
BY DEF Command, Flag

\* The file and the line of a word.
LEMMA PartsOfWord ==
  ASSUME NEW w \in Seq(Text), At(w)
  PROVE  FileOf(w) \in Seq(Text) /\ LineOf(w) \in Seq(Text)
<1>1. PICK k \in DOMAIN w : w[k] = ":"
  BY DEF At, ToSet
<1>2. DOMAIN w = 1..Len(w) /\ Len(w) \in Nat /\ \A i \in 1..Len(w) : w[i] \in Text
  BY LenProperties, ElementOfSeq
<1> DEFINE T == {i \in DOMAIN w : w[i] = ":"}
<1>3. PICK i \in T : \A j \in T : i <= j
  <2>1. T \subseteq Nat /\ T # {}
    BY <1>1, <1>2
  <2> HIDE DEF T
  <2> QED BY <2>1, LeastNatural
<1>4. i \in DOMAIN w /\ w[i] = ":" /\ \A j \in 1..i-1 : w[j] # ":"
  BY <1>2, <1>3
<1>5. Colon(w) \in 1..Len(w)
  BY <1>2, <1>4 DEF Colon
<1>6. /\ \A j \in 1..Colon(w)-1 : w[j] \in Text
      /\ \A j \in Colon(w)+1..Len(w) : w[j] \in Text
  BY <1>2, <1>5
<1>7. 1 \in Int /\ Colon(w) - 1 \in Int /\ Colon(w) + 1 \in Int /\ Len(w) \in Int
  BY <1>2, <1>5
<1> QED BY <1>6, <1>7, SubSeqProperties DEF FileOf, LineOf

\* The body of the loop over the arguments keeps to its variables' types.
LEMMA TakeArgType ==
  ASSUME NEW c \in Command, NEW s \in ArgState(c), NEW w \in Words
  PROVE  TakeArg(c, s, w) \in ArgState(c)
<1>1. Value(s, w) \in ArgState(c) \/ s.want = ""
  <2>1. CASE s.want # ""
    <3>1. s.want \in Flag
      BY <2>1, FlagsAreFlags DEF ArgState
    <3>2. Append(s.val[s.want], w) \in Seq(Seq(Text))
      BY <3>1, AppendProperties DEF ArgState, Words
    <3>3. Refuses(s.want, w) \in BOOLEAN
      BY DEF Refuses
    <3> QED BY <3>1, <3>2, <3>3 DEF ArgState, Value
  <2> QED BY <2>1
<1>2. Stray(c, s, w) \in ArgState(c)
  <2>1. Append(s.pos, w) \in Seq(Words)
    BY AppendProperties DEF ArgState
  <2>2. [s EXCEPT !.pos = Append(@, w)] \in ArgState(c)
    BY <2>1 DEF ArgState
  <2>3. [s EXCEPT !.bad = TRUE] \in ArgState(c)
    BY DEF ArgState
  <2>4. ASSUME At(w)
        PROVE  [s EXCEPT !.val["--file"] = Append(@, FileOf(w)),
                         !.val["--line"] = Append(@, LineOf(w))] \in ArgState(c)
    <3>1. "--file" \in Flag /\ "--line" \in Flag
      BY DEF Flag, Valued
    <3>2. /\ Append(s.val["--file"], FileOf(w)) \in Seq(Seq(Text))
          /\ Append(s.val["--line"], LineOf(w)) \in Seq(Seq(Text))
      BY <2>4, <3>1, PartsOfWord, AppendProperties DEF ArgState, Words
    <3> QED BY <3>1, <3>2 DEF ArgState
  <2>5. c \in {"bp", "stack", "locals", "eval", "goroutine", "source", "attach"}
    BY DEF Command, Valued
  <2> QED BY <2>2, <2>3, <2>4, <2>5 DEF Stray
<1>3. ASSUME IsFlag(w, Valued[c]) PROVE [s EXCEPT !.want = w[1]] \in ArgState(c)
  BY <1>3 DEF ArgState, IsFlag
<1>4. ASSUME IsFlag(w, Switches(c)) PROVE [s EXCEPT !.on = @ \cup {w[1]}] \in ArgState(c)
  BY <1>4 DEF ArgState, IsFlag
<1> QED BY <1>1, <1>2, <1>3, <1>4 DEF TakeArg

\* The loop starts with nothing, takes one word after the other and keeps to its
\* types.
LEMMA ArgsRun ==
  ASSUME NEW c \in Command
  PROVE  /\ ArgsLoop(c, <<>>) = NoArgs
         /\ \A ws \in Seq(Words) :
              /\ ArgsLoop(c, ws) \in ArgState(c)
              /\ \A w \in Words : ArgsLoop(c, Append(ws, w)) = TakeArg(c, ArgsLoop(c, ws), w)
<1> DEFINE T    == ArgState(c)
           step == [p \in T \X Words |-> TakeArg(c, p[1], p[2])]
<1>1. NoArgs \in T
  <2>1. <<>> \in Seq(Seq(Text)) /\ <<>> \in Seq(Words)
    OBVIOUS
  <2> QED BY <2>1 DEF NoArgs, ArgState
<1>2. /\ step \in StepFunction(T, Words)
      /\ \A t \in T, w \in Words : OneStep(step, t, w) = TakeArg(c, t, w)
  <2>1. \A p \in T \X Words : TakeArg(c, p[1], p[2]) \in T
    BY TakeArgType
  <2> HIDE DEF T
  <2> QED BY <2>1 DEF StepFunction, OneStep
<1> HIDE DEF T, step
<1>3. PICK R \in [Seq(Words) -> T] :
        /\ R[<<>>] = NoArgs
        /\ \A s \in Seq(Words), w \in Words : R[Append(s, w)] = OneStep(step, R[s], w)
        /\ \A s \in Seq(Words) : \E g \in [0..Len(s) -> T] :
             IsRun(g, NoArgs, step, s) /\ R[s] = g[Len(s)]
  BY <1>1, <1>2, RunEnds
<1>4. ASSUME NEW s \in Seq(Words) PROVE ArgsLoop(c, s) = R[s]
  <2> DEFINE Follows(g) == g = [n \in 0..Len(s) |->
                                  IF n = 0 THEN NoArgs ELSE TakeArg(c, g[n-1], s[n])]
             end == CHOOSE g : Follows(g)
  <2>0. Len(s) \in Nat /\ \A n \in 1..Len(s) : s[n] \in Words
    BY LenProperties, ElementOfSeq
  <2>1. PICK g \in [0..Len(s) -> T] : IsRun(g, NoArgs, step, s) /\ R[s] = g[Len(s)]
    BY <1>3
  <2>2. Follows(end)
    <3>1. \A n \in 0..Len(s) : g[n] = IF n = 0 THEN NoArgs ELSE TakeArg(c, g[n-1], s[n])
      <4> SUFFICES ASSUME NEW n \in 0..Len(s)
                   PROVE  g[n] = IF n = 0 THEN NoArgs ELSE TakeArg(c, g[n-1], s[n])
        OBVIOUS
      <4>1. g[n] = IF n = 0 THEN NoArgs ELSE OneStep(step, g[n-1], s[n])
        BY <2>1 DEF IsRun
      <4>2. n # 0 => g[n-1] \in T /\ s[n] \in Words
        <5>1. n # 0 => n - 1 \in 0..Len(s) /\ n \in 1..Len(s)
          BY <2>0
        <5> QED BY <2>0, <5>1
      <4> QED BY <1>2, <4>1, <4>2
    <3>2. Follows(g)
      BY <3>1
    <3> HIDE DEF Follows
    <3> QED BY <3>2
  <2>3. ArgsLoop(c, s) = end[Len(s)]
    BY DEF ArgsLoop, LoopEnd, Loop
  <2> HIDE DEF end
  <2>4. end[0] = NoArgs /\ \A n \in 1..Len(s) : end[n] = TakeArg(c, end[n-1], s[n])
    BY <2>0, <2>2
  <2>5. Takes(end, T, NoArgs, step, s)
    BY <1>2, <2>0, <2>4 DEF Takes
  <2> HIDE DEF Follows
  <2>6. end[Len(s)] = g[Len(s)]
    BY <1>1, <1>2, <2>1, <2>5, RunIs
  <2> QED BY <2>1, <2>3, <2>6
<1>5. \A ws \in Seq(Words), w \in Words : Append(ws, w) \in Seq(Words)
  BY AppendProperties
<1>6. <<>> \in Seq(Words)
  BY EmptySeq
<1>7. \A ws \in Seq(Words) : R[ws] \in T
  BY <1>3
<1>8. \A ws \in Seq(Words), w \in Words :
        ArgsLoop(c, Append(ws, w)) = TakeArg(c, ArgsLoop(c, ws), w)
  BY <1>2, <1>3, <1>4, <1>5, <1>7
<1>9. \A ws \in Seq(Words) : ArgsLoop(c, ws) \in ArgState(c)
  BY <1>4, <1>7 DEF T
<1>10. ArgsLoop(c, <<>>) = NoArgs
  BY <1>3, <1>4, <1>6
<1> QED BY <1>8, <1>9, <1>10

----------------------------------------------------------------------------
(* Numbers. *)

Numeral == {"0", "1", "2", "3", "4"}

Figure(d)        == (CHOOSE i \in DOMAIN Digit : Digit[i] = d) - 1
MagnitudeLoop(v) == LoopEnd(LAMBDA n, d : 10 * n + Figure(d), 0, v)

\* What each digit counts.
LEMMA Figures ==
  /\ Figure("0") = 0 /\ Figure("1") = 1 /\ Figure("2") = 2 /\ Figure("3") = 3 /\ Figure("4") = 4
  /\ \A d \in Numeral : Figure(d) \in Nat
<1>1. /\ DOMAIN Digit = 1..5
      /\ Digit[1] = "0" /\ Digit[2] = "1" /\ Digit[3] = "2" /\ Digit[4] = "3" /\ Digit[5] = "4"
  BY DEF Digit
<1>2. \A i \in 1..5 : i = 1 \/ i = 2 \/ i = 3 \/ i = 4 \/ i = 5
  OBVIOUS
<1>3. Figure("0") = 0
  BY <1>1, <1>2 DEF Figure
<1>4. Figure("1") = 1
  BY <1>1, <1>2 DEF Figure
<1>5. Figure("2") = 2
  BY <1>1, <1>2 DEF Figure
<1>6. Figure("3") = 3
  BY <1>1, <1>2 DEF Figure
<1>7. Figure("4") = 4
  BY <1>1, <1>2 DEF Figure
<1> QED BY <1>3, <1>4, <1>5, <1>6, <1>7 DEF Numeral

\* The loop over the digits of a number.
LEMMA MagnitudeRun ==
  /\ MagnitudeLoop(<<>>) = 0
  /\ \A v \in Seq(Numeral) :
       /\ MagnitudeLoop(v) \in Nat
       /\ \A d \in Numeral : MagnitudeLoop(Append(v, d)) = 10 * MagnitudeLoop(v) + Figure(d)
<1> DEFINE T    == Nat
           zero == 0
           step == [p \in Nat \X Numeral |-> 10 * p[1] + Figure(p[2])]
<1>1. zero \in T
  OBVIOUS
<1>2. /\ step \in StepFunction(T, Numeral)
      /\ \A t \in Nat, d \in Numeral : OneStep(step, t, d) = 10 * t + Figure(d)
  <2>1. \A p \in Nat \X Numeral : 10 * p[1] + Figure(p[2]) \in Nat
    BY Figures
  <2> QED BY <2>1 DEF StepFunction, OneStep
<1> HIDE DEF T, zero, step
<1>3. PICK R \in [Seq(Numeral) -> T] :
        /\ R[<<>>] = zero
        /\ \A s \in Seq(Numeral), d \in Numeral : R[Append(s, d)] = OneStep(step, R[s], d)
        /\ \A s \in Seq(Numeral) : \E g \in [0..Len(s) -> T] :
             IsRun(g, zero, step, s) /\ R[s] = g[Len(s)]
  BY <1>1, <1>2, RunEnds
<1>4. ASSUME NEW s \in Seq(Numeral) PROVE MagnitudeLoop(s) = R[s]
  <2> DEFINE Follows(g) == g = [n \in 0..Len(s) |->
                                  IF n = 0 THEN 0 ELSE 10 * g[n-1] + Figure(s[n])]
             end == CHOOSE g : Follows(g)
  <2>0. Len(s) \in Nat /\ \A n \in 1..Len(s) : s[n] \in Numeral
    BY LenProperties, ElementOfSeq
  <2>1. PICK g \in [0..Len(s) -> T] : IsRun(g, zero, step, s) /\ R[s] = g[Len(s)]
    BY <1>3
  <2>2. Follows(end)
    <3>1. \A n \in 0..Len(s) : g[n] = IF n = 0 THEN 0 ELSE 10 * g[n-1] + Figure(s[n])
      <4> SUFFICES ASSUME NEW n \in 0..Len(s)
                   PROVE  g[n] = IF n = 0 THEN 0 ELSE 10 * g[n-1] + Figure(s[n])
        OBVIOUS
      <4>1. g[n] = IF n = 0 THEN 0 ELSE OneStep(step, g[n-1], s[n])
        BY <2>1 DEF IsRun, zero
      <4>2. n # 0 => g[n-1] \in Nat /\ s[n] \in Numeral
        <5>1. n # 0 => n - 1 \in 0..Len(s) /\ n \in 1..Len(s)
          BY <2>0
        <5> QED BY <2>0, <2>1, <5>1 DEF T
      <4> QED BY <1>2, <4>1, <4>2
    <3>2. Follows(g)
      BY <3>1
    <3> HIDE DEF Follows
    <3> QED BY <3>2
  <2>3. MagnitudeLoop(s) = end[Len(s)]
    BY DEF MagnitudeLoop, LoopEnd, Loop
  <2> HIDE DEF end
  <2>4. end[0] = 0 /\ \A n \in 1..Len(s) : end[n] = 10 * end[n-1] + Figure(s[n])
    BY <2>0, <2>2
  <2>5. Takes(end, T, zero, step, s)
    BY <1>2, <2>0, <2>4 DEF Takes, T, zero
  <2> HIDE DEF Follows
  <2>6. end[Len(s)] = g[Len(s)]
    BY <1>1, <1>2, <2>1, <2>5, RunIs
  <2> QED BY <2>1, <2>3, <2>6
<1>5. \A v \in Seq(Numeral), d \in Numeral : Append(v, d) \in Seq(Numeral)
  BY AppendProperties
<1>6. <<>> \in Seq(Numeral)
  BY EmptySeq
<1>7. \A v \in Seq(Numeral) : R[v] \in Nat
  BY <1>3 DEF T
<1>8. \A v \in Seq(Numeral), d \in Numeral :
        MagnitudeLoop(Append(v, d)) = 10 * MagnitudeLoop(v) + Figure(d)
  <2> SUFFICES ASSUME NEW v \in Seq(Numeral), NEW d \in Numeral
               PROVE  MagnitudeLoop(Append(v, d)) = 10 * MagnitudeLoop(v) + Figure(d)
    OBVIOUS
  <2>1. MagnitudeLoop(Append(v, d)) = OneStep(step, R[v], d) /\ MagnitudeLoop(v) = R[v]
    BY <1>3, <1>4, <1>5
  <2> QED BY <1>2, <1>7, <2>1
<1> QED BY <1>3, <1>4, <1>6, <1>7, <1>8 DEF zero

\* Atoi returns a number whatever it is given.
LEMMA AtoiNumber ==
  ASSUME NEW w \in Seq(Text)
  PROVE  Atoi(w) \in Int
<1>1. ASSUME IsNumber(w)
      PROVE  Digits(w) \in Seq(Numeral) /\ w # <<>>
  <2>1. w # <<>> /\ Digits(w) \in Seq(Text)
    BY <1>1, HeadTailProperties DEF IsNumber, Digits
  <2>2. ToSet(Digit) \subseteq Numeral
    BY DEF ToSet, Digit, Numeral
  <2>3. \A i \in 1..Len(Digits(w)) : Digits(w)[i] \in Numeral
    <3>1. DOMAIN Digits(w) = 1..Len(Digits(w))
      BY <2>1, LenProperties
    <3> QED BY <1>1, <2>2, <3>1 DEF IsNumber, ToSet
  <2>4. Digits(w) \in [1..Len(Digits(w)) -> Numeral] /\ Len(Digits(w)) \in Nat
    BY <2>1, <2>3, LenProperties
  <2> QED BY <2>1, <2>4, SeqDef
<1>2. CASE ~IsNumber(w)
  <2>1. Atoi(w) = 0
    BY <1>2, Zenon DEF Atoi
  <2> QED BY <2>1
<1>3. CASE IsNumber(w) /\ w[1] = "-"
  <2>1. Atoi(w) = 0 - MagnitudeLoop(Tail(w))
    BY <1>3 DEF Atoi, MagnitudeLoop, Figure
  <2>2. Tail(w) \in Seq(Numeral)
    BY <1>1, <1>3 DEF Digits
  <2>3. MagnitudeLoop(Tail(w)) \in Nat
    BY <2>2, MagnitudeRun
  <2> QED BY <2>1, <2>3
<1>4. CASE IsNumber(w) /\ w[1] # "-"
  <2>1. Atoi(w) = MagnitudeLoop(w)
    BY <1>4 DEF Atoi, MagnitudeLoop, Figure
  <2>2. w \in Seq(Numeral)
    BY <1>1, <1>4 DEF Digits
  <2> QED BY <2>1, <2>2, MagnitudeRun
<1> QED BY <1>2, <1>3, <1>4

----------------------------------------------------------------------------
(* The places of a breakpoint. *)

PlaceState == [file : Seq(Text), line : Int, function : Seq(Text), bad : BOOLEAN]

PlaceLoop(start, ws) == LoopEnd(Place, start, ws)

\* The body of the loop over the positionals keeps to its variables' types.
LEMMA PlaceType ==
  ASSUME NEW p \in PlaceState, NEW w \in Words
  PROVE  Place(p, w) \in PlaceState
<1>1. w \in Seq(Text) /\ Atoi(w) \in Int
  BY AtoiNumber DEF Words
<1>2. ASSUME At(w)
      PROVE  FileOf(w) \in Seq(Text) /\ Atoi(LineOf(w)) \in Int
  BY <1>1, <1>2, PartsOfWord, AtoiNumber
<1> QED BY <1>1, <1>2 DEF Place, PlaceState

\* The loop places one word after the other and keeps to its types.
LEMMA PlaceRun ==
  ASSUME NEW start \in PlaceState
  PROVE  /\ PlaceLoop(start, <<>>) = start
         /\ \A ws \in Seq(Words) :
              /\ PlaceLoop(start, ws) \in PlaceState
              /\ \A w \in Words : PlaceLoop(start, Append(ws, w)) = Place(PlaceLoop(start, ws), w)
<1> DEFINE T    == PlaceState
           step == [p \in T \X Words |-> Place(p[1], p[2])]
<1>1. start \in T
  OBVIOUS
<1>2. /\ step \in StepFunction(T, Words)
      /\ \A t \in T, w \in Words : OneStep(step, t, w) = Place(t, w)
  <2>1. \A p \in T \X Words : Place(p[1], p[2]) \in T
    BY PlaceType
  <2> HIDE DEF T
  <2> QED BY <2>1 DEF StepFunction, OneStep
<1> HIDE DEF T, step
<1>3. PICK R \in [Seq(Words) -> T] :
        /\ R[<<>>] = start
        /\ \A s \in Seq(Words), w \in Words : R[Append(s, w)] = OneStep(step, R[s], w)
        /\ \A s \in Seq(Words) : \E g \in [0..Len(s) -> T] :
             IsRun(g, start, step, s) /\ R[s] = g[Len(s)]
  BY <1>1, <1>2, RunEnds
<1>4. ASSUME NEW s \in Seq(Words) PROVE PlaceLoop(start, s) = R[s]
  <2> DEFINE Follows(g) == g = [n \in 0..Len(s) |->
                                  IF n = 0 THEN start ELSE Place(g[n-1], s[n])]
             end == CHOOSE g : Follows(g)
  <2>0. Len(s) \in Nat /\ \A n \in 1..Len(s) : s[n] \in Words
    BY LenProperties, ElementOfSeq
  <2>1. PICK g \in [0..Len(s) -> T] : IsRun(g, start, step, s) /\ R[s] = g[Len(s)]
    BY <1>3
  <2>2. Follows(end)
    <3>1. \A n \in 0..Len(s) : g[n] = IF n = 0 THEN start ELSE Place(g[n-1], s[n])
      <4> SUFFICES ASSUME NEW n \in 0..Len(s)
                   PROVE  g[n] = IF n = 0 THEN start ELSE Place(g[n-1], s[n])
        OBVIOUS
      <4>1. g[n] = IF n = 0 THEN start ELSE OneStep(step, g[n-1], s[n])
        BY <2>1 DEF IsRun
      <4>2. n # 0 => g[n-1] \in T /\ s[n] \in Words
        <5>1. n # 0 => n - 1 \in 0..Len(s) /\ n \in 1..Len(s)
          BY <2>0
        <5> QED BY <2>0, <5>1
      <4> QED BY <1>2, <4>1, <4>2
    <3>2. Follows(g)
      BY <3>1
    <3> HIDE DEF Follows
    <3> QED BY <3>2
  <2>3. PlaceLoop(start, s) = end[Len(s)]
    BY DEF PlaceLoop, LoopEnd, Loop
  <2> HIDE DEF end
  <2>4. end[0] = start /\ \A n \in 1..Len(s) : end[n] = Place(end[n-1], s[n])
    BY <2>0, <2>2
  <2>5. Takes(end, T, start, step, s)
    BY <1>2, <2>0, <2>4 DEF Takes
  <2> HIDE DEF Follows
  <2>6. end[Len(s)] = g[Len(s)]
    BY <1>1, <1>2, <2>1, <2>5, RunIs
  <2> QED BY <2>1, <2>3, <2>6
<1>5. \A ws \in Seq(Words), w \in Words : Append(ws, w) \in Seq(Words)
  BY AppendProperties
<1>6. <<>> \in Seq(Words)
  BY EmptySeq
<1>7. \A ws \in Seq(Words) : R[ws] \in T
  BY <1>3
<1>8. \A ws \in Seq(Words), w \in Words :
        PlaceLoop(start, Append(ws, w)) = Place(PlaceLoop(start, ws), w)
  BY <1>2, <1>3, <1>4, <1>5, <1>7
<1>9. \A ws \in Seq(Words) : PlaceLoop(start, ws) \in PlaceState
  BY <1>4, <1>7 DEF T
<1>10. PlaceLoop(start, <<>>) = start
  BY <1>3, <1>4, <1>6
<1> QED BY <1>8, <1>9, <1>10

\* Where the loop has put a word: nothing else goes where a function is, and a
\* file keeps functions out. A line 0 counts as none.
Put(p, w) ==
  \/ p.function = w
  \/ /\ p.function = <<>> /\ p.file # <<>>
     /\ \/ IsNumber(w) /\ Atoi(w) \in {p.line, 0}
        \/ At(w) /\ p.file = FileOf(w) /\ Atoi(LineOf(w)) \in {p.line, 0}

\* A word that is placed leaves the ones before it where they are.
LEMMA PlaceKeeps ==
  ASSUME NEW p \in PlaceState, NEW w \in Words, ~Place(p, w).bad
  PROVE  ~p.bad /\ Put(Place(p, w), w) /\ \A v \in Words : Put(p, v) => Put(Place(p, w), v)
<1> DEFINE q == Place(p, w)
<1>1. ~p.bad /\ w # <<>> /\ w \in Seq(Text)
  BY DEF Place, Words
<1>2. CASE p.file = <<>> /\ p.function = <<>> /\ At(w) /\ FileOf(w) # <<>>
  <2>1. /\ q.file = FileOf(w) /\ q.line = Atoi(LineOf(w)) /\ q.function = <<>>
    BY <1>1, <1>2 DEF Place, PlaceState
  <2>2. Put(q, w)
    BY <1>2, <2>1 DEF Put
  <2>3. \A v \in Words : ~Put(p, v)
    BY <1>2 DEF Put, Words
  <2> QED BY <1>1, <2>2, <2>3
<1>3. CASE /\ ~(p.file = <<>> /\ p.function = <<>> /\ At(w) /\ FileOf(w) # <<>>)
           /\ p.line = 0 /\ p.file # <<>> /\ p.function = <<>> /\ IsNumber(w)
  <2>1. q.file = p.file /\ q.line = Atoi(w) /\ q.function = <<>>
    BY <1>1, <1>3 DEF Place, PlaceState
  <2>2. Put(q, w)
    BY <1>3, <2>1 DEF Put
  <2>3. \A v \in Words : Put(p, v) => Put(q, v)
    BY <1>3, <2>1 DEF Put, Words
  <2> QED BY <1>1, <2>2, <2>3
<1>4. CASE /\ ~(p.file = <<>> /\ p.function = <<>> /\ At(w) /\ FileOf(w) # <<>>)
           /\ ~(p.line = 0 /\ p.file # <<>> /\ p.function = <<>> /\ IsNumber(w))
           /\ p.function = <<>> /\ p.file = <<>>
  <2>1. q.function = w
    BY <1>1, <1>4 DEF Place, PlaceState
  <2>2. \A v \in Words : ~Put(p, v)
    BY <1>4 DEF Put, Words
  <2> QED BY <1>1, <2>1, <2>2 DEF Put
<1>5. CASE /\ ~(p.file = <<>> /\ p.function = <<>> /\ At(w) /\ FileOf(w) # <<>>)
           /\ ~(p.line = 0 /\ p.file # <<>> /\ p.function = <<>> /\ IsNumber(w))
           /\ ~(p.function = <<>> /\ p.file = <<>>)
  <2>1. q.bad
    BY <1>1, <1>5 DEF Place, PlaceState
  <2> QED BY <2>1
<1> QED BY <1>2, <1>3, <1>4, <1>5

\* When the loop ends without an error, every word has been put somewhere.
LEMMA AllPut ==
  ASSUME NEW start \in PlaceState, NEW ws \in Seq(Words), ~PlaceLoop(start, ws).bad
  PROVE  \A i \in 1..Len(ws) : Put(PlaceLoop(start, ws), ws[i])
<1> DEFINE All(vs) == ~PlaceLoop(start, vs).bad =>
                        \A i \in 1..Len(vs) : Put(PlaceLoop(start, vs), vs[i])
           S       == {vs \in Seq(Words) : All(vs)}
<1>1. <<>> \in S
  BY EmptySeq
<1>2. ASSUME NEW vs \in Seq(Words), NEW w \in Words, vs \in S PROVE Append(vs, w) \in S
  <2>1. /\ Append(vs, w) \in Seq(Words)
        /\ Len(Append(vs, w)) = Len(vs) + 1 /\ Append(vs, w)[Len(vs) + 1] = w
        /\ \A i \in 1..Len(vs) : Append(vs, w)[i] = vs[i]
        /\ Len(vs) \in Nat
    BY AppendProperties, LenProperties
  <2>2. /\ PlaceLoop(start, vs) \in PlaceState
        /\ PlaceLoop(start, Append(vs, w)) = Place(PlaceLoop(start, vs), w)
    BY PlaceRun
  <2>3. ASSUME ~PlaceLoop(start, Append(vs, w)).bad, NEW i \in 1..Len(vs) + 1
        PROVE  Put(PlaceLoop(start, Append(vs, w)), Append(vs, w)[i])
    <3>1. /\ ~PlaceLoop(start, vs).bad /\ Put(PlaceLoop(start, Append(vs, w)), w)
          /\ \A v \in Words : Put(PlaceLoop(start, vs), v) =>
                                Put(PlaceLoop(start, Append(vs, w)), v)
      BY <2>2, <2>3, PlaceKeeps
    <3>2. CASE i = Len(vs) + 1
      BY <2>1, <3>1, <3>2
    <3>3. CASE i \in 1..Len(vs)
      <4>1. vs[i] \in Words /\ Put(PlaceLoop(start, vs), vs[i])
        BY <1>2, <3>1, <3>3, ElementOfSeq
      <4> QED BY <2>1, <3>1, <3>3, <4>1
    <3> QED BY <2>1, <3>2, <3>3
  <2>4. All(Append(vs, w))
    BY <2>1, <2>3
  <2> HIDE DEF All
  <2> QED BY <2>1, <2>4
<1>3. ws \in S
  <2> HIDE DEF S
  <2>1. Seq(Words) \subseteq S
    BY <1>1, <1>2, SeqInduction
  <2> QED BY <2>1
<1> QED BY <1>3

\* What the loop over the arguments makes of any words.
LEMMA ArgsType ==
  ASSUME NEW c \in Command, NEW ws \in Seq(Words)
  PROVE  Args(c, ws) \in ArgState(c)
<1>1. ArgsLoop(c, ws) \in ArgState(c)
  BY ArgsRun
<1>2. Args(c, ws) = [ArgsLoop(c, ws) EXCEPT !.bad = @ \/ (c = "source"
                                                        /\ ArgsLoop(c, ws).want # "")]
  BY DEF Args, ArgsLoop
<1>3. (ArgsLoop(c, ws).bad \/ (c = "source" /\ ArgsLoop(c, ws).want # "")) \in BOOLEAN
  BY <1>1 DEF ArgState
<1> QED BY <1>1, <1>2, <1>3 DEF ArgState

\* The value a flag has got is text, if only none.
LEMMA GotType ==
  ASSUME NEW c \in Command, NEW s \in ArgState(c), NEW f \in Flag
  PROVE  Got(s, f) \in Seq(Text)
<1>1. s.val[f] \in Seq(Seq(Text))
  BY DEF ArgState
<1>2. CASE s.val[f] = <<>>
  BY <1>2 DEF Got
<1>3. CASE s.val[f] # <<>>
  <2>1. Len(s.val[f]) \in 1..Len(s.val[f])
    BY <1>1, <1>3, EmptySeq
  <2>2. s.val[f][Len(s.val[f])] \in Seq(Text)
    BY <1>1, <2>1, ElementOfSeq
  <2> QED BY <1>3, <2>2 DEF Got, Last
<1> QED BY <1>2, <1>3

\* What the flags say of the place.
LEMMA UnplacedType ==
  ASSUME NEW c \in Command, NEW s \in ArgState(c)
  PROVE  Unplaced(s) \in PlaceState
<1>1. "--file" \in Flag /\ "--line" \in Flag /\ "--function" \in Flag
  BY DEF Flag, Valued
<1>2. /\ Got(s, "--file") \in Seq(Text) /\ Got(s, "--function") \in Seq(Text)
      /\ Atoi(Got(s, "--line")) \in Int
  BY <1>1, GotType, AtoiNumber
<1> QED BY <1>2 DEF Unplaced, PlaceState, ArgState

\* Whatever words `bp add' is given: none of its positionals is passed over.
LEMMA NonePassedOver ==
  ASSUME NEW ws \in Seq(Words), NEW s, s = Args("bp", ws), BpRequest(s).ok,
         NEW i \in DOMAIN s.pos
  PROVE  LET b == BpRequest(s)
             w == s.pos[i]
         IN  \/ b.at.function = w
             \/ IsNumber(w) /\ Atoi(w) \in {b.at.line, 0}
             \/ At(w) /\ b.at.file = FileOf(w) /\ Atoi(LineOf(w)) \in {b.at.line, 0}
<1>1. "bp" \in Command /\ s \in ArgState("bp")
  <2>1. "bp" \in Command
    BY DEF Command, Valued
  <2> QED BY <2>1, ArgsType
<1>2. Unplaced(s) \in PlaceState /\ s.pos \in Seq(Words)
  BY <1>1, UnplacedType DEF ArgState
<1> DEFINE p == PlaceLoop(Unplaced(s), s.pos)
<1>3. Placed(s) = p
  BY DEF Placed, PlaceLoop
<1> HIDE DEF p
<1>4. /\ ~p.bad
      /\ BpRequest(s).at = Location(p)
  <2>1. BpRequest(s) = IF p.bad \/ (p.function = <<>> /\ (p.file = <<>> \/ p.line = 0))
                         THEN Usage
                         ELSE [ok |-> TRUE, at |-> Location(p), name |-> Got(s, "--name"),
                               cond |-> Got(s, "--cond"), hit |-> Got(s, "--hit-expr"),
                               on |-> s.on]
    BY <1>3 DEF BpRequest
  <2> QED BY <2>1 DEF Usage
<1>5. Put(p, s.pos[i])
  <2>1. DOMAIN s.pos = 1..Len(s.pos)
    BY <1>2, LenProperties
  <2> QED BY <1>2, <1>4, <2>1, AllPut DEF p
<1> QED BY <1>4, <1>5 DEF Put, Location

----------------------------------------------------------------------------
(* What the user says. *)

\* A word of one piece.
LEMMA OnePiece ==
  ASSUME NEW a \in Text
  PROVE  W(a) \in Words
BY DEF W, Words

\* Flags, the names of commands and digits are text.
LEMMA TextPieces ==
  /\ Flag \subseteq Text /\ SubAdd \subseteq Text /\ Numeral \subseteq Text
  /\ \A c \in Command : Valued[c] \subseteq Text /\ Switches(c) \subseteq Text
  /\ \A c \in DOMAIN Alias : Alias[c] \subseteq Text
<1>1. Flag \subseteq Text /\ \A c \in Command : Valued[c] \subseteq Text
  BY DEF Flag, Valued, Command, Text, Piece
<1>2. SubAdd \subseteq Text /\ Numeral \subseteq Text
  BY DEF SubAdd, Numeral, Text, Piece
<1>3. \A c \in Command : Switches(c) \subseteq Text
  BY DEF Switches, Text, Piece
<1>4. \A c \in DOMAIN Alias : Alias[c] \subseteq Text
  BY DEF Alias, Text, Piece
<1> QED BY <1>1, <1>2, <1>3, <1>4

\* What a user gives for a value is a word.
LEMMA SampleWord ==
  ASSUME NEW f
  PROVE  Sample(f) \in Words
<1>1. /\ <<"x", "blank", "1">> \in Words /\ <<"1", "4">> \in Words
      /\ <<"0">> \in Words /\ <<"v">> \in Words
  BY DEF Words, Text, Rune, Piece
<1> QED BY <1>1 DEF Sample, W

\* The group of a flag: the flag alone or the flag and its value.
LEMMA GroupWords ==
  ASSUME NEW c \in Command, NEW f \in Valued[c] \cup Switches(c)
  PROVE  Group(c, f) \in Seq(Words)
<1>1. W(f) \in Words /\ Sample(f) \in Words
  BY OnePiece, TextPieces, SampleWord
<1> QED BY <1>1 DEF Group, With

\* The positional forms of a place.
LEMMA PlaceGroups ==
  ASSUME NEW p \in Places
  PROVE  p.groups \subseteq Seq(Words)
<1>1. /\ W("f") \in Words /\ W("g") \in Words /\ W("--file") \in Words /\ W("--line") \in Words
      /\ W("--function") \in Words
      /\ \A n \in LineNo : n \in Words /\ FileLine(W("f"), n) \in Words
  BY DEF W, Words, Text, Piece, LineNo, FileLine
<1>2. ASSUME NEW n \in LineNo, NEW form \in {"flags", "mixed", "joined"},
             p.groups = CASE form = "flags"  -> {With("--file", W("f")), With("--line", n)}
                          [] form = "mixed"  -> {With("--file", W("f")), <<n>>}
                          [] form = "joined" -> {<<FileLine(W("f"), n)>>}
      PROVE  p.groups \subseteq Seq(Words)
  <2>1. /\ With("--file", W("f")) \in Seq(Words) /\ With("--line", n) \in Seq(Words)
        /\ <<n>> \in Seq(Words) /\ <<FileLine(W("f"), n)>> \in Seq(Words)
    BY <1>1 DEF With
  <2> QED BY <1>2, <2>1
<1>3. ASSUME NEW g \in {With("--function", W("g")), <<W("g")>>}, p.groups = {g}
      PROVE  p.groups \subseteq Seq(Words)
  <2>1. With("--function", W("g")) \in Seq(Words) /\ <<W("g")>> \in Seq(Words)
    BY <1>1 DEF With
  <2> QED BY <1>3, <2>1
<1> QED BY <1>2, <1>3 DEF Places

\* The groups of a meant `bp add'.
LEMMA BpGroups ==
  ASSUME NEW p \in Places, NEW S \in OptionSets(BpOptions)
  PROVE  BpMeaning(p, S).groups \subseteq Seq(Words)
<1>1. \A f \in S : f \in Valued["bp"] \cup Switches("bp")
  BY DEF OptionSets, BpOptions, Valued
<1>2. "bp" \in Command
  BY DEF Command, Valued
<1>3. \A f \in S : Group("bp", f) \in Seq(Words)
  BY <1>1, <1>2, GroupWords
<1> QED BY <1>3, PlaceGroups DEF BpMeaning

\* Those of a meant `attach'.
LEMMA AttachGroups ==
  ASSUME NEW S \in OptionSets(AttachOptions), NEW n \in 0..2
  PROVE  AttachMeaning(S, n).groups \subseteq Seq(Words)
<1>1. \A f \in S \cup {"--port"} : f \in Valued["attach"] \cup Switches("attach")
  BY DEF OptionSets, AttachOptions, Valued
<1>2. "attach" \in Command
  BY DEF Command, Valued
<1>3. \A f \in S \cup {"--port"} : Group("attach", f) \in Seq(Words)
  BY <1>1, <1>2, GroupWords
<1>4. \A i \in 1..n : With("--exec", Script[i]) \in Seq(Words)
  <2>1. Script[1] = W("c1") /\ Script[2] = W("c2")
    BY DEF Script
  <2>2. W("c1") \in Words /\ W("c2") \in Words /\ W("--exec") \in Words
    BY DEF W, Words, Text, Piece
  <2>3. \A i \in 1..n : i = 1 \/ i = 2
    OBVIOUS
  <2> QED BY <2>1, <2>2, <2>3 DEF With
<1> QED BY <1>3, <1>4 DEF AttachMeaning

\* Those of a query.
LEMMA QueryGroups ==
  ASSUME NEW m \in QueriesMeant
  PROVE  m.groups \subseteq Seq(Words) /\ m.cmd \in DOMAIN Alias
<1>1. /\ \A a \in {"--frame", "--depth", "--file", "--line", "0", "1", "2", "x", "+", "f"} :
           W(a) \in Words
      /\ <<"x", "blank", "+", "blank", "1">> \in Words
      /\ \A n \in LineNo : n \in Words /\ FileLine(W("f"), n) \in Words
  BY DEF W, Words, Text, Rune, Piece, LineNo, FileLine
<1>2. \A e \in Expressions : e \in Seq(Words)
  <2>1. <<W("x")>> \in Seq(Words)
    BY <1>1
  <2>2. <<W("x"), W("+"), W("1")>> \in Seq(Words)
    BY <1>1
  <2>3. << <<"x", "blank", "+", "blank", "1">> >> \in Seq(Words)
    BY <1>1
  <2> QED BY <2>1, <2>2, <2>3 DEF Expressions
<1>3. FrameTwo \in Seq(Words)
  BY <1>1 DEF FrameTwo, With
<1>4. ASSUME NEW e \in Expressions, NEW i \in 0..Len(e)
      PROVE  SubSeq(e, 1, i) \o FrameTwo \o SubSeq(e, i + 1, Len(e)) \in Seq(Words)
  <2>1. Len(e) \in Nat /\ \A j \in 1..Len(e) : e[j] \in Words
    BY <1>2, LenProperties, ElementOfSeq
  <2>2. SubSeq(e, 1, i) \in Seq(Words) /\ SubSeq(e, i + 1, Len(e)) \in Seq(Words)
    BY <2>1, SubSeqProperties
  <2>3. SubSeq(e, 1, i) \o FrameTwo \in Seq(Words)
    BY <1>3, <2>2, ConcatProperties
  <2> QED BY <2>2, <2>3, ConcatProperties
<1>5. /\ {With("--depth", W("0"))} \subseteq Seq(Words)
      /\ {With("--depth", W("2"))} \subseteq Seq(Words)
  BY <1>1 DEF With
<1>6. \A n \in {W("1"), W("2")} : {<<n>>} \subseteq Seq(Words)
  BY <1>1
<1>7. \A n \in LineNo : {With("--file", W("f")), With("--line", n)} \subseteq Seq(Words)
  BY <1>1 DEF With
<1>8. \A n \in LineNo : {<<FileLine(W("f"), n)>>} \subseteq Seq(Words)
  BY <1>1
<1>9. /\ "stack" \in DOMAIN Alias /\ "locals" \in DOMAIN Alias /\ "eval" \in DOMAIN Alias
      /\ "goroutine" \in DOMAIN Alias /\ "source" \in DOMAIN Alias
  BY DEF Alias
<1> DEFINE Good(x) == x.groups \subseteq Seq(Words) /\ x.cmd \in DOMAIN Alias
<1>10. \A means : \A c \in {"stack", "locals", "eval", "goroutine", "source"} :
         \A gs \in SUBSET Seq(Words) : Good(Query(c, means, gs))
  BY <1>9 DEF Query
<1> HIDE DEF Good
<1>11. \A means : /\ Good(Query("stack", means, {})) /\ Good(Query("locals", means, {}))
                  /\ Good(Query("source", means, {}))
  BY <1>10
<1>12. \A means : /\ Good(Query("stack", means, {With("--depth", W("0"))}))
                  /\ Good(Query("stack", means, {With("--depth", W("2"))}))
  BY <1>5, <1>10
<1>13. \A means : Good(Query("locals", means, {FrameTwo}))
  BY <1>3, <1>10
<1>14. \A means : \A e \in Expressions : Good(Query("eval", means, {e}))
  BY <1>2, <1>10
<1>15. \A means : \A e \in Expressions : \A i \in 0..Len(e) :
         Good(Query("eval", means, {SubSeq(e, 1, i) \o FrameTwo
                                      \o SubSeq(e, i + 1, Len(e))}))
  BY <1>4, <1>10
<1>16. \A means : \A n \in {W("1"), W("2")} : Good(Query("goroutine", means, {<<n>>}))
  BY <1>6, <1>10
<1>17. \A means : \A n \in LineNo :
         /\ Good(Query("source", means, {With("--file", W("f")), With("--line", n)}))
         /\ Good(Query("source", means, {<<FileLine(W("f"), n)>>}))
  BY <1>7, <1>8, <1>10
<1>18. /\ \A x \in StackMeant : Good(x)
       /\ \A x \in LocalsMeant : Good(x)
  BY <1>11, <1>12, <1>13 DEF StackMeant, LocalsMeant
<1>19. /\ \A x \in GoroutineMeant : Good(x)
       /\ \A x \in SourceMeant : Good(x)
  <2>1. ASSUME NEW x \in GoroutineMeant PROVE Good(x)
    <3>1. PICK n \in {W("1"), W("2")} :
            x = Query("goroutine", [ok |-> TRUE, id |-> Atoi(n)], {<<n>>})
      BY DEF GoroutineMeant
    <3> QED BY <1>16, <3>1
  <2>2. ASSUME NEW x \in SourceMeant PROVE Good(x)
    <3>1. PICK n, means :
            /\ n \in LineNo
            /\ \/ x = Query("source", means, {})
               \/ x = Query("source", means, {With("--file", W("f")), With("--line", n)})
               \/ x = Query("source", means, {<<FileLine(W("f"), n)>>})
      <4>1. LineNo # {}
        BY DEF LineNo
      <4> QED BY <4>1 DEF SourceMeant
    <3> QED BY <1>11, <1>17, <3>1
  <2> QED BY <2>1, <2>2
<1>20. \A x \in EvalMeant : Good(x)
  <2> SUFFICES ASSUME NEW x \in EvalMeant PROVE Good(x)
    OBVIOUS
  <2>1. PICK e, means :
          /\ e \in Expressions
          /\ \/ x = Query("eval", means, {e})
             \/ \E i \in 0..Len(e) :
                  x = Query("eval", means,
                            {SubSeq(e, 1, i) \o FrameTwo \o SubSeq(e, i + 1, Len(e))})
    BY DEF EvalMeant
  <2> QED BY <1>14, <1>15, <2>1
<1> QED BY <1>18, <1>19, <1>20 DEF QueriesMeant, Good

----------------------------------------------------------------------------
(* What is said is what is read. *)

SaidTypeOK ==
  /\ said = Saying(said.cmd, said.means, said.next, said.left)
  /\ said.next \in Seq(Words) /\ said.left \subseteq Seq(Words)

\* The words of `attach' go straight to its loop.
Passed == said.cmd = "attach" => rest = <<>> /\ scan.cur = <<>>

\* The line is read as it is written (LineInv), unless it holds empty words.
LineRight == (Empty /\ said.cmd = "words") \/ LineInv

\* The first word of a line names its command.
Named ==
  said.cmd \in DOMAIN Alias =>
    \E a \in Alias[said.cmd] :
      IF words = <<>> THEN said.next # <<>> /\ Head(said.next) = W(a) ELSE Head(words) = W(a)

SaidInv == SaidTypeOK /\ Passed /\ LineRight /\ Named

\* The steps that the words of a line take part in.
LEMMA WordSteps ==
  [InspectionNext]_allVars =>
    \/ Asked \/ NextGroup \/ SayWord \/ (Read /\ UNCHANGED said) \/ Silence
    \/ UNCHANGED argVars
<1>1. NextLine => Asked
  BY DEF NextLine
<1>2. UserSays => NextGroup \/ SayWord
  BY DEF UserSays
<1>3. ReadRune => Read /\ UNCHANGED said
  BY DEF ReadRune
<1>4. Ask \/ Switch \/ EndCommand => Silence \/ UNCHANGED argVars
  BY DEF Ask, Switch, EndCommand, Prompt
<1>5. ReadGoid \/ TargetMoves \/ Source \/ UNCHANGED allVars => UNCHANGED argVars
  BY DEF ReadGoid, TargetMoves, Source, allVars
<1> QED BY <1>1, <1>2, <1>3, <1>4, <1>5 DEF InspectionNext

\* The line is empty again, or for the first time.
LEMMA NewLine ==
  ASSUME words' = <<>>, rest' = <<>>, scan' = Start
  PROVE  LineInv'
BY DEF Start, LineInv, ScanTypeOK, Found, Fields

\* What is said at first.
LEMMA SaidFirst ==
  ASSUME Said
  PROVE  SaidInv
<1>1. LineInv /\ words = <<>> /\ rest = <<>> /\ scan.cur = <<>>
  BY EmptyLine DEF Said, Init, Start
<1>2. <<>> \in Seq(Words) /\ {} \subseteq Seq(Words)
  OBVIOUS
<1>3. CASE said = Saying("words", Usage, <<>>, {})
  <2>1. SaidTypeOK /\ said.cmd = "words"
    BY <1>2, <1>3 DEF SaidTypeOK, Saying
  <2> QED BY <1>1, <2>1 DEF SaidInv, Passed, LineRight, Named, Alias
<1>4. CASE said = Saying("loose", Usage, <<W("bp"), W("add")>>, {})
  <2>1. <<W("bp"), W("add")>> \in Seq(Words)
    <3>1. W("bp") \in Words /\ W("add") \in Words
      BY OnePiece DEF Text, Piece
    <3> QED BY <3>1
  <2>2. SaidTypeOK /\ said.cmd = "loose"
    BY <1>2, <1>4, <2>1 DEF SaidTypeOK, Saying
  <2> QED BY <1>1, <2>2 DEF SaidInv, Passed, LineRight, Named, Alias
<1>5. ASSUME NEW m \in BpMeant, NEW a \in Alias["bp"], NEW add \in SubAdd,
             said = Saying("bp", m.means, <<W(a), W(add)>>, m.groups)
      PROVE  SaidInv
  <2>1. m.groups \subseteq Seq(Words)
    BY BpGroups DEF BpMeant
  <2>2. W(a) \in Words /\ W(add) \in Words
    BY OnePiece, TextPieces DEF Alias
  <2>3. /\ <<W(a), W(add)>> \in Seq(Words) /\ Head(<<W(a), W(add)>>) = W(a)
        /\ <<W(a), W(add)>> # <<>>
    BY <2>2
  <2>4. SaidTypeOK /\ said.cmd = "bp" /\ said.next = <<W(a), W(add)>>
    BY <1>5, <2>1, <2>3 DEF SaidTypeOK, Saying
  <2> QED BY <1>1, <2>3, <2>4 DEF SaidInv, Passed, LineRight, Named
<1>6. ASSUME NEW m \in AttachMeant, said = Saying("attach", m.means, <<>>, m.groups)
      PROVE  SaidInv
  <2>1. m.groups \subseteq Seq(Words)
    BY AttachGroups DEF AttachMeant
  <2>2. SaidTypeOK /\ said.cmd = "attach"
    BY <1>2, <1>6, <2>1 DEF SaidTypeOK, Saying
  <2> QED BY <1>1, <2>2 DEF SaidInv, Passed, LineRight, Named, Alias
<1> QED BY <1>3, <1>4, <1>5, <1>6 DEF Said

\* A query.
LEMMA AskedStep ==
  ASSUME Asked
  PROVE  SaidInv'
<1>1. PICK m \in QueriesMeant : \E a \in Alias[m.cmd] :
        said' = Saying(m.cmd, m.means, <<W(a)>>, m.groups)
  BY DEF Asked
<1>2. PICK a \in Alias[m.cmd] : said' = Saying(m.cmd, m.means, <<W(a)>>, m.groups)
  BY <1>1
<1>3. m.groups \subseteq Seq(Words) /\ m.cmd \in DOMAIN Alias
  BY QueryGroups
<1>4. W(a) \in Words
  BY <1>3, OnePiece, TextPieces
<1>5. <<W(a)>> \in Seq(Words) /\ <<W(a)>> # <<>> /\ Head(<<W(a)>>) = W(a)
  BY <1>4
<1>6. SaidTypeOK' /\ said'.cmd = m.cmd /\ said'.next = <<W(a)>>
  BY <1>2, <1>3, <1>5 DEF SaidTypeOK, Saying
<1>7. LineInv' /\ words' = <<>> /\ rest' = <<>> /\ scan'.cur = <<>>
  BY NewLine DEF Asked, Start
<1> QED BY <1>5, <1>6, <1>7 DEF SaidInv, Passed, LineRight, Named

\* The next group.
LEMMA NextGroupStep ==
  ASSUME SaidInv, NextGroup
  PROVE  SaidInv'
<1>1. PICK g \in said.left : said' = [said EXCEPT !.next = g, !.left = @ \ {g}]
  BY DEF NextGroup
<1>2. SaidTypeOK' /\ said'.cmd = said.cmd
  BY <1>1 DEF SaidInv, SaidTypeOK, Saying
<1>3. UNCHANGED <<words, rest, scan>> /\ said.next = <<>>
  BY DEF NextGroup, vars
<1>4. LineRight'
  BY <1>2, <1>3, LineStays DEF SaidInv, LineRight, vars
<1>5. Named'
  BY <1>2, <1>3 DEF SaidInv, Named
<1> QED BY <1>2, <1>3, <1>4, <1>5 DEF SaidInv, Passed

\* What is written or passed becomes the last of the words.
LEMMA NamedStays ==
  ASSUME words \in Seq(Words), NEW w \in Words, words' = Append(words, w), Named,
         said'.cmd = said.cmd, words = <<>> => said.next = <<>> \/ Head(said.next) = w
  PROVE  Named'
<1>1. words' # <<>> /\ Head(words') = IF words = <<>> THEN w ELSE Head(words)
  BY HeadTailAppend, AppendProperties
<1> QED BY <1>1 DEF Named

\* The next word that is to be said.
LEMMA SayNext ==
  ASSUME SaidInv, said.next # <<>>, said' = [said EXCEPT !.next = Tail(@)],
         IF said.cmd = "attach" THEN Pass(Head(said.next)) ELSE Write(Head(said.next))
  PROVE  SaidInv'
<1>1. Head(said.next) \in Words /\ Tail(said.next) \in Seq(Words)
  BY HeadTailProperties DEF SaidInv, SaidTypeOK
<1>2. SaidTypeOK' /\ said'.cmd = said.cmd
  BY <1>1 DEF SaidInv, SaidTypeOK, Saying
<1>3. CASE said.cmd = "attach"
  <2>1. LineInv /\ rest = <<>> /\ scan.cur = <<>> /\ Pass(Head(said.next))
    BY <1>3 DEF SaidInv, LineRight, Passed
  <2>2. Found(words) /\ words \in Seq(Words) /\ ScanTypeOK
    BY <2>1, EndOfLine DEF LineInv, ScanTypeOK, Words
  <2>3. /\ words' = Append(words, Head(said.next)) /\ rest' = <<>>
        /\ scan' = [scan EXCEPT !.out = Append(@, Head(said.next))]
    BY <2>1 DEF Pass
  <2>4. scan.out = words
    BY <2>1, <2>2 DEF Found, Fields
  <2>5. Append(words, Head(said.next)) \in Seq(Words)
    BY <1>1, <2>2, AppendProperties
  <2>6. words \in Seq(Seq(Text)) /\ Append(words, Head(said.next)) \in Seq(Seq(Text))
    BY <1>1, <2>2, AppendProperties, SeqMonotonic DEF Words
  <2>7. ScanTypeOK' /\ Found(words)' /\ scan'.cur = <<>>
    BY <2>1, <2>2, <2>3, <2>4, <2>5, <2>6 DEF ScanTypeOK, Found, Fields, Words
  <2>8. LineInv'
    BY <2>3, <2>7 DEF LineInv
  <2>9. Named'
    BY <1>2, <1>3 DEF Named, Alias
  <2> QED BY <1>2, <1>3, <2>3, <2>7, <2>8, <2>9 DEF SaidInv, Passed, LineRight
<1>4. CASE said.cmd # "attach" /\ LineInv
  <2>1. Write(Head(said.next))
    BY <1>4
  <2>2. LineInv'
    BY <1>1, <1>4, <2>1, WriteStep DEF Words
  <2>3. words \in Seq(Words) /\ words' = Append(words, Head(said.next))
    BY <1>4, <2>1 DEF LineInv, ScanTypeOK, Words, Write
  <2>4. Named'
    BY <1>1, <1>2, <2>3, NamedStays DEF SaidInv
  <2> QED BY <1>2, <1>4, <2>2, <2>4 DEF SaidInv, Passed, LineRight
<1>5. CASE Empty /\ said.cmd = "words"
  <2>1. Named'
    BY <1>2, <1>5 DEF Named, Alias
  <2> QED BY <1>2, <1>5, <2>1 DEF SaidInv, Passed, LineRight
<1> QED BY <1>3, <1>4, <1>5 DEF SaidInv, LineRight

\* The user says a word.
LEMMA SayWordStep ==
  ASSUME SaidInv, SayWord
  PROVE  SaidInv'
<1>1. CASE /\ said.next # <<>>
           /\ IF said.cmd = "attach" THEN Pass(Head(said.next)) ELSE Write(Head(said.next))
           /\ said' = [said EXCEPT !.next = Tail(@)]
  BY <1>1, SayNext
<1>2. CASE said.cmd = "words" /\ AnyWord /\ UNCHANGED said
  <2>1. ~Empty => LineInv'
    BY <1>2, WordRunes, WriteStep DEF AnyWord, SaidInv, LineRight
  <2>2. Named' /\ Passed' /\ SaidTypeOK'
    BY <1>2 DEF Named, Passed, SaidInv, SaidTypeOK, Alias
  <2> QED BY <1>2, <2>1, <2>2 DEF SaidInv, LineRight
<1>3. ASSUME said.cmd = "loose", NEW w \in Loose, Write(w), UNCHANGED said
      PROVE  SaidInv'
  <2>1. w \in Words
    <3>1. \A f \in {"--file", "--line", "--function", "--once", "f", "0", "3"} : W(f) \in Words
      BY OnePiece DEF Text, Piece
    <3>2. \A n \in {W("0"), W("3")} : FileLine(W("f"), n) \in Words
      <4>1. /\ W("f") \in Seq(Text) /\ W(":") \in Seq(Text) /\ W("f") # <<>>
            /\ W("0") \in Seq(Text) /\ W("3") \in Seq(Text)
        BY OnePiece DEF Text, Piece, Words
      <4>2. W("f") \o W(":") \in Seq(Text) /\ W("f") \o W(":") # <<>>
        BY <4>1, ConcatProperties, FrontOfLine
      <4>3. \A n \in {W("0"), W("3")} :
              FileLine(W("f"), n) \in Seq(Text) /\ FileLine(W("f"), n) # <<>>
        BY <4>1, <4>2, ConcatProperties, FrontOfLine DEF FileLine
      <4> QED BY <4>3 DEF Words
    <3> QED BY <3>1, <3>2 DEF Loose
  <2>2. LineInv'
    BY <1>3, <2>1, WriteStep DEF Words, SaidInv, LineRight
  <2>3. Named' /\ Passed' /\ SaidTypeOK'
    BY <1>3 DEF Named, Passed, SaidInv, SaidTypeOK, Alias
  <2> QED BY <2>2, <2>3 DEF SaidInv, LineRight
<1> QED BY <1>1, <1>2, <1>3 DEF SayWord

\* The invariant holds in every behaviour.
LEMMA SaidSafe == InspectionSpec => []SaidInv
<1>1. InspectionInit => SaidInv
  BY SaidFirst DEF InspectionInit
<1>2. SaidInv /\ [InspectionNext]_allVars => SaidInv'
  <2> SUFFICES ASSUME SaidInv, [InspectionNext]_allVars PROVE SaidInv'
    OBVIOUS
  <2>1. CASE Read /\ UNCHANGED said
    <3>1. said.cmd # "attach" /\ UNCHANGED words
      BY <2>1 DEF Read, SaidInv, Passed
    <3>2. LineRight'
      BY <2>1, ReadStep DEF SaidInv, LineRight
    <3> QED BY <2>1, <3>1, <3>2 DEF SaidInv, SaidTypeOK, Passed, Named
  <2>2. CASE Silence
    <3>1. LineInv' /\ said' = Saying("none", Usage, <<>>, {})
      BY <2>2, NewLine DEF Silence
    <3>2. SaidTypeOK' /\ said'.cmd = "none"
      <4>1. <<>> \in Seq(Words) /\ {} \subseteq Seq(Words)
        OBVIOUS
      <4> QED BY <3>1, <4>1 DEF SaidTypeOK, Saying
    <3> QED BY <3>1, <3>2 DEF SaidInv, Passed, LineRight, Named, Alias
  <2>3. CASE UNCHANGED argVars
    <3>1. UNCHANGED <<said, words, rest, scan>> /\ UNCHANGED vars
      BY <2>3 DEF argVars, vars
    <3>2. LineRight'
      BY <3>1, LineStays DEF SaidInv, LineRight
    <3> QED BY <3>1, <3>2 DEF SaidInv, SaidTypeOK, Passed, Named
  <2> QED BY <2>1, <2>2, <2>3, WordSteps, AskedStep, NextGroupStep, SayWordStep
<1> QED BY <1>1, <1>2, PTL DEF InspectionSpec

\* At the end of a line whose words are not empty, the words come back.
LEMMA WordsBack ==
  ASSUME SaidInv, rest = <<>>, ~(Empty /\ said.cmd = "words")
  PROVE  Fields(scan) = words /\ words \in Seq(Words)
BY EndOfLine DEF SaidInv, LineRight, LineInv, ScanTypeOK, Found, Words

\* The words of a console session come back too, whatever line is written and
\* whatever becomes of the target in the meantime.
THEOREM ConsoleWordsArrive ==
  ASSUME ~Empty
  PROVE  InspectionSpec => []WordsArrive
<1>1. SaidInv => WordsArrive
  BY WordsBack DEF WordsArrive
<1> QED BY <1>1, SaidSafe, PTL

\* Whatever words follow `bp add', however many, none of the positional ones is
\* passed over when the breakpoint is accepted: each is its function, its line, or
\* its file and its line.
THEOREM NoPositionalLost == InspectionSpec => []PositionalsPlaced
<1>1. SaidInv => PositionalsPlaced
  <2> SUFFICES ASSUME SaidInv, LineRead, said.cmd = "loose"
               PROVE  PositionalsPlaced
    BY DEF PositionalsPlaced
  <2> DEFINE ws == SubSeq(Fields(scan), 3, Len(Fields(scan)))
  <2>1. Fields(scan) = words /\ words \in Seq(Words)
    BY WordsBack DEF LineRead
  <2>2. ws \in Seq(Words)
    <3>1. Len(words) \in Nat /\ \A i \in 3..Len(words) : words[i] \in Words
      BY <2>1, LenProperties, ElementOfSeq
    <3> QED BY <2>1, <3>1, SubSeqProperties
  <2> HIDE DEF ws
  <2>3. \A i \in DOMAIN Args("bp", ws).pos :
          BpRequest(Args("bp", ws)).ok =>
            LET b == BpRequest(Args("bp", ws))
                w == Args("bp", ws).pos[i]
            IN  \/ b.at.function = w
                \/ IsNumber(w) /\ Atoi(w) \in {b.at.line, 0}
                \/ At(w) /\ b.at.file = FileOf(w) /\ Atoi(LineOf(w)) \in {b.at.line, 0}
    BY <2>2, NonePassedOver
  <2> QED BY <2>3 DEF PositionalsPlaced, ws
<1> QED BY <1>1, SaidSafe, PTL

----------------------------------------------------------------------------
(* The words of the places. *)

\* A number that is written without a sign.
LEMMA Unsigned ==
  ASSUME NEW v \in Seq(Numeral), v # <<>>
  PROVE  IsNumber(v) /\ Atoi(v) = MagnitudeLoop(v)
<1>1. /\ DOMAIN v = 1..Len(v) /\ Len(v) \in Nat \ {0} /\ \A i \in 1..Len(v) : v[i] \in Numeral
  BY LenProperties, EmptySeq, ElementOfSeq
<1>2. v[1] # "-"
  BY <1>1 DEF Numeral
<1>3. Digits(v) = v
  BY <1>2 DEF Digits
<1>4. Numeral \subseteq ToSet(Digit)
  <2>1. /\ Digit[1] = "0" /\ Digit[2] = "1" /\ Digit[3] = "2" /\ Digit[4] = "3" /\ Digit[5] = "4"
        /\ DOMAIN Digit = 1..5
    BY DEF Digit
  <2> QED BY <2>1 DEF Numeral, ToSet
<1>5. ToSet(v) \subseteq ToSet(Digit)
  BY <1>1, <1>4 DEF ToSet
<1>6. IsNumber(v)
  BY <1>3, <1>5 DEF IsNumber
<1>7. Atoi(v) = MagnitudeLoop(v)
  BY <1>2, <1>6 DEF Atoi, MagnitudeLoop, Figure
<1> QED BY <1>6, <1>7

\* The numbers the user gives.
LEMMA GivenNumbers ==
  /\ Atoi(<<"0">>) = 0 /\ Atoi(<<"2">>) = 2 /\ Atoi(<<"1", "3">>) = 13 /\ Atoi(<<"1", "4">>) = 14
  /\ \A v \in {<<"0">>, <<"2">>, <<"1", "3">>, <<"1", "4">>} : v \in Words /\ IsNumber(v)
<1>1. <<>> \in Seq(Numeral) /\ \A d \in Numeral : <<d>> \in Seq(Numeral)
  OBVIOUS
<1>2. ASSUME NEW d \in Numeral
      PROVE  MagnitudeLoop(<<d>>) = Figure(d)
  <2>1. <<d>> = Append(<<>>, d)
    OBVIOUS
  <2>2. MagnitudeLoop(Append(<<>>, d)) = 10 * MagnitudeLoop(<<>>) + Figure(d)
    BY <1>1, MagnitudeRun
  <2> QED BY <2>1, <2>2, MagnitudeRun, Figures
<1>3. ASSUME NEW c \in Numeral, NEW d \in Numeral
      PROVE  MagnitudeLoop(<<c, d>>) = 10 * Figure(c) + Figure(d)
  <2>1. <<c, d>> = Append(<<c>>, d)
    OBVIOUS
  <2>2. MagnitudeLoop(Append(<<c>>, d)) = 10 * MagnitudeLoop(<<c>>) + Figure(d)
    BY <1>1, MagnitudeRun
  <2> QED BY <1>2, <2>1, <2>2
<1>4. /\ "0" \in Numeral /\ "1" \in Numeral /\ "2" \in Numeral /\ "3" \in Numeral /\ "4" \in Numeral
  BY DEF Numeral
<1>5. /\ MagnitudeLoop(<<"0">>) = 0 /\ MagnitudeLoop(<<"2">>) = 2
      /\ MagnitudeLoop(<<"1", "3">>) = 13 /\ MagnitudeLoop(<<"1", "4">>) = 14
  BY <1>2, <1>3, <1>4, Figures
<1>6. /\ <<"0">> \in Seq(Numeral) /\ <<"2">> \in Seq(Numeral)
      /\ <<"1", "3">> \in Seq(Numeral) /\ <<"1", "4">> \in Seq(Numeral)
  BY <1>4
<1>7. /\ <<"0">> # <<>> /\ <<"2">> # <<>> /\ <<"1", "3">> # <<>> /\ <<"1", "4">> # <<>>
  OBVIOUS
<1>8. Numeral \subseteq Text
  BY DEF Numeral, Text, Piece
<1>9. \A v \in Seq(Numeral) : v \in Seq(Text)
  BY <1>8, SeqMonotonic
<1>10. IsNumber(<<"0">>) /\ Atoi(<<"0">>) = MagnitudeLoop(<<"0">>)
  BY <1>6, <1>7, Unsigned
<1>11. IsNumber(<<"2">>) /\ Atoi(<<"2">>) = MagnitudeLoop(<<"2">>)
  BY <1>6, <1>7, Unsigned
<1>12. IsNumber(<<"1", "3">>) /\ Atoi(<<"1", "3">>) = MagnitudeLoop(<<"1", "3">>)
  BY <1>6, <1>7, Unsigned
<1>13. IsNumber(<<"1", "4">>) /\ Atoi(<<"1", "4">>) = MagnitudeLoop(<<"1", "4">>)
  BY <1>6, <1>7, Unsigned
<1> QED BY <1>5, <1>6, <1>7, <1>9, <1>10, <1>11, <1>12, <1>13 DEF Words

\* The lines the user gives are lines.
LEMMA LineNumbers ==
  ASSUME NEW n \in LineNo
  PROVE  n \in Words /\ IsNumber(n) /\ Atoi(n) \in Nat \ {0} /\ n[1] \in Numeral
<1>1. n = <<"2">> \/ n = <<"1", "3">>
  BY DEF LineNo, W
<1>2. n[1] \in Numeral
  BY <1>1 DEF Numeral
<1> QED BY <1>1, <1>2, GivenNumbers

\* w is u, a piece, and v.
Cut(w, u, c, v) ==
  LET k == Len(u) + 1
  IN  /\ Len(w) = k + Len(v) /\ w[k] = c
      /\ \A i \in 1..Len(u) : w[i] = u[i]
      /\ SubSeq(w, 1, k - 1) = u /\ SubSeq(w, k + 1, Len(w)) = v

\* What stands before and after a piece of a sequence.
LEMMA CutOut ==
  ASSUME NEW S, NEW u \in Seq(S), NEW c \in S, NEW v \in Seq(S)
  PROVE  (u \o <<c>>) \o v \in Seq(S) /\ Cut((u \o <<c>>) \o v, u, c, v)
<1> DEFINE uc == u \o <<c>>
           w == uc \o v
           k == Len(u) + 1
<1>1. <<c>> \in Seq(S) /\ Len(<<c>>) = 1 /\ <<c>>[1] = c
  OBVIOUS
<1>2. Len(u) \in Nat /\ Len(v) \in Nat
  BY LenProperties
<1>3. uc \in Seq(S) /\ Len(uc) = k /\ uc[k] = c /\ \A i \in 1..Len(u) : uc[i] = u[i]
  BY <1>1, <1>2, ConcatProperties
<1> HIDE DEF uc
<1>4. /\ w \in Seq(S) /\ Len(w) = k + Len(v)
      /\ \A i \in 1..k + Len(v) : w[i] = IF i <= k THEN uc[i] ELSE v[i - k]
  <2>1. /\ w \in Seq(S) /\ Len(w) = Len(uc) + Len(v)
        /\ \A i \in 1..Len(uc) + Len(v) : w[i] = IF i <= Len(uc) THEN uc[i] ELSE v[i - Len(uc)]
    BY <1>3, ConcatProperties
  <2> HIDE DEF w
  <2> QED BY <1>3, <2>1
<1> HIDE DEF w
<1>5. w[k] = c /\ \A i \in 1..Len(u) : w[i] = u[i]
  BY <1>2, <1>3, <1>4
<1>6. \A i \in 1..Len(w) : w[i] \in S
  BY <1>4, ElementOfSeq
<1>7. 1 \in Int /\ k - 1 \in Int /\ k + 1 \in Int /\ Len(w) \in Int
  BY <1>2, <1>4
<1>8. SubSeq(w, 1, k - 1) = u
  <2>1. /\ SubSeq(w, 1, k - 1) \in Seq(S)
        /\ Len(SubSeq(w, 1, k - 1)) = Len(u)
        /\ \A i \in 1..Len(u) : SubSeq(w, 1, k - 1)[i] = w[i]
    <3>1. \A i \in 1..k - 1 : w[i] \in S
      BY <1>2, <1>4, <1>6
    <3>2. /\ SubSeq(w, 1, k - 1) \in Seq(S)
          /\ Len(SubSeq(w, 1, k - 1)) = IF 1 <= k - 1 THEN k - 1 - 1 + 1 ELSE 0
          /\ \A i \in 1..k - 1 - 1 + 1 : SubSeq(w, 1, k - 1)[i] = w[1 + i - 1]
      BY <1>7, <3>1, SubSeqProperties
    <3> QED BY <1>2, <3>2
  <2> QED BY <1>5, <2>1, SeqEqual
<1>9. SubSeq(w, k + 1, Len(w)) = v
  <2>1. /\ SubSeq(w, k + 1, Len(w)) \in Seq(S)
        /\ Len(SubSeq(w, k + 1, Len(w))) = Len(v)
        /\ \A i \in 1..Len(v) : SubSeq(w, k + 1, Len(w))[i] = w[k + i]
    <3>1. \A i \in k + 1..Len(w) : w[i] \in S
      BY <1>2, <1>4, <1>6
    <3>2. LET l == Len(w) IN
          /\ SubSeq(w, k + 1, l) \in Seq(S)
          /\ Len(SubSeq(w, k + 1, l)) = IF k + 1 <= l THEN l - (k + 1) + 1 ELSE 0
          /\ \A i \in 1..l - (k + 1) + 1 : SubSeq(w, k + 1, l)[i] = w[k + 1 + i - 1]
      BY <1>7, <3>1, SubSeqProperties
    <3>3. \A i \in 1..Len(v) : k + 1 + i - 1 = k + i
      BY <1>2
    <3> QED BY <1>2, <1>4, <3>2, <3>3
  <2>2. \A i \in 1..Len(v) : w[k + i] = v[i]
    <3> SUFFICES ASSUME NEW i \in 1..Len(v) PROVE w[k + i] = v[i]
      OBVIOUS
    <3>1. k + i \in 1..k + Len(v) /\ ~(k + i <= k) /\ (k + i) - k = i
      BY <1>2
    <3> QED BY <1>4, <3>1
  <2> QED BY <2>1, <2>2, SeqEqual
<1>10. Cut(w, u, c, v)
  BY <1>4, <1>5, <1>8, <1>9 DEF Cut
<1> QED BY <1>4, <1>10 DEF w, uc

\* "file:line" comes apart at its colon.
LEMMA FileAndLine ==
  ASSUME NEW n \in LineNo
  PROVE  LET w == FileLine(W("f"), n)
         IN  w \in Words /\ Len(w) > 1 /\ At(w) /\ FileOf(w) = W("f") /\ LineOf(w) = n
<1> DEFINE w == FileLine(W("f"), n)
           u == W("f")
<1>1. n \in Seq(Text) /\ Len(n) \in Nat /\ n # <<>>
  BY LineNumbers, LenProperties DEF Words
<1>2. u \in Seq(Text) /\ Len(u) = 1 /\ u[1] = "f" /\ ":" \in Text
  BY DEF W, Text, Piece
<1>3. /\ w \in Seq(Text) /\ Len(w) = 2 + Len(n) /\ w[2] = ":" /\ w[1] = "f"
      /\ SubSeq(w, 1, 1) = u /\ SubSeq(w, 3, Len(w)) = n
  <2> HIDE DEF u
  <2>1. w \in Seq(Text) /\ Cut(w, u, ":", n)
    BY <1>1, <1>2, CutOut DEF FileLine, W, u
  <2> HIDE DEF w
  <2> QED BY <1>1, <1>2, <2>1 DEF Cut
<1> HIDE DEF w
<1>4. Len(w) \in Nat /\ Len(w) > 1 /\ DOMAIN w = 1..Len(w)
  BY <1>1, <1>3, LenProperties
<1>5. Colon(w) = 2
  <2>1. 2 \in DOMAIN w /\ \A j \in 1..2-1 : w[j] # ":"
    BY <1>3, <1>4
  <2>2. \A i \in DOMAIN w : w[i] = ":" /\ (\A j \in 1..i-1 : w[j] # ":") => i = 2
    <3> SUFFICES ASSUME NEW i \in DOMAIN w, w[i] = ":", \A j \in 1..i-1 : w[j] # ":"
                 PROVE  i = 2
      OBVIOUS
    <3>1. i \in Nat /\ i # 1 /\ i # 0
      BY <1>3, <1>4
    <3>2. i > 2 => 2 \in 1..i-1
      BY <3>1
    <3> QED BY <1>3, <3>1, <3>2
  <2> QED BY <1>3, <2>1, <2>2 DEF Colon
<1>6. FileOf(w) = W("f") /\ LineOf(w) = n
  BY <1>3, <1>5 DEF FileOf, LineOf
<1>7. At(w)
  <2>1. ":" \in ToSet(w)
    BY <1>3, <1>4 DEF ToSet
  <2> QED BY <1>6, <2>1, LineNumbers DEF At
<1>8. w # <<>>
  BY <1>4
<1> QED BY <1>3, <1>4, <1>6, <1>7, <1>8 DEF w, Words

----------------------------------------------------------------------------
(* What the words of the loop do to its variables. *)

\* The empty string is no flag; an error has not been returned.
NoFlag  == ""
NoError == FALSE

\* The loop's variables, and what happens to each.
State(want, val, on, pos, bad) ==
  [want |-> want, val |-> val, on |-> on, pos |-> pos, bad |-> bad]

LEMMA StateParts ==
  ASSUME NEW a, NEW v, NEW o, NEW p, NEW b
  PROVE  LET s == State(a, v, o, p, b)
         IN  s.want = a /\ s.val = v /\ s.on = o /\ s.pos = p /\ s.bad = b
BY DEF State

SetWant(s, x)  == [s EXCEPT !.want = x]
SetOn(s, x)    == [s EXCEPT !.on = x]
SetPos(s, x)   == [s EXCEPT !.pos = x]
Taken(s, w, b) == [s EXCEPT !.val[s.want] = Append(@, w), !.want = NoFlag, !.bad = b]

LEMMA StateChanges ==
  ASSUME NEW a, NEW v, NEW o, NEW p, NEW b
  PROVE  LET s == State(a, v, o, p, b)
         IN  /\ \A x : SetWant(s, x) = State(x, v, o, p, b)
             /\ \A x : SetOn(s, x) = State(a, v, x, p, b)
             /\ \A x : SetPos(s, x) = State(a, v, o, x, b)
             /\ \A w : Taken(s, w, b) = State(NoFlag, [v EXCEPT ![a] = Append(@, w)], o, p, b)
<1> DEFINE s == State(a, v, o, p, b)
<1>1. \A x : SetWant(s, x) = State(x, v, o, p, b)
  BY DEF State, SetWant
<1>2. \A x : SetOn(s, x) = State(a, v, x, p, b)
  BY DEF State, SetOn
<1>3. \A x : SetPos(s, x) = State(a, v, o, x, b)
  BY DEF State, SetPos
<1>4. \A w : Taken(s, w, b) = State(NoFlag, [v EXCEPT ![a] = Append(@, w)], o, p, b)
  <2> TAKE w
  <2>1. s.val = v /\ s.want = a
    BY StateParts
  <2>2. [s EXCEPT !.val[a] = Append(@, w), !.want = NoFlag, !.bad = b]
          = [s EXCEPT !.val = [s.val EXCEPT ![a] = Append(@, w)], !.want = NoFlag, !.bad = b]
    BY Zenon
  <2>3. \A y : [s EXCEPT !.val = y, !.want = NoFlag, !.bad = b] = State(NoFlag, y, o, p, b)
    <3> TAKE y
    <3>1. [s EXCEPT !.val = y] = State(a, y, o, p, b)
      BY DEF State
    <3>2. [State(a, y, o, p, b) EXCEPT !.want = NoFlag] = State(NoFlag, y, o, p, b)
      BY DEF State
    <3>3. [State(NoFlag, y, o, p, b) EXCEPT !.bad = b] = State(NoFlag, y, o, p, b)
      BY DEF State
    <3>4. [s EXCEPT !.val = y, !.want = NoFlag, !.bad = b]
            = [[[s EXCEPT !.val = y] EXCEPT !.want = NoFlag] EXCEPT !.bad = b]
      BY Zenon
    <3> QED BY <3>1, <3>2, <3>3, <3>4, Zenon
  <2> HIDE DEF s
  <2>4. Taken(s, w, b)
          = [s EXCEPT !.val = [v EXCEPT ![a] = Append(@, w)], !.want = NoFlag, !.bad = b]
    BY <2>1, <2>2, Zenon DEF Taken
  <2> QED BY <2>3, <2>4
<1> QED BY <1>1, <1>2, <1>3, <1>4

\* A word that is no flag of the command.
Bare(c, w) == ~IsFlag(w, Valued[c]) /\ ~IsFlag(w, Switches(c))

LEMMA FlagsNamed == NoFlag \notin Flag
<1> DEFINE All == {"--file", "--function", "--line", "--name", "--cond", "--hit-expr", "--depth",
                   "--frame", "--host", "--port", "--in", "--exec", "--timeout",
                   "--resume-after"}
<1>1. NoFlag \notin All
  BY Zenon DEF NoFlag
<1>2. Flag \subseteq All
  BY DEF Flag, Valued
<1> QED BY <1>1, <1>2

\* The body of the loop, a case at a time.
LEMMA TakeArgIs ==
  ASSUME NEW c, NEW s, NEW w, s.bad = NoError
  PROVE  /\ s.want # NoFlag =>
              TakeArg(c, s, w) = Taken(s, w, Refuses(s.want, w))
         /\ s.want = NoFlag /\ IsFlag(w, Valued[c]) => TakeArg(c, s, w) = SetWant(s, w[1])
         /\ s.want = NoFlag /\ ~IsFlag(w, Valued[c]) /\ IsFlag(w, Switches(c)) =>
              TakeArg(c, s, w) = SetOn(s, s.on \cup {w[1]})
         /\ s.want = NoFlag /\ Bare(c, w) => TakeArg(c, s, w) = Stray(c, s, w)
BY Zenon DEF TakeArg, Value, NoFlag, Bare, NoError, SetWant, SetOn, Taken

\* The flag f gets the value w.
Gets(v, f, w) == [v EXCEPT ![f] = Append(@, w)]

\* A flag that takes a value, and its value, if it is not refused.
LEMMA TakeFlag ==
  ASSUME NEW c \in Command, NEW f \in Valued[c], NEW v, NEW o, NEW p
  PROVE  /\ TakeArg(c, State(NoFlag, v, o, p, NoError), W(f)) = State(f, v, o, p, NoError)
         /\ \A w : ~Refuses(f, w) =>
              TakeArg(c, State(f, v, o, p, NoError), w)
                = State(NoFlag, Gets(v, f, w), o, p, NoError)
<1> DEFINE s == State(NoFlag, v, o, p, NoError)
           t == State(f, v, o, p, NoError)
<1>1. IsFlag(W(f), Valued[c]) /\ W(f)[1] = f
  BY DEF IsFlag, W
<1>2. f # NoFlag
  BY FlagsNamed, FlagsAreFlags
<1>3. s.want = NoFlag /\ s.bad = NoError /\ t.want = f /\ t.bad = NoError
  BY StateParts
<1>4. SetWant(s, f) = t
  BY StateChanges
<1>5. \A w : Taken(t, w, NoError) = State(NoFlag, Gets(v, f, w), o, p, NoError)
  <2> TAKE w
  <2>1. Taken(t, w, NoError) = State(NoFlag, [v EXCEPT ![f] = Append(@, w)], o, p, NoError)
    BY StateChanges
  <2> QED BY <2>1, Zenon DEF Gets
<1>6. \A w : ~Refuses(f, w) => Refuses(f, w) = NoError
  BY Zenon DEF Refuses, NoError
<1> HIDE DEF s, t
<1>7. TakeArg(c, s, W(f)) = SetWant(s, f)
  BY <1>1, <1>3, TakeArgIs
<1>8. ASSUME NEW w
      PROVE  TakeArg(c, t, w) = Taken(t, w, Refuses(f, w))
  BY <1>2, <1>3, TakeArgIs
<1> QED BY <1>4, <1>5, <1>6, <1>7, <1>8 DEF s, t

\* A switch.
LEMMA TakeSwitch ==
  ASSUME NEW c \in Command, NEW f \in Switches(c), NEW v, NEW o, NEW p
  PROVE  TakeArg(c, State(NoFlag, v, o, p, NoError), W(f))
           = State(NoFlag, v, o \cup {f}, p, NoError)
<1> DEFINE s == State(NoFlag, v, o, p, NoError)
<1>1. IsFlag(W(f), Switches(c)) /\ ~IsFlag(W(f), Valued[c]) /\ W(f)[1] = f
  <2>1. f \notin Valued[c]
    BY DEF Switches, Valued, Command
  <2> QED BY <2>1 DEF IsFlag, W
<1>2. s.want = NoFlag /\ s.bad = NoError /\ s.on = o
  BY StateParts
<1>3. SetOn(s, o \cup {f}) = State(NoFlag, v, o \cup {f}, p, NoError)
  BY StateChanges
<1> HIDE DEF s
<1>4. TakeArg(c, s, W(f)) = SetOn(s, o \cup {f})
  BY <1>1, <1>2, TakeArgIs
<1> QED BY <1>3, <1>4 DEF s

\* The commands that keep the words that are no flags.
Keeps == {"bp", "eval", "goroutine"}

LEMMA TakeWord ==
  ASSUME NEW c \in Keeps, NEW w, Bare(c, w), NEW v, NEW o, NEW p
  PROVE  TakeArg(c, State(NoFlag, v, o, p, NoError), w) = State(NoFlag, v, o, Append(p, w), NoError)
<1> DEFINE s == State(NoFlag, v, o, p, NoError)
<1>1. s.want = NoFlag /\ s.bad = NoError /\ s.pos = p
  BY StateParts
<1>2. SetPos(s, Append(p, w)) = State(NoFlag, v, o, Append(p, w), NoError)
  BY StateChanges
<1> HIDE DEF s
<1>3. TakeArg(c, s, w) = Stray(c, s, w)
  BY <1>1, TakeArgIs
<1>4. Stray(c, s, w) = SetPos(s, Append(p, w))
  <2>1. c \in {"bp", "eval", "goroutine"}
    BY DEF Keeps
  <2> QED BY <1>1, <2>1, Zenon DEF Stray, SetPos
<1> QED BY <1>2, <1>3, <1>4 DEF s

----------------------------------------------------------------------------
(* What the groups of a request come to, in whatever order they are said. *)

Exec(i) == With("--exec", Script[i])

\* The groups G are what has to be said for the loop to end with F.
Collects(c, G, F) ==
  /\ F.val \in [Flag -> Seq(Words)] /\ F.on \subseteq Switches(c)
  /\ \A f \in F.on : <<W(f)>> \in G
  /\ \A f \in Flag \ {"--exec"} :
       F.val[f] = <<>> \/ \E v \in Words : F.val[f] = <<v>> /\ With(f, v) \in G
  /\ F.pos = <<>> \/ \E w \in Words : F.pos = <<w>> /\ Bare(c, w) /\ F.pos \in G
  /\ \/ F.val["--exec"] = <<>>
     \/ F.val["--exec"] = <<Script[1]>> /\ Exec(1) \in G
     \/ F.val["--exec"] = Script /\ Exec(1) \in G /\ Exec(2) \in G
  /\ \A g \in G :
       \/ \E f \in F.on : g = <<W(f)>>
       \/ \E f \in Valued[c] \ {"--exec"}, v \in Words :
            g = With(f, v) /\ F.val[f] = <<v>> /\ ~Refuses(f, v)
       \/ c = "attach" /\ g = Exec(1) /\ F.val["--exec"] # <<>>
       \/ c = "attach" /\ g = Exec(2) /\ F.val["--exec"] = Script
       \/ c = "bp" /\ g = F.pos /\ F.pos # <<>>

\* F without what the groups L give.
LessVal(F, L) ==
  [f \in Flag |-> IF f = "--exec"
                    THEN IF Exec(1) \in L THEN <<>>
                         ELSE IF Exec(2) \in L THEN <<Script[1]>> ELSE F.val[f]
                    ELSE IF \E v \in Words : With(f, v) \in L THEN <<>> ELSE F.val[f]]
LessOn(F, L)  == {f \in F.on : <<W(f)>> \notin L}
LessPos(F, L) == IF F.pos \in L THEN <<>> ELSE F.pos
Less(F, L)    == State(NoFlag, LessVal(F, L), LessOn(F, L), LessPos(F, L), NoError)

\* Which of the --exec commands may be left, and be the next group.
InOrder(F, L) == Exec(1) \in L /\ F.val["--exec"] = Script => Exec(2) \in L
MayCome(L, g) == g = Exec(2) => Exec(1) \notin L

\* Groups differ in what they begin with or in their length.
LEMMA GroupsDiffer ==
  /\ \A f, h, v, w : With(f, v) = With(h, w) => f = h /\ v = w
  /\ \A a, f, v : <<a>> # With(f, v)
  /\ \A a, b : <<a>> = <<b>> => a = b
  /\ \A f, h : W(f) = W(h) => f = h
  /\ \A a, f, v : <<a>> # <<>> /\ With(f, v) # <<>>
  /\ Exec(1) # Exec(2) /\ Script = <<Script[1], Script[2]>> /\ Script # <<Script[1]>>
  /\ Script # <<>> /\ Script[1] \in Words /\ Script[2] \in Words
<1>1. \A f, h : W(f) = W(h) => f = h
  BY DEF W
<1>2. \A f, h, v, w : With(f, v) = With(h, w) => f = h /\ v = w
  BY <1>1 DEF With
<1>3. \A a, f, v : <<a>> # With(f, v)
  BY DEF With
<1>4. \A a, b : <<a>> = <<b>> => a = b
  OBVIOUS
<1>5. \A a, f, v : <<a>> # <<>> /\ With(f, v) # <<>>
  BY DEF With
<1>6. Script = <<Script[1], Script[2]>> /\ Script # <<Script[1]>> /\ Script # <<>>
  BY DEF Script
<1>7. Script[1] \in Words /\ Script[2] \in Words /\ Script[1] # Script[2]
  <2>1. W("c1") \in Words /\ W("c2") \in Words
    BY DEF W, Words, Text, Piece
  <2>2. Script[1] = W("c1") /\ Script[2] = W("c2")
    BY DEF Script
  <2> QED BY <1>1, <2>1, <2>2
<1>8. Exec(1) # Exec(2)
  BY <1>2, <1>7 DEF Exec
<1> QED BY <1>1, <1>2, <1>3, <1>4, <1>5, <1>6, <1>7, <1>8

\* The --exec commands among the groups.
LEMMA ExecGroups ==
  ASSUME NEW c, NEW G, NEW F, Collects(c, G, F)
  PROVE  /\ Exec(1) \in G <=> F.val["--exec"] # <<>>
         /\ Exec(2) \in G <=> F.val["--exec"] = Script
<1>1. /\ \/ F.val["--exec"] = <<>>
         \/ F.val["--exec"] = <<Script[1]>> /\ Exec(1) \in G
         \/ F.val["--exec"] = Script /\ Exec(1) \in G /\ Exec(2) \in G
      /\ \A g \in G :
           \/ \E f \in F.on : g = <<W(f)>>
           \/ \E f \in Valued[c] \ {"--exec"}, v \in Words : g = With(f, v)
           \/ g = Exec(1) /\ F.val["--exec"] # <<>>
           \/ g = Exec(2) /\ F.val["--exec"] = Script
           \/ g = F.pos
      /\ F.pos = <<>> \/ \E w \in Words : F.pos = <<w>>
  BY DEF Collects
<1>2. \A i : /\ Exec(i) # F.pos /\ \A f : Exec(i) # <<W(f)>>
             /\ \A f, v : Exec(i) = With(f, v) => f = "--exec"
  <2> TAKE i
  <2>1. \A f, v : Exec(i) = With(f, v) => f = "--exec"
    BY GroupsDiffer DEF Exec
  <2>2. Exec(i) # <<>> /\ \A a : <<a>> # Exec(i)
    BY GroupsDiffer DEF Exec
  <2> QED BY <1>1, <2>1, <2>2
<1>3. Exec(1) \in G => F.val["--exec"] # <<>>
  BY <1>1, <1>2, GroupsDiffer
<1>4. Exec(2) \in G => F.val["--exec"] = Script
  BY <1>1, <1>2, GroupsDiffer
<1> QED BY <1>1, <1>3, <1>4, GroupsDiffer

\* Before anything is said, the loop has nothing.
LEMMA LessAll ==
  ASSUME NEW c, NEW G, NEW F, Collects(c, G, F)
  PROVE  Less(F, G) = NoArgs
<1>1. \A f \in Flag : LessVal(F, G)[f] = <<>>
  <2> SUFFICES ASSUME NEW f \in Flag PROVE LessVal(F, G)[f] = <<>>
    OBVIOUS
  <2>1. CASE f = "--exec"
    BY <2>1, ExecGroups, GroupsDiffer DEF LessVal
  <2>2. CASE f # "--exec"
    BY <2>2 DEF LessVal, Collects
  <2> QED BY <2>1, <2>2
<1>2. LessVal(F, G) = [f \in Flag |-> <<>>]
  BY <1>1 DEF LessVal
<1>3. LessOn(F, G) = {} /\ LessPos(F, G) = <<>>
  BY DEF LessOn, LessPos, Collects
<1>4. NoArgs = State(NoFlag, [f \in Flag |-> <<>>], {}, <<>>, NoError)
  BY Zenon DEF NoArgs, State, NoFlag, NoError
<1> QED BY <1>2, <1>3, <1>4 DEF Less

\* When all has been said, it has F.
LEMMA LessNone ==
  ASSUME NEW c, NEW G, NEW F, Collects(c, G, F)
  PROVE  Less(F, {}) = State(NoFlag, F.val, F.on, F.pos, NoError)
<1>1. F.val = [f \in Flag |-> F.val[f]]
  BY DEF Collects
<1>2. LessVal(F, {}) = F.val
  BY <1>1 DEF LessVal
<1>3. LessOn(F, {}) = F.on /\ LessPos(F, {}) = F.pos
  BY DEF LessOn, LessPos
<1> QED BY <1>2, <1>3 DEF Less

\* A switch is said.
LEMMA SwitchSaid ==
  ASSUME NEW c \in Command, NEW G, NEW F, Collects(c, G, F), NEW L \in SUBSET G,
         NEW f \in F.on, <<W(f)>> \notin L
  PROVE  TakeArg(c, Less(F, L \cup {<<W(f)>>}), W(f)) = Less(F, L)
<1> DEFINE g == <<W(f)>>
           M == L \cup {g}
<1>1. f \in Switches(c)
  BY DEF Collects
<1>2. /\ Exec(1) \in M <=> Exec(1) \in L
      /\ Exec(2) \in M <=> Exec(2) \in L
      /\ \A h, v : With(h, v) \in M <=> With(h, v) \in L
      /\ \A h : <<W(h)>> \in M <=> <<W(h)>> \in L \/ h = f
  BY GroupsDiffer DEF Exec
<1>3. F.pos \in M <=> F.pos \in L
  <2>1. F.pos = <<>> \/ \E w : F.pos = <<w>> /\ ~IsFlag(w, Switches(c))
    BY DEF Collects, Bare
  <2>2. IsFlag(W(f), Switches(c))
    BY <1>1 DEF IsFlag, W
  <2>3. F.pos # g
    BY <2>1, <2>2, GroupsDiffer
  <2> QED BY <2>3
<1> HIDE DEF M
<1>4. LessVal(F, M) = LessVal(F, L)
  BY <1>2 DEF LessVal
<1>5. LessOn(F, M) \cup {f} = LessOn(F, L)
  BY <1>2 DEF LessOn
<1>6. LessPos(F, M) = LessPos(F, L)
  BY <1>3 DEF LessPos
<1>7. TakeArg(c, Less(F, M), W(f)) = Less(F, L)
  BY <1>1, <1>4, <1>5, <1>6, TakeSwitch DEF Less
<1> QED BY <1>7 DEF M

\* A positional word is said.
LEMMA PositionalSaid ==
  ASSUME NEW G, NEW F, Collects("bp", G, F), NEW L \in SUBSET G,
         NEW w \in Words, F.pos = <<w>>, Bare("bp", w), F.pos \notin L
  PROVE  TakeArg("bp", Less(F, L \cup {F.pos}), w) = Less(F, L)
<1> DEFINE M == L \cup {F.pos}
<1>1. F.on \subseteq Switches("bp")
  BY DEF Collects
<1>2. /\ Exec(1) \in M <=> Exec(1) \in L
      /\ Exec(2) \in M <=> Exec(2) \in L
      /\ \A h, v : With(h, v) \in M <=> With(h, v) \in L
  BY GroupsDiffer DEF Exec
<1>3. \A h \in F.on : <<W(h)>> \in M <=> <<W(h)>> \in L
  <2>1. \A h \in F.on : IsFlag(W(h), Switches("bp"))
    BY <1>1 DEF IsFlag, W
  <2> QED BY <2>1, GroupsDiffer DEF Bare
<1>4. F.pos \in M
  OBVIOUS
<1> HIDE DEF M
<1>5. LessVal(F, M) = LessVal(F, L)
  BY <1>2 DEF LessVal
<1>6. LessOn(F, M) = LessOn(F, L)
  BY <1>3 DEF LessOn
<1>7. LessPos(F, M) = <<>> /\ LessPos(F, L) = <<w>> /\ Append(<<>>, w) = <<w>>
  BY <1>4 DEF LessPos
<1>8. TakeArg("bp", State(NoFlag, LessVal(F, M), LessOn(F, M), LessPos(F, M), NoError), w)
        = State(NoFlag, LessVal(F, M), LessOn(F, M), Append(LessPos(F, M), w), NoError)
  <2>1. "bp" \in Keeps
    BY DEF Keeps
  <2> QED BY <2>1, TakeWord
<1>9. Append(LessPos(F, M), w) = LessPos(F, L)
  BY <1>7
<1>10. TakeArg("bp", Less(F, M), w) = Less(F, L)
  BY <1>5, <1>6, <1>8, <1>9, Zenon DEF Less
<1> QED BY <1>10 DEF M

\* A flag is said, and its value.
LEMMA FlagSaid ==
  ASSUME NEW c \in Command, NEW G, NEW F, Collects(c, G, F), NEW L \in SUBSET G,
         NEW f \in Valued[c], NEW v \in Words, ~Refuses(f, v),
         NEW g, g = With(f, v), g \notin L,
         LET M == L \cup {g}
         IN  Gets(LessVal(F, M), f, v) = LessVal(F, L)
  PROVE  \E t : /\ TakeArg(c, Less(F, L \cup {g}), W(f)) = t
                /\ TakeArg(c, t, v) = Less(F, L)
<1> DEFINE M == L \cup {g}
           t == State(f, LessVal(F, M), LessOn(F, M), LessPos(F, M), NoError)
<1>1. \A h : <<W(h)>> \in M <=> <<W(h)>> \in L
  BY GroupsDiffer
<1>2. F.pos \in M <=> F.pos \in L
  <2>1. F.pos = <<>> \/ \E w : F.pos = <<w>>
    BY DEF Collects
  <2>2. F.pos # With(f, v)
    <3>1. CASE F.pos = <<>>
      BY <3>1, GroupsDiffer
    <3>2. ASSUME NEW w, F.pos = <<w>> PROVE F.pos # With(f, v)
      BY <3>2, GroupsDiffer
    <3> QED BY <2>1, <3>1, <3>2
  <2> QED BY <2>2
<1>3. Gets(LessVal(F, M), f, v) = LessVal(F, L)
  OBVIOUS
<1> HIDE DEF M
<1>4. LessOn(F, M) = LessOn(F, L)
  BY <1>1 DEF LessOn
<1>5. LessPos(F, M) = LessPos(F, L)
  BY <1>2 DEF LessPos
<1>6. TakeArg(c, Less(F, M), W(f)) = t
  BY TakeFlag DEF Less
<1>7. TakeArg(c, t, v) = Less(F, L)
  <2>1. TakeArg(c, t, v) = State(NoFlag, Gets(LessVal(F, M), f, v),
                                 LessOn(F, M), LessPos(F, M), NoError)
    BY TakeFlag
  <2> QED BY <1>3, <1>4, <1>5, <2>1, Zenon DEF Less
<1> QED BY <1>6, <1>7 DEF M

\* The value of a flag but --exec is the only one.
LEMMA ValueSaid ==
  ASSUME NEW c \in Command, NEW G, NEW F, Collects(c, G, F), NEW L \in SUBSET G,
         NEW f \in Valued[c] \ {"--exec"}, NEW v \in Words, With(f, v) \in G \ L,
         F.val[f] = <<v>>
  PROVE  LET M == L \cup {With(f, v)}
         IN  Gets(LessVal(F, M), f, v) = LessVal(F, L)
<1> DEFINE M == L \cup {With(f, v)}
<1>1. f \in Flag
  BY FlagsAreFlags
<1>2. /\ Exec(1) \in M <=> Exec(1) \in L
      /\ Exec(2) \in M <=> Exec(2) \in L
      /\ \A h, u : h # f => (With(h, u) \in M <=> With(h, u) \in L)
      /\ With(f, v) \in M
  BY GroupsDiffer DEF Exec
<1>3. \A u \in Words : With(f, u) \notin L
  <2> SUFFICES ASSUME NEW u \in Words, With(f, u) \in G PROVE u = v
    OBVIOUS
  <2>1. \/ \E h \in F.on : With(f, u) = <<W(h)>>
        \/ \E h, x : With(f, u) = With(h, x) /\ F.val[h] = <<x>>
        \/ With(f, u) = Exec(1) \/ With(f, u) = Exec(2)
        \/ With(f, u) = F.pos /\ \E x : F.pos = <<x>>
    BY DEF Collects
  <2>2. ASSUME NEW h, With(f, u) = <<W(h)>> PROVE FALSE
    BY <2>2, GroupsDiffer
  <2>3. ASSUME NEW h, NEW x, With(f, u) = With(h, x), F.val[h] = <<x>> PROVE u = v
    <3>1. h = f /\ x = u
      BY <2>3, GroupsDiffer
    <3>2. <<u>> = <<v>>
      BY <2>3, <3>1
    <3> QED BY <3>2
  <2>4. ASSUME NEW i, With(f, u) = Exec(i) PROVE FALSE
    BY <2>4, GroupsDiffer DEF Exec
  <2>5. ASSUME NEW x, With(f, u) = <<x>> PROVE FALSE
    BY <2>5, GroupsDiffer
  <2> QED BY <2>1, <2>2, <2>3, <2>4, <2>5
<1> HIDE DEF M
<1>4. LessVal(F, M)[f] = <<>> /\ LessVal(F, L)[f] = <<v>> /\ Append(<<>>, v) = <<v>>
  BY <1>1, <1>2, <1>3 DEF LessVal
<1>5. \A h \in Flag \ {f} : LessVal(F, M)[h] = LessVal(F, L)[h]
  <2> TAKE h \in Flag \ {f}
  <2>1. CASE h = "--exec"
    BY <1>2, <2>1 DEF LessVal
  <2>2. CASE h # "--exec"
    BY <1>2, <2>2 DEF LessVal
  <2> QED BY <2>1, <2>2
<1>6. /\ LessVal(F, M) = [h \in Flag |-> LessVal(F, M)[h]]
      /\ LessVal(F, L) = [h \in Flag |-> LessVal(F, L)[h]]
  BY DEF LessVal
<1>7. Gets(LessVal(F, M), f, v) = LessVal(F, L)
  BY <1>1, <1>4, <1>5, <1>6 DEF Gets
<1> QED BY <1>7 DEF M

\* An --exec command is said, after those before it.
LEMMA ExecSaid ==
  ASSUME NEW c, NEW G, NEW F, Collects(c, G, F), NEW L \in SUBSET G,
         NEW i \in {1, 2}, NEW g, g = Exec(i), g \in G, g \notin L,
         InOrder(F, L \cup {g}), MayCome(L, g)
  PROVE  Gets(LessVal(F, L \cup {g}), "--exec", Script[i]) = LessVal(F, L)
<1> DEFINE M == L \cup {g}
           x == "--exec"
<1>1. x \in Flag
  BY DEF Flag, Valued
<1>2. \A h, u : h # x => (With(h, u) \in M <=> With(h, u) \in L)
  BY GroupsDiffer DEF Exec
<1>3. /\ F.val[x] = <<>> \/ F.val[x] = <<Script[1]>> \/ F.val[x] = Script
      /\ Exec(1) \in G <=> F.val[x] # <<>>
      /\ Exec(2) \in G <=> F.val[x] = Script
  <2>1. F.val[x] = <<>> \/ F.val[x] = <<Script[1]>> \/ F.val[x] = Script
    BY DEF Collects
  <2>2. (Exec(1) \in G <=> F.val[x] # <<>>) /\ (Exec(2) \in G <=> F.val[x] = Script)
    BY ExecGroups
  <2> QED BY <2>1, <2>2
<1>4. /\ LessVal(F, M)[x] = IF Exec(1) \in M THEN <<>>
                            ELSE IF Exec(2) \in M THEN <<Script[1]>> ELSE F.val[x]
      /\ LessVal(F, L)[x] = IF Exec(1) \in L THEN <<>>
                            ELSE IF Exec(2) \in L THEN <<Script[1]>> ELSE F.val[x]
  BY <1>1 DEF LessVal
<1>5. /\ LessVal(F, M) = [h \in Flag |-> LessVal(F, M)[h]]
      /\ LessVal(F, L) = [h \in Flag |-> LessVal(F, L)[h]]
  BY DEF LessVal
<1>6. \A h \in Flag \ {x} : LessVal(F, M)[h] = LessVal(F, L)[h]
  BY <1>2 DEF LessVal
<1>7. Append(LessVal(F, M)[x], Script[i]) = LessVal(F, L)[x]
  <2>1. CASE i = 1
    <3>1. LessVal(F, M)[x] = <<>>
      BY <1>4, <2>1
    <3>2. F.val[x] = Script => Exec(2) \in L
      BY <2>1, GroupsDiffer DEF InOrder
    <3>3. LessVal(F, L)[x] = <<Script[1]>>
      BY <1>3, <1>4, <2>1, <3>2
    <3>4. Append(<<>>, Script[1]) = <<Script[1]>>
      OBVIOUS
    <3> QED BY <2>1, <3>1, <3>3, <3>4
  <2>2. CASE i = 2
    <3>1. Exec(1) \notin M /\ Exec(1) \notin L
      BY <2>2, GroupsDiffer DEF MayCome
    <3>2. LessVal(F, M)[x] = <<Script[1]>>
      BY <1>4, <2>2, <3>1
    <3>3. LessVal(F, L)[x] = Script
      BY <1>3, <1>4, <2>2, <3>1
    <3>4. Append(<<Script[1]>>, Script[2]) = Script
      BY GroupsDiffer
    <3> QED BY <2>2, <3>2, <3>3, <3>4
  <2> QED BY <2>1, <2>2
<1> HIDE DEF M, x
<1>8. Gets(LessVal(F, M), x, Script[i]) = LessVal(F, L)
  BY <1>1, <1>5, <1>6, <1>7 DEF Gets
<1> QED BY <1>8 DEF M, x

\* The words ws, a group or the rest of one, bring the loop from t to u.
Brings(c, t, ws, u) ==
  \/ ws = <<>> /\ t = u
  \/ \E w \in Words : ws = <<w>> /\ TakeArg(c, t, w) = u
  \/ \E w \in Words, v \in Words : ws = <<w, v>> /\ TakeArg(c, TakeArg(c, t, w), v) = u

\* One of their words is taken.
LEMMA BringsOn ==
  ASSUME NEW c, NEW t, NEW u, NEW ws, Brings(c, t, ws, u), ws # <<>>
  PROVE  Head(ws) \in Words /\ Brings(c, TakeArg(c, t, Head(ws)), Tail(ws), u)
<1>1. ASSUME NEW w \in Words, ws = <<w>>, TakeArg(c, t, w) = u
      PROVE  Head(ws) \in Words /\ Brings(c, TakeArg(c, t, Head(ws)), Tail(ws), u)
  <2>1. Head(ws) = w /\ Tail(ws) = <<>>
    BY <1>1
  <2> QED BY <1>1, <2>1 DEF Brings
<1>2. ASSUME NEW w \in Words, NEW v \in Words, ws = <<w, v>>,
             TakeArg(c, TakeArg(c, t, w), v) = u
      PROVE  Head(ws) \in Words /\ Brings(c, TakeArg(c, t, Head(ws)), Tail(ws), u)
  <2>1. Head(ws) = w /\ Tail(ws) = <<v>>
    BY <1>2
  <2> QED BY <1>2, <2>1 DEF Brings
<1> QED BY <1>1, <1>2 DEF Brings

\* A group is said as a whole, and the loop has what it gives.
LEMMA GroupSaid ==
  ASSUME NEW c \in Command, NEW G, NEW F, Collects(c, G, F), NEW L \in SUBSET G,
         NEW g, g \in G, g \notin L, InOrder(F, L \cup {g}), MayCome(L, g)
  PROVE  InOrder(F, L) /\ Brings(c, Less(F, L \cup {g}), g, Less(F, L))
<1> DEFINE M == L \cup {g}
<1>1. InOrder(F, L)
  BY DEF InOrder, MayCome
<1>2. ASSUME NEW f \in F.on, g = <<W(f)>>
      PROVE  Brings(c, Less(F, M), g, Less(F, L))
  <2>1. TakeArg(c, Less(F, M), W(f)) = Less(F, L)
    BY <1>2, SwitchSaid
  <2>2. W(f) \in Words
    <3>1. f \in Switches(c)
      BY DEF Collects
    <3> QED BY <3>1, OnePiece, TextPieces
  <2> HIDE DEF M
  <2> QED BY <1>2, <2>1, <2>2 DEF Brings
<1>3. ASSUME NEW f \in Valued[c], NEW v \in Words, ~Refuses(f, v), g = With(f, v),
             Gets(LessVal(F, M), f, v) = LessVal(F, L)
      PROVE  Brings(c, Less(F, M), g, Less(F, L))
  <2>1. \E t : TakeArg(c, Less(F, M), W(f)) = t /\ TakeArg(c, t, v) = Less(F, L)
    BY <1>3, FlagSaid
  <2>2. W(f) \in Words
    BY OnePiece, TextPieces
  <2> HIDE DEF M
  <2>3. TakeArg(c, TakeArg(c, Less(F, M), W(f)), v) = Less(F, L)
    BY <2>1
  <2>4. g = <<W(f), v>>
    BY <1>3 DEF With
  <2> QED BY <2>2, <2>3, <2>4 DEF Brings
<1>4. ASSUME NEW f \in Valued[c] \ {"--exec"}, NEW v \in Words,
             g = With(f, v), F.val[f] = <<v>>, ~Refuses(f, v)
      PROVE  Brings(c, Less(F, M), g, Less(F, L))
  <2>1. Gets(LessVal(F, M), f, v) = LessVal(F, L)
    BY <1>4, ValueSaid
  <2> QED BY <1>3, <1>4, <2>1
<1>5. ASSUME NEW i \in {1, 2}, g = Exec(i), c = "attach"
      PROVE  Brings(c, Less(F, M), g, Less(F, L))
  <2>1. Gets(LessVal(F, M), "--exec", Script[i]) = LessVal(F, L)
    BY <1>5, ExecSaid
  <2>2. "--exec" \in Valued[c] /\ \A v : ~Refuses("--exec", v)
    BY <1>5 DEF Valued, Refuses
  <2>3. Script[i] \in Words /\ g = With("--exec", Script[i])
    BY <1>5, GroupsDiffer DEF Exec
  <2> QED BY <1>3, <2>1, <2>2, <2>3
<1>6. ASSUME c = "bp", g = F.pos, F.pos # <<>>
      PROVE  Brings(c, Less(F, M), g, Less(F, L))
  <2>1. PICK w \in Words : F.pos = <<w>> /\ Bare("bp", w)
    BY <1>6 DEF Collects
  <2>2. TakeArg("bp", Less(F, M), w) = Less(F, L)
    BY <1>6, <2>1, PositionalSaid
  <2> HIDE DEF M
  <2> QED BY <1>6, <2>1, <2>2 DEF Brings
<1>7. \/ \E f \in F.on : g = <<W(f)>>
      \/ \E f \in Valued[c] \ {"--exec"}, v \in Words :
           g = With(f, v) /\ F.val[f] = <<v>> /\ ~Refuses(f, v)
      \/ \E i \in {1, 2} : c = "attach" /\ g = Exec(i)
      \/ c = "bp" /\ g = F.pos /\ F.pos # <<>>
  BY DEF Collects
<1> QED BY <1>1, <1>2, <1>4, <1>5, <1>6, <1>7

----------------------------------------------------------------------------
(* The requests that are meant, and what the loop has to end with for them. *)

\* With F at its end, the loop leads to the request m.
Means(c, F, m) ==
  \/ c = "bp" /\ BpRequest(Less(F, {})) = m
  \/ c = "attach" /\ m = [ok |-> TRUE, val |-> F.val, on |-> F.on] /\ F.val["--port"] # <<>>

\* The last of the values a flag got.
Latest(vs) == IF vs = <<>> THEN <<>> ELSE Last(vs)

LEMMA LatestOne ==
  Latest(<<>>) = <<>> /\ \A v : Latest(<<v>>) = v
BY DEF Latest, Last

\* The place that the values fs of the flags give, less that of the positionals.
PlaceFlag == {"--file", "--line", "--function"}
Unset(fs) == [file |-> Latest(fs["--file"]), line |-> Atoi(Latest(fs["--line"])),
              function |-> Latest(fs["--function"]), bad |-> NoError]

\* The place r says where p is.
Says(r, p) == /\ r.bad = NoError /\ Location(r) = p.at
              /\ r.function # <<>> \/ (r.file # <<>> /\ r.line # 0)

\* The groups of a place are the values of its flags and a positional.
Gives(p, fs, pos) ==
  /\ fs \in [PlaceFlag -> Seq(Words)]
  /\ \A f \in PlaceFlag : fs[f] = <<>> \/ \E v \in Words : fs[f] = <<v>> /\ With(f, v) \in p.groups
  /\ pos = <<>> \/ \E w \in Words : pos = <<w>> /\ Bare("bp", w) /\ pos \in p.groups
  /\ \A g \in p.groups :
       \/ \E f \in PlaceFlag, v \in Words : g = With(f, v) /\ fs[f] = <<v>>
       \/ g = pos /\ pos # <<>>
  /\ Says(PlaceLoop(Unset(fs), pos), p)

Given(a, b, c) == [f \in PlaceFlag |-> IF f = "--file" THEN a ELSE IF f = "--line" THEN b ELSE c]

LEMMA GivenValues ==
  ASSUME NEW a \in Seq(Words), NEW b \in Seq(Words), NEW c \in Seq(Words)
  PROVE  LET fs == Given(a, b, c)
         IN  /\ fs["--file"] = a /\ fs["--line"] = b /\ fs["--function"] = c
             /\ fs \in [PlaceFlag -> Seq(Words)]
BY DEF Given, PlaceFlag

\* A place that is a file and a line, or a function.
LEMMA SaysLine ==
  ASSUME NEW r, r.bad = NoError, r.file # <<>>, r.line # 0, r.function = <<>>,
         NEW p, p.at = [file |-> r.file, line |-> r.line, function |-> <<>>]
  PROVE  Says(r, p)
BY DEF Says, Location

LEMMA SaysFunction ==
  ASSUME NEW r, r.bad = NoError, r.function # <<>>,
         NEW p, p.at = [file |-> <<>>, line |-> 0, function |-> r.function]
  PROVE  Says(r, p)
BY DEF Says, Location

\* What the flags alone give.
LEMMA UnsetIs ==
  ASSUME NEW fs, NEW a \in Seq(Text), NEW b \in Seq(Text), NEW c \in Seq(Text),
         Latest(fs["--file"]) = a, Latest(fs["--line"]) = b, Latest(fs["--function"]) = c
  PROVE  LET u == Unset(fs)
         IN  /\ u.file = a /\ u.line = Atoi(b) /\ u.function = c /\ u.bad = NoError
             /\ u \in PlaceState
<1> DEFINE u == Unset(fs)
<1>1. u = [file |-> a, line |-> Atoi(b), function |-> c, bad |-> NoError]
  BY DEF Unset
<1>2. Atoi(b) \in Int
  BY AtoiNumber
<1>3. NoError \in BOOLEAN
  BY DEF NoError
<1> HIDE DEF u
<1> QED BY <1>1, <1>2, <1>3 DEF PlaceState, u

\* What bpAdd makes of its first positional.
LEMMA PlaceFirst ==
  ASSUME NEW u \in PlaceState, u.bad = NoError, NEW w \in Words
  PROVE  /\ PlaceLoop(u, <<>>) = u
         /\ PlaceLoop(u, <<w>>) = Place(u, w)
         /\ u.file = <<>> /\ u.function = <<>> /\ At(w) /\ FileOf(w) # <<>> =>
              LET r == Place(u, w)
              IN  /\ r.file = FileOf(w) /\ r.line = Atoi(LineOf(w)) /\ r.function = <<>>
                  /\ r.bad = NoError
         /\ u.file # <<>> /\ u.line = 0 /\ u.function = <<>> /\ IsNumber(w) =>
              LET r == Place(u, w)
              IN  r.file = u.file /\ r.line = Atoi(w) /\ r.function = <<>> /\ r.bad = NoError
         /\ u.file = <<>> /\ u.function = <<>> /\ ~At(w) =>
              LET r == Place(u, w) IN r.function = w /\ r.bad = NoError
<1>1. ~u.bad
  BY Zenon DEF NoError
<1>2. PlaceLoop(u, <<>>) = u /\ PlaceLoop(u, <<w>>) = Place(u, w)
  <2>1. <<>> \in Seq(Words) /\ Append(<<>>, w) = <<w>>
    OBVIOUS
  <2>2. PlaceLoop(u, <<>>) = u /\ PlaceLoop(u, Append(<<>>, w)) = Place(PlaceLoop(u, <<>>), w)
    BY <2>1, PlaceRun
  <2> QED BY <2>1, <2>2
<1>3. ASSUME u.file = <<>>, u.function = <<>>, At(w), FileOf(w) # <<>>
      PROVE  LET r == Place(u, w)
             IN  /\ r.file = FileOf(w) /\ r.line = Atoi(LineOf(w)) /\ r.function = <<>>
                 /\ r.bad = NoError
  BY <1>1, <1>3 DEF Place, PlaceState
<1>4. ASSUME u.file # <<>>, u.line = 0, u.function = <<>>, IsNumber(w)
      PROVE  LET r == Place(u, w)
             IN  r.file = u.file /\ r.line = Atoi(w) /\ r.function = <<>> /\ r.bad = NoError
  BY <1>1, <1>4 DEF Place, PlaceState
<1>5. ASSUME u.file = <<>>, u.function = <<>>, ~At(w)
      PROVE  LET r == Place(u, w) IN r.function = w /\ r.bad = NoError
  BY <1>1, <1>5 DEF Place, PlaceState
<1> QED BY <1>2, <1>3, <1>4, <1>5

\* The words of the places are no flags.
LEMMA BareWords ==
  /\ \A n \in LineNo : Bare("bp", n) /\ Bare("bp", FileLine(W("f"), n))
  /\ Bare("bp", W("g")) /\ ~At(W("g"))
<1> DEFINE flags == Valued["bp"] \cup Switches("bp")
<1>1. \A w : Bare("bp", w) <=> ~(Len(w) = 1 /\ w[1] \in flags)
  BY DEF Bare, IsFlag
<1>2. \A d \in Numeral \cup {"g"} : d \notin flags
  BY DEF Numeral, Valued, Switches
<1> HIDE DEF flags
<1>3. \A n \in LineNo : Bare("bp", n)
  BY <1>1, <1>2, LineNumbers
<1>4. \A n \in LineNo : Bare("bp", FileLine(W("f"), n))
  <2> TAKE n \in LineNo
  <2>1. Len(FileLine(W("f"), n)) > 1
    BY FileAndLine
  <2>2. \A k : k > 1 => k # 1
    OBVIOUS
  <2>3. Len(FileLine(W("f"), n)) # 1
    BY <2>1, <2>2
  <2> QED BY <1>1, <2>3
<1>5. Bare("bp", W("g"))
  <2>1. W("g")[1] = "g"
    BY DEF W
  <2> QED BY <1>1, <1>2, <2>1
<1>6. ~At(W("g"))
  BY DEF At, ToSet, W
<1> QED BY <1>3, <1>4, <1>5, <1>6

\* However a place is said, it is what the loops make of its groups.
LEMMA PlaceGiven ==
  ASSUME NEW p \in Places
  PROVE  \E fs, pos : Gives(p, fs, pos)
<1>1. /\ W("f") \in Words /\ W("g") \in Words
      /\ \A n \in LineNo : n \in Words /\ FileLine(W("f"), n) \in Words
  <2>1. W("f") \in Words /\ W("g") \in Words
    BY OnePiece DEF Text, Piece
  <2> QED BY <2>1, LineNumbers, FileAndLine
<1>2. \A w \in Words : w # <<>> /\ w \in Seq(Text) /\ <<w>> \in Seq(Words)
  BY DEF Words
<1>3. /\ <<>> \in Seq(Words) /\ <<>> \in Seq(Text) /\ Atoi(<<>>) = 0
      /\ Latest(<<>>) = <<>> /\ \A w : Latest(<<w>>) = w
  <2>1. Atoi(<<>>) = 0
    BY Zenon DEF Atoi, IsNumber, Digits
  <2> QED BY <2>1, LatestOne
<1>4. \A f \in PlaceFlag : f = "--file" \/ f = "--line" \/ f = "--function"
  BY DEF PlaceFlag
<1>5. "--file" \in PlaceFlag /\ "--line" \in PlaceFlag /\ "--function" \in PlaceFlag
  BY DEF PlaceFlag
<1>6. ASSUME NEW n \in LineNo, p.groups = {With("--file", W("f")), With("--line", n)},
             p.at = [file |-> W("f"), line |-> Atoi(n), function |-> <<>>]
      PROVE  \E fs, pos : Gives(p, fs, pos)
  <2> DEFINE fs == Given(<<W("f")>>, <<n>>, <<>>)
             u  == Unset(fs)
  <2>1. /\ fs["--file"] = <<W("f")>> /\ fs["--line"] = <<n>> /\ fs["--function"] = <<>>
        /\ fs \in [PlaceFlag -> Seq(Words)]
    BY <1>1, <1>2, <1>3, GivenValues
  <2> HIDE DEF fs
  <2>2. /\ u.file = W("f") /\ u.line = Atoi(n) /\ u.function = <<>> /\ u.bad = NoError
        /\ u \in PlaceState
    <3>1. /\ Latest(fs["--file"]) = W("f") /\ Latest(fs["--line"]) = n
          /\ Latest(fs["--function"]) = <<>>
          /\ W("f") \in Seq(Text) /\ n \in Seq(Text) /\ <<>> \in Seq(Text)
      BY <1>1, <1>2, <1>3, <2>1
    <3>2. /\ u.file = W("f") /\ u.line = Atoi(n) /\ u.function = <<>> /\ u.bad = NoError
          /\ u \in PlaceState
      BY <3>1, UnsetIs
    <3> QED BY <1>3, <3>2
  <2> HIDE DEF u
  <2>3. PlaceLoop(u, <<>>) = u
    BY <1>1, <2>2, PlaceFirst
  <2>4. Says(PlaceLoop(u, <<>>), p)
    BY <1>1, <1>2, <1>6, <2>2, <2>3, LineNumbers, SaysLine
  <2>5. Gives(p, fs, <<>>)
    BY <1>1, <1>4, <1>5, <1>6, <2>1, <2>4 DEF Gives, u
  <2> QED BY <2>5
<1>7. ASSUME NEW n \in LineNo, p.groups = {With("--file", W("f")), <<n>>},
             p.at = [file |-> W("f"), line |-> Atoi(n), function |-> <<>>]
      PROVE  \E fs, pos : Gives(p, fs, pos)
  <2> DEFINE fs == Given(<<W("f")>>, <<>>, <<>>)
             u  == Unset(fs)
  <2>1. /\ fs["--file"] = <<W("f")>> /\ fs["--line"] = <<>> /\ fs["--function"] = <<>>
        /\ fs \in [PlaceFlag -> Seq(Words)]
    BY <1>1, <1>2, <1>3, GivenValues
  <2> HIDE DEF fs
  <2>2. /\ u.file = W("f") /\ u.line = 0 /\ u.function = <<>> /\ u.bad = NoError
        /\ u \in PlaceState
    <3>1. /\ Latest(fs["--file"]) = W("f") /\ Latest(fs["--line"]) = <<>>
          /\ Latest(fs["--function"]) = <<>>
          /\ W("f") \in Seq(Text) /\ <<>> \in Seq(Text) /\ <<>> \in Seq(Text)
      BY <1>1, <1>2, <1>3, <2>1
    <3>2. /\ u.file = W("f") /\ u.line = Atoi(<<>>) /\ u.function = <<>> /\ u.bad = NoError
          /\ u \in PlaceState
      BY <3>1, UnsetIs
    <3> QED BY <1>3, <3>2
  <2> HIDE DEF u
  <2>3. LET r == PlaceLoop(u, <<n>>)
        IN  r.file = W("f") /\ r.line = Atoi(n) /\ r.function = <<>> /\ r.bad = NoError
    BY <1>1, <1>2, <2>2, LineNumbers, PlaceFirst
  <2>4. Says(PlaceLoop(u, <<n>>), p)
    BY <1>1, <1>2, <1>7, <2>3, LineNumbers, SaysLine
  <2>5. Gives(p, fs, <<n>>)
    BY <1>1, <1>4, <1>5, <1>7, <2>1, <2>4, BareWords DEF Gives, u
  <2> QED BY <2>5
<1>8. ASSUME NEW n \in LineNo, p.groups = {<<FileLine(W("f"), n)>>},
             p.at = [file |-> W("f"), line |-> Atoi(n), function |-> <<>>]
      PROVE  \E fs, pos : Gives(p, fs, pos)
  <2> DEFINE fs == Given(<<>>, <<>>, <<>>)
             u  == Unset(fs)
             w  == FileLine(W("f"), n)
  <2>1. /\ fs["--file"] = <<>> /\ fs["--line"] = <<>> /\ fs["--function"] = <<>>
        /\ fs \in [PlaceFlag -> Seq(Words)]
    BY <1>3, GivenValues
  <2> HIDE DEF fs
  <2>2. /\ u.file = <<>> /\ u.line = 0 /\ u.function = <<>> /\ u.bad = NoError
        /\ u \in PlaceState
    <3>1. /\ Latest(fs["--file"]) = <<>> /\ Latest(fs["--line"]) = <<>>
          /\ Latest(fs["--function"]) = <<>>
          /\ <<>> \in Seq(Text) /\ <<>> \in Seq(Text) /\ <<>> \in Seq(Text)
      BY <1>1, <1>2, <1>3, <2>1
    <3>2. /\ u.file = <<>> /\ u.line = Atoi(<<>>) /\ u.function = <<>> /\ u.bad = NoError
          /\ u \in PlaceState
      BY <3>1, UnsetIs
    <3> QED BY <1>3, <3>2
  <2>3. At(w) /\ FileOf(w) = W("f") /\ LineOf(w) = n /\ w \in Words /\ Bare("bp", w)
    BY FileAndLine, BareWords
  <2> HIDE DEF u, w
  <2>4. LET r == PlaceLoop(u, <<w>>)
        IN  r.file = W("f") /\ r.line = Atoi(n) /\ r.function = <<>> /\ r.bad = NoError
    BY <1>1, <1>2, <2>2, <2>3, PlaceFirst
  <2>5. Says(PlaceLoop(u, <<w>>), p)
    BY <1>1, <1>2, <1>8, <2>4, LineNumbers, SaysLine
  <2>6. p.groups = {<<w>>}
    BY <1>8 DEF w
  <2>7. Gives(p, fs, <<w>>)
    BY <1>1, <1>4, <1>5, <2>1, <2>3, <2>5, <2>6 DEF Gives, u
  <2> QED BY <2>7
<1>9. ASSUME p.groups = {With("--function", W("g"))},
             p.at = [file |-> <<>>, line |-> 0, function |-> W("g")]
      PROVE  \E fs, pos : Gives(p, fs, pos)
  <2> DEFINE fs == Given(<<>>, <<>>, <<W("g")>>)
             u  == Unset(fs)
  <2>1. /\ fs["--file"] = <<>> /\ fs["--line"] = <<>> /\ fs["--function"] = <<W("g")>>
        /\ fs \in [PlaceFlag -> Seq(Words)]
    BY <1>1, <1>2, <1>3, GivenValues
  <2> HIDE DEF fs
  <2>2. /\ u.file = <<>> /\ u.line = 0 /\ u.function = W("g") /\ u.bad = NoError
        /\ u \in PlaceState
    <3>1. /\ Latest(fs["--file"]) = <<>> /\ Latest(fs["--line"]) = <<>>
          /\ Latest(fs["--function"]) = W("g")
          /\ <<>> \in Seq(Text) /\ <<>> \in Seq(Text) /\ W("g") \in Seq(Text)
      BY <1>1, <1>2, <1>3, <2>1
    <3>2. /\ u.file = <<>> /\ u.line = Atoi(<<>>) /\ u.function = W("g") /\ u.bad = NoError
          /\ u \in PlaceState
      BY <3>1, UnsetIs
    <3> QED BY <1>3, <3>2
  <2> HIDE DEF u
  <2>3. PlaceLoop(u, <<>>) = u
    BY <1>1, <2>2, PlaceFirst
  <2>4. Says(PlaceLoop(u, <<>>), p)
    BY <1>1, <1>2, <1>9, <2>2, <2>3, SaysFunction
  <2>5. Gives(p, fs, <<>>)
    BY <1>1, <1>4, <1>5, <1>9, <2>1, <2>4 DEF Gives, u
  <2> QED BY <2>5
<1>10. ASSUME p.groups = {<<W("g")>>},
              p.at = [file |-> <<>>, line |-> 0, function |-> W("g")]
       PROVE  \E fs, pos : Gives(p, fs, pos)
  <2> DEFINE fs == Given(<<>>, <<>>, <<>>)
             u  == Unset(fs)
  <2>1. /\ fs["--file"] = <<>> /\ fs["--line"] = <<>> /\ fs["--function"] = <<>>
        /\ fs \in [PlaceFlag -> Seq(Words)]
    BY <1>3, GivenValues
  <2> HIDE DEF fs
  <2>2. /\ u.file = <<>> /\ u.line = 0 /\ u.function = <<>> /\ u.bad = NoError
        /\ u \in PlaceState
    <3>1. /\ Latest(fs["--file"]) = <<>> /\ Latest(fs["--line"]) = <<>>
          /\ Latest(fs["--function"]) = <<>>
          /\ <<>> \in Seq(Text) /\ <<>> \in Seq(Text) /\ <<>> \in Seq(Text)
      BY <1>1, <1>2, <1>3, <2>1
    <3>2. /\ u.file = <<>> /\ u.line = Atoi(<<>>) /\ u.function = <<>> /\ u.bad = NoError
          /\ u \in PlaceState
      BY <3>1, UnsetIs
    <3> QED BY <1>3, <3>2
  <2> HIDE DEF u
  <2>3. LET r == PlaceLoop(u, <<W("g")>>) IN r.function = W("g") /\ r.bad = NoError
    BY <1>1, <2>2, BareWords, PlaceFirst
  <2>4. Says(PlaceLoop(u, <<W("g")>>), p)
    BY <1>1, <1>2, <1>10, <2>3, SaysFunction
  <2>5. Gives(p, fs, <<W("g")>>)
    BY <1>1, <1>4, <1>5, <1>10, <2>1, <2>4, BareWords DEF Gives, u
  <2> QED BY <2>5
<1>11. CASE p \in {[at |-> [file |-> W("f"), line |-> Atoi(n), function |-> <<>>],
          groups |-> CASE form = "flags"  -> {With("--file", W("f")), With("--line", n)}
                       [] form = "mixed"  -> {With("--file", W("f")), <<n>>}
                       [] form = "joined" -> {<<FileLine(W("f"), n)>>}] :
               n \in LineNo, form \in {"flags", "mixed", "joined"}}
  <2>1. PICK n \in LineNo, form \in {"flags", "mixed", "joined"} :
          /\ p.at = [file |-> W("f"), line |-> Atoi(n), function |-> <<>>]
          /\ p.groups = CASE form = "flags"  -> {With("--file", W("f")), With("--line", n)}
                          [] form = "mixed"  -> {With("--file", W("f")), <<n>>}
                          [] form = "joined" -> {<<FileLine(W("f"), n)>>}
    BY <1>11
  <2>2. \/ p.groups = {With("--file", W("f")), With("--line", n)}
        \/ p.groups = {With("--file", W("f")), <<n>>}
        \/ p.groups = {<<FileLine(W("f"), n)>>}
    BY <2>1
  <2> QED BY <1>6, <1>7, <1>8, <2>1, <2>2
<1>12. CASE p \in {[at |-> [file |-> <<>>, line |-> 0, function |-> W("g")], groups |-> {g}] :
                     g \in {With("--function", W("g")), <<W("g")>>}}
  BY <1>9, <1>10, <1>12
<1> QED BY <1>11, <1>12 DEF Places

\* The flags of a place and the options of `bp add'.
LEMMA BpFlags ==
  /\ PlaceFlag \subseteq Valued["bp"] \ {"--exec"} /\ "--exec" \in Flag
  /\ Valued["bp"] \subseteq Flag
  /\ BpOptions \cap PlaceFlag = {} /\ "--exec" \notin BpOptions \cup PlaceFlag
  /\ Switches("bp") \subseteq BpOptions
  /\ BpOptions \ Switches("bp") \subseteq Valued["bp"]
  /\ Flag \cap Switches("bp") = {}
  /\ \A f \in Valued["bp"] : \A v : ~Refuses(f, v)
  /\ \A f \in {"--name", "--cond", "--hit-expr"} :
       f \in BpOptions /\ f \in Flag /\ f \notin PlaceFlag /\ f # "--exec"
<1> USE DEF Valued, BpOptions, Switches, Flag
<1>1. /\ PlaceFlag \subseteq Valued["bp"] \ {"--exec"} /\ "--exec" \in Flag
      /\ Valued["bp"] \subseteq Flag
  BY DEF PlaceFlag
<1>2. BpOptions \cap PlaceFlag = {} /\ "--exec" \notin BpOptions \cup PlaceFlag
  BY DEF PlaceFlag
<1>3. /\ Switches("bp") \subseteq BpOptions
      /\ BpOptions \ Switches("bp") \subseteq Valued["bp"]
      /\ Flag \cap Switches("bp") = {}
  OBVIOUS
<1>4. \A f \in Valued["bp"] : \A v : ~Refuses(f, v)
  BY DEF Refuses
<1>5. \A f \in {"--name", "--cond", "--hit-expr"} :
        f \in BpOptions /\ f \in Flag /\ f \notin PlaceFlag /\ f # "--exec"
  BY DEF PlaceFlag
<1> QED BY <1>1, <1>2, <1>3, <1>4, <1>5

\* The end of the loop for a place and the options S.
BpEnd(fs, pos, S) ==
  [val |-> [f \in Flag |-> IF f \in PlaceFlag THEN fs[f]
                           ELSE IF f \in S THEN <<Sample(f)>> ELSE <<>>],
   on  |-> S \cap Switches("bp"),
   pos |-> pos]

\* The groups of a `bp add' are what has to be said for it.
LEMMA BpCollects ==
  ASSUME NEW p \in Places, NEW S \in OptionSets(BpOptions), NEW fs, NEW pos, Gives(p, fs, pos)
  PROVE  Collects("bp", BpMeaning(p, S).groups, BpEnd(fs, pos, S))
<1> DEFINE F == BpEnd(fs, pos, S)
           G == BpMeaning(p, S).groups
<1>1. /\ F.on = S \cap Switches("bp") /\ F.pos = pos
      /\ \A f \in Flag : F.val[f] = IF f \in PlaceFlag THEN fs[f]
                                    ELSE IF f \in S THEN <<Sample(f)>> ELSE <<>>
      /\ F.val = [f \in Flag |-> F.val[f]]
  BY DEF BpEnd
<1>2. G = p.groups \cup {Group("bp", f) : f \in S} /\ S \subseteq BpOptions
  BY DEF BpMeaning, OptionSets
<1>3. \A f : f \in Switches("bp") => Group("bp", f) = <<W(f)>>
  BY Zenon DEF Group
<1>4. \A f : f \notin Switches("bp") => Group("bp", f) = With(f, Sample(f))
  BY Zenon DEF Group
<1> HIDE DEF F, G
<1>5. /\ fs \in [PlaceFlag -> Seq(Words)]
      /\ \A f \in PlaceFlag :
           fs[f] = <<>> \/ \E v \in Words : fs[f] = <<v>> /\ With(f, v) \in p.groups
      /\ pos = <<>> \/ \E w \in Words : pos = <<w>> /\ Bare("bp", w) /\ pos \in p.groups
      /\ \A g \in p.groups :
           \/ \E f \in PlaceFlag, v \in Words : g = With(f, v) /\ fs[f] = <<v>>
           \/ g = pos /\ pos # <<>>
  BY DEF Gives
<1>6. F.val \in [Flag -> Seq(Words)]
  <2>1. <<>> \in Seq(Words) /\ \A f : <<Sample(f)>> \in Seq(Words)
    BY SampleWord
  <2>2. \A f \in Flag : F.val[f] \in Seq(Words)
    <3> TAKE f \in Flag
    <3>1. CASE f \in PlaceFlag
      <4>1. F.val[f] = fs[f] /\ fs[f] \in Seq(Words)
        BY <1>1, <1>5, <3>1
      <4> QED BY <4>1
    <3>2. CASE f \notin PlaceFlag
      BY <1>1, <2>1, <3>2
    <3> QED BY <3>1, <3>2
  <2> QED BY <1>1, <2>2
<1>7. F.on \subseteq Switches("bp") /\ \A f \in F.on : <<W(f)>> \in G
  BY <1>1, <1>2, <1>3
<1>8. \A f \in Flag \ {"--exec"} :
        F.val[f] = <<>> \/ \E v \in Words : F.val[f] = <<v>> /\ With(f, v) \in G
  <2> TAKE f \in Flag \ {"--exec"}
  <2>1. CASE f \in PlaceFlag
    BY <1>1, <1>2, <1>5, <2>1
  <2>2. CASE f \notin PlaceFlag /\ f \in S
    <3>1. With(f, Sample(f)) \in G
      BY <1>2, <1>4, <2>2, BpFlags
    <3> QED BY <1>1, <2>2, <3>1, SampleWord
  <2>3. CASE f \notin PlaceFlag /\ f \notin S
    BY <1>1, <2>3
  <2> QED BY <2>1, <2>2, <2>3
<1>9. F.pos = <<>> \/ \E w \in Words : F.pos = <<w>> /\ Bare("bp", w) /\ F.pos \in G
  BY <1>1, <1>2, <1>5
<1>10. F.val["--exec"] = <<>>
  BY <1>1, <1>2, BpFlags
<1>11. \A g \in G :
         \/ \E f \in F.on : g = <<W(f)>>
         \/ \E f \in Valued["bp"] \ {"--exec"}, v \in Words :
              g = With(f, v) /\ F.val[f] = <<v>> /\ ~Refuses(f, v)
         \/ g = F.pos /\ F.pos # <<>>
  <2> TAKE g \in G
  <2>1. CASE g \in p.groups
    <3>1. ASSUME NEW f \in PlaceFlag, NEW v \in Words, g = With(f, v), fs[f] = <<v>>
          PROVE  /\ f \in Valued["bp"] \ {"--exec"}
                 /\ g = With(f, v) /\ F.val[f] = <<v>> /\ ~Refuses(f, v)
      <4>1. f \in Valued["bp"] \ {"--exec"} /\ f \in Flag
        BY BpFlags
      <4>2. F.val[f] = <<v>>
        BY <1>1, <3>1, <4>1
      <4>3. ~Refuses(f, v)
        BY <4>1, BpFlags
      <4> QED BY <3>1, <4>1, <4>2, <4>3
    <3>2. CASE g = pos /\ pos # <<>>
      BY <1>1, <3>2
    <3> QED BY <1>5, <2>1, <3>1, <3>2
  <2>2. ASSUME NEW f \in S, g = Group("bp", f)
        PROVE  \/ f \in F.on /\ g = <<W(f)>>
               \/ /\ f \in Valued["bp"] \ {"--exec"} /\ Sample(f) \in Words
                  /\ g = With(f, Sample(f)) /\ F.val[f] = <<Sample(f)>> /\ ~Refuses(f, Sample(f))
    <3>1. CASE f \in Switches("bp")
      BY <1>1, <1>3, <2>2, <3>1
    <3>2. CASE f \notin Switches("bp")
      <4>1. f \in Valued["bp"] \ {"--exec"} /\ f \in Flag /\ f \notin PlaceFlag
        BY <1>2, <3>2, BpFlags
      <4> QED BY <1>1, <1>4, <2>2, <3>2, <4>1, BpFlags, SampleWord
    <3> QED BY <3>1, <3>2
  <2> QED BY <1>2, <2>1, <2>2
<1>12. Collects("bp", G, F)
  BY <1>6, <1>7, <1>8, <1>9, <1>10, <1>11 DEF Collects
<1> QED BY <1>12 DEF F, G

\* And they lead to the request that is meant.
LEMMA BpMeans ==
  ASSUME NEW p \in Places, NEW S \in OptionSets(BpOptions), NEW fs, NEW pos, Gives(p, fs, pos)
  PROVE  BpRequest(Less(BpEnd(fs, pos, S), {})) = BpMeaning(p, S).means
<1> DEFINE F == BpEnd(fs, pos, S)
           s == Less(F, {})
           r == PlaceLoop(Unset(fs), pos)
           v(f) == IF f \in S THEN Sample(f) ELSE <<>>
<1>1. /\ F.on = S \cap Switches("bp") /\ F.pos = pos
      /\ \A f \in Flag : F.val[f] = IF f \in PlaceFlag THEN fs[f]
                                    ELSE IF f \in S THEN <<Sample(f)>> ELSE <<>>
  BY DEF BpEnd
<1>2. s = State(NoFlag, F.val, F.on, F.pos, NoError)
  BY BpCollects, LessNone
<1>3. s.val = F.val /\ s.on = F.on /\ s.pos = pos /\ s.bad = NoError
  BY <1>1, <1>2, StateParts
<1> HIDE DEF F, s, r, v
<1>4. \A f : Got(s, f) = Latest(F.val[f])
  BY <1>3, Zenon DEF Got, Latest
<1>5. Got(s, "--name") = v("--name") /\ Got(s, "--cond") = v("--cond")
      /\ Got(s, "--hit-expr") = v("--hit-expr")
  <2>1. \A f \in {"--name", "--cond", "--hit-expr"} : Latest(F.val[f]) = v(f)
    <3> TAKE f \in {"--name", "--cond", "--hit-expr"}
    <3>1. F.val[f] = IF f \in S THEN <<Sample(f)>> ELSE <<>>
      BY <1>1, BpFlags
    <3> QED BY <3>1, LatestOne DEF v
  <2> QED BY <1>4, <2>1
<1>6. Unplaced(s) = Unset(fs)
  <2>1. \A f \in PlaceFlag : Got(s, f) = Latest(fs[f])
    BY <1>1, <1>4, BpFlags
  <2>2. /\ Got(s, "--file") = Latest(fs["--file"]) /\ Got(s, "--line") = Latest(fs["--line"])
        /\ Got(s, "--function") = Latest(fs["--function"])
    BY <2>1 DEF PlaceFlag
  <2> QED BY <1>3, <2>2, Zenon DEF Unplaced, Unset
<1>7. Placed(s) = r
  BY <1>3, <1>6, Zenon DEF Placed, PlaceLoop, r
<1>8. ~r.bad /\ Location(r) = p.at /\ ~(r.function = <<>> /\ (r.file = <<>> \/ r.line = 0))
  BY Zenon DEF Gives, Says, NoError, r
<1>9. BpRequest(s) = [ok |-> TRUE, at |-> Location(r), name |-> Got(s, "--name"),
                      cond |-> Got(s, "--cond"), hit |-> Got(s, "--hit-expr"), on |-> s.on]
  BY <1>7, <1>8, Zenon DEF BpRequest
<1>10. BpMeaning(p, S).means = [ok |-> TRUE, at |-> p.at, name |-> v("--name"),
                                cond |-> v("--cond"), hit |-> v("--hit-expr"),
                                on |-> S \cap Switches("bp")]
  BY DEF BpMeaning, v
<1>11. BpRequest(s) = BpMeaning(p, S).means
  BY <1>1, <1>3, <1>5, <1>8, <1>9, <1>10, Zenon
<1> QED BY <1>11 DEF s, F

\* The flags of `attach' and the values they are given.
LEMMA AttachFlags ==
  /\ AttachOptions \subseteq Switches("attach") \cup (Valued["attach"] \ {"--exec"})
  /\ "--port" \in Valued["attach"] \ {"--exec"} /\ "--exec" \in Flag
  /\ Valued["attach"] \subseteq Flag /\ Flag \cap Switches("attach") = {}
  /\ \A f \in Valued["attach"] \ {"--exec"} : ~Refuses(f, Sample(f))
<1>1. /\ AttachOptions \subseteq Switches("attach") \cup (Valued["attach"] \ {"--exec"})
      /\ "--port" \in Valued["attach"] \ {"--exec"} /\ "--exec" \in Flag
      /\ Valued["attach"] \subseteq Flag /\ Flag \cap Switches("attach") = {}
  BY DEF AttachOptions, Valued, Switches, Flag
<1>2. \A f \in Valued["attach"] \ {"--exec"} : ~Refuses(f, Sample(f))
  <2> TAKE f \in Valued["attach"] \ {"--exec"}
  <2>1. CASE f \in {"--port", "--timeout"}
    <3>1. Sample(f) = <<"1", "4">>
      BY <2>1, Zenon DEF Sample
    <3> QED BY <2>1, <3>1, GivenNumbers DEF Refuses
  <2>2. CASE f = "--resume-after"
    <3>1. Sample(f) = <<"0">>
      BY <2>2 DEF Sample, W
    <3> QED BY <2>2, <3>1, GivenNumbers DEF Refuses
  <2>3. CASE f \notin {"--port", "--timeout", "--resume-after"}
    BY <2>3 DEF Refuses
  <2> QED BY <2>1, <2>2, <2>3
<1> QED BY <1>1, <1>2

\* The first of the --exec commands.
LEMMA Scripts ==
  /\ Script \in Seq(Words)
  /\ SubSeq(Script, 1, 0) = <<>>
  /\ SubSeq(Script, 1, 1) = <<Script[1]>>
  /\ SubSeq(Script, 1, 2) = Script
<1>1. Script \in Seq(Words) /\ Len(Script) = 2 /\ Script = <<Script[1], Script[2]>>
  <2>1. <<Script[1], Script[2]>> \in Seq(Words) /\ Len(<<Script[1], Script[2]>>) = 2
    BY GroupsDiffer
  <2> QED BY <2>1, GroupsDiffer
<1>2. ASSUME NEW n \in {0, 1, 2}
      PROVE  LET t == SubSeq(Script, 1, n)
             IN  t \in Seq(Words) /\ Len(t) = n /\ \A i \in 1..n : t[i] = Script[i]
  <2>1. n \in Int /\ \A i \in 1..n : Script[i] \in Words
    <3>1. \A i \in 1..n : i = 1 \/ i = 2
      OBVIOUS
    <3> QED BY <3>1, GroupsDiffer
  <2>2. LET t == SubSeq(Script, 1, n)
        IN  /\ t \in Seq(Words) /\ Len(t) = IF 1 <= n THEN n - 1 + 1 ELSE 0
            /\ \A i \in 1..n - 1 + 1 : t[i] = Script[1 + i - 1]
    BY <2>1, SubSeqProperties
  <2>3. \A i \in 1..n : 1 + i - 1 = i
    OBVIOUS
  <2> QED BY <2>2, <2>3
<1>3. SubSeq(Script, 1, 0) = <<>>
  BY <1>2, EmptySeq
<1>4. SubSeq(Script, 1, 1) = <<Script[1]>>
  <2>1. <<Script[1]>> \in Seq(Words) /\ Len(<<Script[1]>>) = 1
    BY GroupsDiffer
  <2>2. LET t == SubSeq(Script, 1, 1)
        IN  t \in Seq(Words) /\ Len(t) = 1 /\ t[1] = Script[1]
    BY <1>2
  <2>3. <<Script[1]>>[1] = Script[1] /\ \A i \in 1..1 : i = 1
    OBVIOUS
  <2> QED BY <2>1, <2>2, <2>3, SeqEqual
<1>5. SubSeq(Script, 1, 2) = Script
  BY <1>1, <1>2, SeqEqual
<1> QED BY <1>1, <1>3, <1>4, <1>5

\* The end of the loop for the flags S and n commands.
AttachEnd(S, n) == [val |-> AttachMeaning(S, n).means.val, on |-> S \cap Switches("attach"),
                    pos |-> <<>>]

\* The groups of an `attach' are what has to be said for it.
LEMMA AttachCollects ==
  ASSUME NEW S \in OptionSets(AttachOptions), NEW n \in 0..2
  PROVE  /\ Collects("attach", AttachMeaning(S, n).groups, AttachEnd(S, n))
         /\ Means("attach", AttachEnd(S, n), AttachMeaning(S, n).means)
<1> DEFINE F == AttachEnd(S, n)
           m == AttachMeaning(S, n)
           G == m.groups
           flags == S \cup {"--port"}
<1>1. /\ F.on = S \cap Switches("attach") /\ F.pos = <<>>
      /\ F.val = [f \in Flag |-> IF f = "--exec" THEN SubSeq(Script, 1, n)
                                 ELSE IF f \in flags THEN <<Sample(f)>> ELSE <<>>]
      /\ G = {Group("attach", f) : f \in flags} \cup {With("--exec", Script[i]) : i \in 1..n}
      /\ m.means.val = F.val /\ m.means.on = F.on
  BY DEF AttachMeaning, AttachEnd
<1>2. m.means = [ok |-> TRUE, val |-> F.val, on |-> F.on]
  BY DEF AttachMeaning, AttachEnd
<1>3. S \subseteq AttachOptions
  BY DEF OptionSets
<1>4. \A f : f \in Switches("attach") => Group("attach", f) = <<W(f)>>
  BY Zenon DEF Group
<1>5. \A f : f \notin Switches("attach") => Group("attach", f) = With(f, Sample(f))
  BY Zenon DEF Group
<1> HIDE DEF F, G, m
<1>6. \/ n = 0 /\ SubSeq(Script, 1, n) = <<>>
      \/ n = 1 /\ SubSeq(Script, 1, n) = <<Script[1]>>
      \/ n = 2 /\ SubSeq(Script, 1, n) = Script
  <2>1. n = 0 \/ n = 1 \/ n = 2
    OBVIOUS
  <2> QED BY <2>1, Scripts
<1>7. /\ F.val["--exec"] = SubSeq(Script, 1, n)
      /\ \A f \in Flag \ {"--exec"} : F.val[f] = IF f \in flags THEN <<Sample(f)>> ELSE <<>>
  BY <1>1, AttachFlags
<1>8. \A f \in flags \ Switches("attach") :
        f \in Valued["attach"] \ {"--exec"} /\ f \in Flag \ {"--exec"} /\ ~Refuses(f, Sample(f))
  BY <1>3, AttachFlags
<1>9. F.val \in [Flag -> Seq(Words)]
  <2>1. /\ <<>> \in Seq(Words) /\ \A f : <<Sample(f)>> \in Seq(Words)
        /\ <<Script[1]>> \in Seq(Words) /\ Script \in Seq(Words)
    BY Scripts, SampleWord, GroupsDiffer
  <2>2. SubSeq(Script, 1, n) \in Seq(Words)
    BY <1>6, <2>1
  <2> QED BY <1>1, <2>1, <2>2
<1>10. F.on \subseteq Switches("attach") /\ \A f \in F.on : <<W(f)>> \in G
  BY <1>1, <1>4
<1>11. \A f \in Flag \ {"--exec"} :
         F.val[f] = <<>> \/ \E v \in Words : F.val[f] = <<v>> /\ With(f, v) \in G
  <2> TAKE f \in Flag \ {"--exec"}
  <2>1. CASE f \in flags
    <3>1. f \notin Switches("attach")
      BY AttachFlags
    <3>2. With(f, Sample(f)) \in G
      BY <1>1, <1>5, <2>1, <3>1
    <3>3. F.val[f] = <<Sample(f)>> /\ Sample(f) \in Words
      BY <1>7, <2>1, SampleWord
    <3> QED BY <3>2, <3>3
  <2>2. CASE f \notin flags
    BY <1>7, <2>2
  <2> QED BY <2>1, <2>2
<1>12. \/ F.val["--exec"] = <<>>
       \/ F.val["--exec"] = <<Script[1]>> /\ Exec(1) \in G
       \/ F.val["--exec"] = Script /\ Exec(1) \in G /\ Exec(2) \in G
  <2>1. \A i \in 1..n : Exec(i) \in G
    BY <1>1 DEF Exec
  <2>2. (n = 1 => 1 \in 1..n) /\ (n = 2 => 1 \in 1..n /\ 2 \in 1..n)
    OBVIOUS
  <2> QED BY <1>6, <1>7, <2>1, <2>2
<1>13. \A g \in G :
         \/ \E f \in F.on : g = <<W(f)>>
         \/ \E f \in Valued["attach"] \ {"--exec"}, v \in Words :
              g = With(f, v) /\ F.val[f] = <<v>> /\ ~Refuses(f, v)
         \/ g = Exec(1) /\ F.val["--exec"] # <<>>
         \/ g = Exec(2) /\ F.val["--exec"] = Script
  <2> TAKE g \in G
  <2>1. ASSUME NEW f \in flags, g = Group("attach", f)
        PROVE  \/ f \in F.on /\ g = <<W(f)>>
               \/ /\ f \in Valued["attach"] \ {"--exec"} /\ Sample(f) \in Words
                  /\ g = With(f, Sample(f)) /\ F.val[f] = <<Sample(f)>> /\ ~Refuses(f, Sample(f))
    <3>1. CASE f \in Switches("attach")
      <4>1. f # "--port"
        BY <3>1, AttachFlags
      <4> QED BY <1>1, <1>4, <2>1, <3>1, <4>1
    <3>2. CASE f \notin Switches("attach")
      BY <1>5, <1>7, <1>8, <2>1, <3>2, SampleWord
    <3> QED BY <3>1, <3>2
  <2>2. ASSUME NEW i \in 1..n, g = Exec(i)
        PROVE  \/ g = Exec(1) /\ F.val["--exec"] # <<>>
               \/ g = Exec(2) /\ F.val["--exec"] = Script
    <3>1. n # 0 /\ (i = 1 \/ (i = 2 /\ n = 2))
      <4>1. n = 0 \/ n = 1 \/ n = 2
        OBVIOUS
      <4> QED BY <4>1
    <3>2. F.val["--exec"] # <<>> /\ (n = 2 => F.val["--exec"] = Script)
      BY <1>6, <1>7, <3>1, GroupsDiffer
    <3> QED BY <2>2, <3>1, <3>2
  <2>3. \/ \E f \in flags : g = Group("attach", f)
        \/ \E i \in 1..n : g = Exec(i)
    BY <1>1 DEF Exec
  <2> QED BY <2>1, <2>2, <2>3
<1>14. Collects("attach", G, F)
  BY <1>1, <1>9, <1>10, <1>11, <1>12, <1>13 DEF Collects
<1>15. F.val["--port"] # <<>>
  <2>1. "--port" \in Flag \ {"--exec"}
    BY AttachFlags
  <2>2. F.val["--port"] = <<Sample("--port")>>
    BY <1>7, <2>1
  <2> QED BY <2>2, GroupsDiffer
<1>16. Means("attach", F, m.means)
  BY <1>2, <1>15, Zenon DEF Means
<1> QED BY <1>14, <1>16 DEF F, G, m

----------------------------------------------------------------------------
(* The requests arrive. *)

\* What an `attach' parses, and `bp' after `add'.
Operands == IF said.cmd = "bp" THEN Tail(Tail(words)) ELSE words

\* `bp' and `add' have yet to be said, or have been.
Opening ==
  /\ said.cmd = "bp"
  /\ \E a \in Alias["bp"], add \in SubAdd :
       \/ words = <<>> /\ said.next = <<W(a), W(add)>>
       \/ words = <<W(a)>> /\ said.next = <<W(add)>>
Opened ==
  said.cmd = "bp" => /\ words # <<>> /\ Tail(words) # <<>>
                     /\ \E add \in SubAdd : Head(Tail(words)) = W(add)

\* F is what the loop will come to once the groups that are left have been said,
\* and it leads to the request that is meant.
OnCourse(F, G) ==
  /\ Collects(said.cmd, G, F) /\ Means(said.cmd, F, said.means) /\ said.left \subseteq G
  /\ \/ Opening /\ said.left = G
     \/ /\ Opened /\ InOrder(F, said.left)
        /\ Brings(said.cmd, ArgsLoop(said.cmd, Operands), said.next, Less(F, said.left))

ToArrive == said.cmd \in {"bp", "attach"} => \E F, G : OnCourse(F, G)

\* All commands may come in order at first.
LEMMA AllInOrder ==
  ASSUME NEW c, NEW G, NEW F, Collects(c, G, F)
  PROVE  InOrder(F, G) /\ Brings(c, NoArgs, <<>>, Less(F, G))
BY ExecGroups, LessAll DEF InOrder, Brings

\* What is said at first can arrive.
LEMMA ArriveFirst ==
  ASSUME Said
  PROVE  ToArrive
<1>1. words = <<>>
  BY DEF Said, Init
<1>2. ASSUME NEW p \in Places, NEW S \in OptionSets(BpOptions), NEW a \in Alias["bp"],
             NEW add \in SubAdd,
             said = Saying("bp", BpMeaning(p, S).means, <<W(a), W(add)>>, BpMeaning(p, S).groups)
      PROVE  ToArrive
  <2>1. PICK fs, pos : Gives(p, fs, pos)
    BY PlaceGiven
  <2> DEFINE F == BpEnd(fs, pos, S)
             G == BpMeaning(p, S).groups
             m == BpMeaning(p, S).means
  <2>2. Collects("bp", G, F) /\ BpRequest(Less(F, {})) = m
    BY <2>1, BpCollects, BpMeans
  <2>3. /\ said.cmd = "bp" /\ said.means = m /\ said.next = <<W(a), W(add)>>
        /\ said.left = G
    BY <1>2 DEF Saying
  <2> HIDE DEF F, G, m
  <2>4. Opening
    BY <1>1, <2>3 DEF Opening
  <2>5. OnCourse(F, G)
    BY <2>2, <2>3, <2>4 DEF OnCourse, Means
  <2> QED BY <2>5 DEF ToArrive
<1>3. ASSUME NEW S \in OptionSets(AttachOptions), NEW n \in 0..2,
             said = Saying("attach", AttachMeaning(S, n).means, <<>>, AttachMeaning(S, n).groups)
      PROVE  ToArrive
  <2> DEFINE F == AttachEnd(S, n)
             G == AttachMeaning(S, n).groups
             m == AttachMeaning(S, n).means
  <2>1. Collects("attach", G, F) /\ Means("attach", F, m)
    BY AttachCollects
  <2>2. said.cmd = "attach" /\ said.means = m /\ said.next = <<>> /\ said.left = G
    BY <1>3 DEF Saying
  <2> HIDE DEF F, G, m
  <2>3. Opened /\ Operands = <<>>
    BY <1>1, <2>2 DEF Opened, Operands
  <2>4. "attach" \in Command
    BY DEF Command, Valued
  <2>5. ArgsLoop("attach", <<>>) = NoArgs
    BY <2>4, ArgsRun
  <2>6. InOrder(F, G) /\ Brings("attach", NoArgs, <<>>, Less(F, G))
    BY <2>1, AllInOrder
  <2>7. OnCourse(F, G)
    BY <2>1, <2>2, <2>3, <2>5, <2>6 DEF OnCourse
  <2> QED BY <2>7 DEF ToArrive
<1>4. CASE said = Saying("words", Usage, <<>>, {})
  <2>1. said.cmd = "words"
    BY <1>4 DEF Saying
  <2> QED BY <2>1 DEF ToArrive
<1>5. CASE said = Saying("loose", Usage, <<W("bp"), W("add")>>, {})
  <2>1. said.cmd = "loose"
    BY <1>5 DEF Saying
  <2> QED BY <2>1 DEF ToArrive
<1>6. ASSUME NEW m \in BpMeant, NEW a \in Alias["bp"], NEW add \in SubAdd,
             said = Saying("bp", m.means, <<W(a), W(add)>>, m.groups)
      PROVE  ToArrive
  <2>1. PICK p \in Places, S \in OptionSets(BpOptions) : m = BpMeaning(p, S)
    BY DEF BpMeant
  <2> QED BY <1>2, <1>6, <2>1
<1>7. ASSUME NEW m \in AttachMeant, said = Saying("attach", m.means, <<>>, m.groups)
      PROVE  ToArrive
  <2>1. PICK S \in OptionSets(AttachOptions), n \in 0..2 : m = AttachMeaning(S, n)
    BY DEF AttachMeant
  <2> QED BY <1>3, <1>7, <2>1
<1> QED BY <1>4, <1>5, <1>6, <1>7 DEF Said

\* The next group.
LEMMA ArriveGroup ==
  ASSUME SaidTypeOK, ToArrive, NextGroup
  PROVE  ToArrive'
<1>1. PICK g \in said.left :
        /\ g = With("--exec", Script[2]) => With("--exec", Script[1]) \notin said.left
        /\ said' = [said EXCEPT !.next = g, !.left = @ \ {g}]
  BY DEF NextGroup
<1>2. /\ said'.cmd = said.cmd /\ said'.means = said.means /\ said'.next = g
      /\ said'.left = said.left \ {g} /\ said.next = <<>> /\ UNCHANGED words
  BY <1>1 DEF SaidTypeOK, Saying, NextGroup, vars
<1>3. ASSUME NEW F, NEW G, OnCourse(F, G), said.cmd \in {"bp", "attach"}
      PROVE  OnCourse(F, G)'
  <2> DEFINE c == said.cmd
             L == said.left \ {g}
             t == ArgsLoop(c, Operands)
  <2>1. ~Opening
    BY <1>2 DEF Opening
  <2>2. /\ Collects(c, G, F) /\ Means(c, F, said.means) /\ said.left \subseteq G
        /\ Opened /\ InOrder(F, said.left) /\ Brings(c, t, <<>>, Less(F, said.left))
    BY <1>2, <1>3, <2>1 DEF OnCourse
  <2>3. c \in Command /\ L \subseteq G /\ g \in G /\ g \notin L /\ said.left = L \cup {g}
    <3>1. c \in Command
      BY <1>3 DEF Command, Valued
    <3> QED BY <2>2, <3>1
  <2>4. MayCome(L, g)
    BY <1>1 DEF MayCome, Exec
  <2> HIDE DEF L, t, c
  <2>5. t = Less(F, L \cup {g})
    BY <2>2, <2>3 DEF Brings
  <2>6. InOrder(F, L \cup {g})
    BY <2>2, <2>3
  <2>7. InOrder(F, L) /\ Brings(c, Less(F, L \cup {g}), g, Less(F, L))
    BY <2>2, <2>3, <2>4, <2>6, GroupSaid
  <2>8. /\ said'.cmd = c /\ said'.means = said.means /\ said'.left = L /\ said'.next = g
    BY <1>2 DEF c, L
  <2>9. Operands' = Operands /\ Opened'
    BY <1>2, <2>2, <2>8 DEF Operands, Opened, c
  <2>10. ArgsLoop(said'.cmd, Operands') = t
    BY <2>8, <2>9 DEF t, c
  <2> QED BY <2>2, <2>3, <2>5, <2>7, <2>8, <2>9, <2>10 DEF OnCourse
<1>4. ASSUME said.cmd \in {"bp", "attach"}
      PROVE  \E F, G : OnCourse(F, G)'
  <2>1. PICK F, G : OnCourse(F, G)
    BY <1>4 DEF ToArrive
  <2>2. OnCourse(F, G)'
    BY <1>3, <1>4, <2>1
  <2> QED BY <2>2
<1> QED BY <1>2, <1>4 DEF ToArrive

LEMMA SecondWord ==
  ASSUME NEW S, NEW x \in S, NEW y \in S
  PROVE  Append(<<x>>, y) = <<x, y>>
<1>1. <<x>> \in Seq(S) /\ <<x, y>> \in Seq(S) /\ Len(<<x>>) = 1 /\ Len(<<x, y>>) = 2
  OBVIOUS
<1> DEFINE t == Append(<<x>>, y)
           u == <<x, y>>
<1>2. t \in Seq(S) /\ Len(t) = 2 /\ t[1] = x /\ t[2] = y
  BY <1>1, AppendProperties
<1>3. u \in Seq(S) /\ Len(u) = 2 /\ u[1] = x /\ u[2] = y
  BY <1>1
<1> HIDE DEF t, u
<1>4. \A i \in 1..Len(t) : t[i] = u[i]
  <2>1. \A i \in 1..2 : i = 1 \/ i = 2
    OBVIOUS
  <2> QED BY <1>2, <1>3, <2>1
<1>5. t = u
  BY <1>2, <1>3, <1>4, SeqEqual
<1> QED BY <1>5 DEF t, u

\* A word of the group, or one of the first two of `bp add'.
LEMMA ArriveWord ==
  ASSUME SaidInv, ToArrive, said.next # <<>>, said' = [said EXCEPT !.next = Tail(@)],
         IF said.cmd = "attach" THEN Pass(Head(said.next)) ELSE Write(Head(said.next))
  PROVE  ToArrive'
<1> DEFINE w == Head(said.next)
<1>1. /\ said'.cmd = said.cmd /\ said'.means = said.means /\ said'.next = Tail(said.next)
      /\ said'.left = said.left
  BY DEF SaidInv, SaidTypeOK, Saying
<1>2. words' = Append(words, w)
  BY DEF Pass, Write
<1>3. ASSUME NEW F, NEW G, OnCourse(F, G), said.cmd \in {"bp", "attach"}
      PROVE  OnCourse(F, G)'
  <2> DEFINE c == said.cmd
  <2>1. Collects(c, G, F) /\ Means(c, F, said.means) /\ said.left \subseteq G
    BY <1>3 DEF OnCourse
  <2>2. c \in Command /\ words \in Seq(Words)
    <3>1. c \in Command
      BY <1>3 DEF Command, Valued
    <3>2. rest = <<>>
      BY DEF Write, Pass, SaidInv, Passed
    <3> QED BY <1>3, <3>1, <3>2, WordsBack
  <2>3. ASSUME Opening, said.left = G
        PROVE  OnCourse(F, G)'
    <3>1. PICK a \in Alias["bp"], add \in SubAdd :
            \/ words = <<>> /\ said.next = <<W(a), W(add)>>
            \/ words = <<W(a)>> /\ said.next = <<W(add)>>
      BY <2>3 DEF Opening
    <3>2. c = "bp"
      BY <2>3 DEF Opening
    <3>3. CASE words = <<>> /\ said.next = <<W(a), W(add)>>
      <4>1. words' = <<W(a)>> /\ said'.next = <<W(add)>>
        BY <1>1, <1>2, <3>3
      <4>2. Opening'
        BY <1>1, <3>2, <4>1 DEF Opening
      <4> QED BY <1>1, <2>1, <2>3, <4>2 DEF OnCourse
    <3>4. CASE words = <<W(a)>> /\ said.next = <<W(add)>>
      <4>1. words' = <<W(a), W(add)>> /\ said'.next = <<>>
        <5>1. w = W(add) /\ said'.next = <<>>
          BY <1>1, <3>4
        <5>2. Append(<<W(a)>>, W(add)) = <<W(a), W(add)>>
          <6>1. W(a) \in Words /\ W(add) \in Words
            <7>1. a \in Text /\ add \in Text
              BY TextPieces DEF Alias
            <7> QED BY <7>1, OnePiece
          <6> QED BY <6>1, SecondWord
        <5> HIDE DEF w
        <5> QED BY <1>2, <3>4, <5>1, <5>2
      <4>2. /\ words' # <<>> /\ Tail(words') = <<W(add)>> /\ Tail(words') # <<>>
            /\ Head(Tail(words')) = W(add) /\ Tail(Tail(words')) = <<>>
        BY <4>1
      <4>3. Opened' /\ Operands' = <<>>
        BY <1>1, <3>2, <4>2 DEF Opened, Operands
      <4>4. ArgsLoop(c, <<>>) = NoArgs
        BY <2>2, ArgsRun
      <4>5. InOrder(F, G) /\ Brings(c, NoArgs, <<>>, Less(F, G))
        BY <2>1, AllInOrder
      <4> QED BY <1>1, <2>1, <2>3, <4>1, <4>3, <4>4, <4>5 DEF OnCourse
    <3> QED BY <3>1, <3>3, <3>4
  <2>4. ASSUME Opened, InOrder(F, said.left),
               Brings(c, ArgsLoop(c, Operands), said.next, Less(F, said.left))
        PROVE  OnCourse(F, G)'
    <3>1. /\ w \in Words
          /\ Brings(c, TakeArg(c, ArgsLoop(c, Operands), w), Tail(said.next), Less(F, said.left))
      BY <2>4, BringsOn
    <3>2. ASSUME c = "bp"
          PROVE  /\ words # <<>> /\ Tail(words) # <<>>
                 /\ Tail(words) \in Seq(Words) /\ Tail(Tail(words)) \in Seq(Words)
                 /\ words' # <<>> /\ Tail(words') # <<>>
                 /\ Head(Tail(words')) = Head(Tail(words))
                 /\ Tail(Tail(words')) = Append(Tail(Tail(words)), w)
      <4>1. words # <<>> /\ Tail(words) # <<>>
        BY <2>4, <3>2 DEF Opened
      <4>2. Tail(words) \in Seq(Words) /\ Tail(Tail(words)) \in Seq(Words)
        BY <2>2, <4>1, HeadTailProperties
      <4> HIDE DEF w
      <4>3. Tail(Append(words, w)) = Append(Tail(words), w) /\ Append(words, w) # <<>>
        BY <2>2, <3>1, <4>1, HeadTailAppend, AppendProperties
      <4> DEFINE t == Tail(words)
      <4>4. t \in Seq(Words) /\ t # <<>> /\ w \in Words
        BY <3>1, <4>1, <4>2
      <4> HIDE DEF t
      <4>5. /\ Head(Append(t, w)) = Head(t) /\ Tail(Append(t, w)) = Append(Tail(t), w)
            /\ Append(t, w) # <<>>
        BY <4>4, HeadTailAppend, AppendProperties
      <4> QED BY <1>2, <4>1, <4>2, <4>3, <4>5 DEF t
    <3>3. Opened'
      BY <1>1, <2>4, <3>2 DEF Opened
    <3>4. Operands \in Seq(Words) /\ Operands' = Append(Operands, w)
      BY <1>1, <1>2, <2>2, <3>2 DEF Operands
    <3>5. ArgsLoop(c, Append(Operands, w)) = TakeArg(c, ArgsLoop(c, Operands), w)
      BY <2>2, <3>1, <3>4, ArgsRun
    <3> QED BY <1>1, <2>1, <2>4, <3>1, <3>3, <3>4, <3>5 DEF OnCourse
  <2> QED BY <1>3, <2>3, <2>4 DEF OnCourse
<1>4. ASSUME said.cmd \in {"bp", "attach"}
      PROVE  \E F, G : OnCourse(F, G)'
  <2>1. PICK F, G : OnCourse(F, G)
    BY <1>4 DEF ToArrive
  <2>2. OnCourse(F, G)'
    BY <1>3, <1>4, <2>1
  <2> QED BY <2>2
<1> QED BY <1>1, <1>4 DEF ToArrive

\* Queries are other commands.
LEMMA QueriesElse ==
  ASSUME NEW m \in QueriesMeant
  PROVE  m.cmd \notin {"bp", "attach"}
<1>1. ASSUME NEW c, NEW means, NEW gs, m = Query(c, means, gs),
             c \in {"stack", "locals", "eval", "goroutine", "source"}
      PROVE  m.cmd \notin {"bp", "attach"}
  BY <1>1 DEF Query
<1>2. m \in StackMeant => \E means, gs : m = Query("stack", means, gs)
  BY Zenon DEF StackMeant
<1>3. m \in LocalsMeant => \E means, gs : m = Query("locals", means, gs)
  BY Zenon DEF LocalsMeant
<1>4. m \in EvalMeant => \E means, gs : m = Query("eval", means, gs)
  BY Zenon DEF EvalMeant
<1>5. m \in GoroutineMeant => \E means, gs : m = Query("goroutine", means, gs)
  BY Zenon DEF GoroutineMeant
<1>6. m \in SourceMeant => \E means, gs : m = Query("source", means, gs)
  BY Zenon DEF SourceMeant
<1> QED BY <1>1, <1>2, <1>3, <1>4, <1>5, <1>6 DEF QueriesMeant

\* No step leads off course.
LEMMA ArriveSafe == InspectionSpec => []ToArrive
<1>1. InspectionInit => ToArrive
  BY ArriveFirst DEF InspectionInit
<1>2. SaidInv /\ ToArrive /\ [InspectionNext]_allVars => ToArrive'
  <2> SUFFICES ASSUME SaidInv, ToArrive, [InspectionNext]_allVars PROVE ToArrive'
    OBVIOUS
  <2>1. ASSUME UNCHANGED <<said, words>>
        PROVE  ToArrive'
    <3>1. \A F, G : OnCourse(F, G)' <=> OnCourse(F, G)
      BY <2>1 DEF OnCourse, Opening, Opened, Operands
    <3> QED BY <2>1, <3>1 DEF ToArrive
  <2>2. CASE Read /\ UNCHANGED said
    BY <2>1, <2>2 DEF Read
  <2>3. CASE UNCHANGED argVars
    BY <2>1, <2>3 DEF argVars, vars
  <2>4. CASE Silence
    BY <2>4 DEF Silence, Saying, ToArrive
  <2>5. CASE Asked
    <3>1. PICK m \in QueriesMeant : \E a \in Alias[m.cmd] :
            said' = Saying(m.cmd, m.means, <<W(a)>>, m.groups)
      BY <2>5 DEF Asked
    <3>2. said'.cmd = m.cmd
      BY <3>1 DEF Saying
    <3> QED BY <3>2, QueriesElse DEF ToArrive
  <2>6. CASE NextGroup
    BY <2>6, ArriveGroup DEF SaidInv
  <2>7. CASE SayWord
    <3>1. CASE said.cmd \in {"words", "loose"} /\ UNCHANGED said
      BY <3>1 DEF ToArrive
    <3>2. CASE /\ said.next # <<>>
               /\ IF said.cmd = "attach" THEN Pass(Head(said.next)) ELSE Write(Head(said.next))
               /\ said' = [said EXCEPT !.next = Tail(@)]
      BY <3>2, ArriveWord
    <3> QED BY <2>7, <3>1, <3>2 DEF SayWord
  <2> QED BY <2>2, <2>3, <2>4, <2>5, <2>6, <2>7, WordSteps
<1> QED BY <1>1, <1>2, SaidSafe, PTL DEF InspectionSpec

\* What Args makes of the end of the loop, when no flag waits for its value.
LEMMA ArgsEnd ==
  ASSUME NEW c, NEW ws, NEW v, NEW o, NEW p,
         ArgsLoop(c, ws) = State(NoFlag, v, o, p, NoError)
  PROVE  Args(c, ws) = State(NoFlag, v, o, p, NoError)
<1> DEFINE s   == ArgsLoop(c, ws)
           bad == s.bad \/ (c = "source" /\ s.want # "")
<1>1. Args(c, ws) = [s EXCEPT !.bad = bad]
  BY Zenon DEF Args, ArgsLoop
<1>2. s = State(NoFlag, v, o, p, NoError)
  OBVIOUS
<1>3. s.bad = NoError /\ s.want = NoFlag
  BY <1>2, StateParts
<1>4. bad = NoError
  BY <1>3, Zenon DEF NoError, NoFlag
<1> HIDE DEF s, bad
<1>5. [s EXCEPT !.bad = NoError] = s
  BY <1>2 DEF State
<1> QED BY <1>1, <1>2, <1>4, <1>5

\* No other command goes by a name of `bp'.
LEMMA OnlyBp ==
  ASSUME NEW a \in Alias["bp"]
  PROVE  \A c \in DOMAIN Alias : a \in Alias[c] <=> c = "bp"
BY DEF Alias

\* A line that begins as one that sets a breakpoint.
LEMMA BpUnderstood ==
  ASSUME SaidInv, LineRead, said.cmd = "bp", Opened
  PROVE  Understood = Request("bp", Tail(words))
<1>1. Fields(scan) = words /\ words \in Seq(Words) /\ words # <<>>
  BY WordsBack DEF LineRead, Opened
<1>2. PICK a \in Alias["bp"] : Head(words) = W(a)
  <2>1. "bp" \in DOMAIN Alias
    BY DEF Alias
  <2> QED BY <1>1, <2>1 DEF SaidInv, Named
<1>3. words[1][1] = a
  BY <1>1, <1>2 DEF W
<1>4. Dispatch(words) = "bp"
  <2>1. "bp" \in DOMAIN Alias
    BY DEF Alias
  <2> QED BY <1>3, <2>1, OnlyBp DEF Dispatch
<1> QED BY <1>1, <1>4, Zenon DEF Understood

\* The request for a breakpoint, once `add' and its arguments have been parsed.
LEMMA BpAsked ==
  ASSUME NEW ws, ws # <<>>, ws[1][1] \in SubAdd, NEW s, s = Args("bp", Tail(ws)), ~s.bad
  PROVE  Request("bp", ws) = BpRequest(s)
BY Zenon DEF Request

LEMMA AttachAsked ==
  ASSUME NEW ws, NEW s, s = Args("attach", ws), ~s.bad, Got(s, "--port") # <<>>
  PROVE  Request("attach", ws) = [ok |-> TRUE, val |-> s.val, on |-> s.on]
BY Zenon DEF Request

\* A breakpoint said in any of the ways of the usage text reaches the server as
\* it was meant: whatever the form of its place, whichever of the options there
\* are, however many and in whatever order, its words in quotes or not.
THEOREM SpecsArrive == InspectionSpec => []SpecArrives
<1>1. SaidInv /\ ToArrive => SpecArrives
  <2> SUFFICES ASSUME SaidInv, ToArrive, LineRead, said.cmd = "bp"
               PROVE  Understood = said.means
    BY DEF SpecArrives, Arrives
  <2>1. PICK F, G : OnCourse(F, G)
    BY DEF ToArrive
  <2>2. said.next = <<>> /\ said.left = {}
    BY DEF LineRead
  <2>3. ~Opening
    BY <2>2 DEF Opening
  <2>4. /\ Opened /\ BpRequest(Less(F, {})) = said.means
        /\ ArgsLoop("bp", Tail(Tail(words))) = Less(F, {})
    BY <2>1, <2>2, <2>3 DEF OnCourse, Means, Brings, Operands
  <2>5. Understood = Request("bp", Tail(words))
    BY <2>4, BpUnderstood
  <2> DEFINE ws == Tail(words)
             s  == Args("bp", Tail(ws))
  <2>6. ws # <<>> /\ ws[1][1] \in SubAdd
    <3>1. words \in Seq(Words) /\ words # <<>> /\ ws # <<>>
      BY <2>4, WordsBack DEF LineRead, Opened
    <3>2. PICK add \in SubAdd : Head(ws) = W(add)
      BY <2>4 DEF Opened
    <3>3. ws \in Seq(Words)
      BY <3>1, HeadTailProperties
    <3>4. ws[1] = W(add)
      BY <3>1, <3>2, <3>3
    <3> QED BY <3>1, <3>4 DEF W
  <2>7. s = Less(F, {})
    BY <2>4, ArgsEnd DEF Less
  <2>8. ~s.bad
    <3>1. s.bad = NoError
      BY <2>7, StateParts DEF Less
    <3> QED BY <3>1, Zenon DEF NoError
  <2> HIDE DEF ws, s
  <2>9. Request("bp", ws) = BpRequest(s)
    BY <2>6, <2>8, BpAsked DEF s
  <2> QED BY <2>4, <2>5, <2>7, <2>9 DEF ws
<1> QED BY <1>1, SaidSafe, ArriveSafe, PTL

\* The flags of `attach' arrive as they were meant, whichever there are, however
\* many and in whatever order, and its --exec commands in the order they were given.
THEOREM OptionsAllArrive == InspectionSpec => []OptionsArrive
<1>1. SaidInv /\ ToArrive => OptionsArrive
  <2> SUFFICES ASSUME SaidInv, ToArrive, LineRead, said.cmd = "attach"
               PROVE  Understood = said.means
    BY DEF OptionsArrive, Arrives
  <2>1. PICK F, G : OnCourse(F, G)
    BY DEF ToArrive
  <2>2. said.next = <<>> /\ said.left = {} /\ ~Opening
    BY DEF LineRead, Opening
  <2>3. /\ Collects("attach", G, F) /\ F.val["--port"] # <<>>
        /\ said.means = [ok |-> TRUE, val |-> F.val, on |-> F.on]
        /\ ArgsLoop("attach", words) = Less(F, {})
    <3>1. /\ Collects("attach", G, F) /\ Means("attach", F, said.means)
          /\ Brings("attach", ArgsLoop("attach", Operands), <<>>, Less(F, {}))
      BY <2>1, <2>2, Zenon DEF OnCourse
    <3>2. Operands = words
      BY DEF Operands
    <3>3. F.val["--port"] # <<>> /\ said.means = [ok |-> TRUE, val |-> F.val, on |-> F.on]
      <4>1. "attach" # "bp"
        OBVIOUS
      <4> QED BY <3>1, <4>1, Zenon DEF Means
    <3>4. ArgsLoop("attach", words) = Less(F, {})
      BY <3>1, <3>2 DEF Brings
    <3> QED BY <3>1, <3>3, <3>4, Zenon
  <2> DEFINE s == Args("attach", words)
  <2>4. Fields(scan) = words
    BY WordsBack DEF LineRead
  <2>5. Understood = Request("attach", words)
    BY <2>4, Zenon DEF Understood
  <2>6. s = Less(F, {})
    BY <2>3, ArgsEnd DEF Less
  <2>7. Less(F, {}) = State(NoFlag, F.val, F.on, F.pos, NoError)
    BY <2>3, LessNone
  <2>8. s.bad = NoError /\ s.val = F.val /\ s.on = F.on
    BY <2>6, <2>7, StateParts
  <2> HIDE DEF s
  <2>9. ~s.bad
    BY <2>8, Zenon DEF NoError
  <2>10. Got(s, "--port") # <<>>
    <3>1. "--port" \in Flag \ {"--exec"}
      BY AttachFlags
    <3>2. PICK v \in Words : F.val["--port"] = <<v>>
      BY <2>3, <3>1 DEF Collects
    <3>3. Got(s, "--port") = Latest(<<v>>)
      BY <2>8, <3>2, Zenon DEF Got, Latest
    <3>4. v # <<>>
      BY DEF Words
    <3> QED BY <3>3, <3>4, LatestOne
  <2>11. Request("attach", words) = [ok |-> TRUE, val |-> s.val, on |-> s.on]
    BY <2>9, <2>10, AttachAsked DEF s
  <2> QED BY <2>3, <2>5, <2>8, <2>11, Zenon
<1> QED BY <1>1, SaidSafe, ArriveSafe, PTL

----------------------------------------------------------------------------
(* The queries, from all their words. *)

\* Before the first word no flag has a value.
NoValues == [f \in Flag |-> <<>>]

LEMMA LoopStarts ==
  ASSUME NEW c \in Command
  PROVE  ArgsLoop(c, <<>>) = State(NoFlag, NoValues, {}, <<>>, NoError)
<1>1. ArgsLoop(c, <<>>) = NoArgs
  BY ArgsRun
<1>2. NoArgs = State(NoFlag, NoValues, {}, <<>>, NoError)
  BY Zenon DEF NoArgs, State, NoFlag, NoValues, NoError
<1> QED BY <1>1, <1>2

\* A flag and its value after other words.
LEMMA LoopTakesFlag ==
  ASSUME NEW c \in Command, NEW ws \in Seq(Words), NEW f \in Valued[c], NEW w \in Words,
         ~Refuses(f, w), NEW v, NEW o, NEW p,
         ArgsLoop(c, ws) = State(NoFlag, v, o, p, NoError)
  PROVE  /\ ws \o With(f, w) \in Seq(Words)
         /\ ArgsLoop(c, ws \o With(f, w)) = State(NoFlag, Gets(v, f, w), o, p, NoError)
<1> DEFINE u == Append(ws, W(f))
           t == Append(u, w)
<1>1. W(f) \in Words
  BY OnePiece, TextPieces
<1>2. u \in Seq(Words)
  BY <1>1, AppendProperties
<1>3. t = ws \o With(f, w) /\ t \in Seq(Words)
  <2> HIDE DEF u
  <2>1. u = ws \o <<W(f)>> /\ t = u \o <<w>>
    BY <1>1, <1>2, AppendIsConcat DEF u
  <2>2. <<W(f)>> \in Seq(Words) /\ <<w>> \in Seq(Words)
    BY <1>1
  <2>3. t = ws \o (<<W(f)>> \o <<w>>)
    BY <2>1, <2>2, ConcatAssociative
  <2>4. <<W(f)>> \o <<w>> = With(f, w)
    <3>1. <<W(f)>> \o <<w>> = Append(<<W(f)>>, w)
      BY <1>1, <2>2, AppendIsConcat
    <3>2. Append(<<W(f)>>, w) = <<W(f), w>>
      BY <1>1, SecondWord
    <3> QED BY <3>1, <3>2 DEF With
  <2>5. t \in Seq(Words)
    BY <1>2, AppendProperties
  <2> QED BY <2>3, <2>4, <2>5
<1> HIDE DEF u
<1>4. ArgsLoop(c, u) = State(f, v, o, p, NoError)
  <2>1. ArgsLoop(c, Append(ws, W(f))) = TakeArg(c, ArgsLoop(c, ws), W(f))
    BY <1>1, ArgsRun
  <2>2. TakeArg(c, State(NoFlag, v, o, p, NoError), W(f)) = State(f, v, o, p, NoError)
    BY TakeFlag
  <2> QED BY <2>1, <2>2 DEF u
<1>5. ArgsLoop(c, t) = State(NoFlag, Gets(v, f, w), o, p, NoError)
  <2>1. ArgsLoop(c, Append(u, w)) = TakeArg(c, ArgsLoop(c, u), w)
    BY <1>2, ArgsRun
  <2>2. TakeArg(c, State(f, v, o, p, NoError), w) = State(NoFlag, Gets(v, f, w), o, p, NoError)
    BY TakeFlag
  <2> QED BY <1>4, <2>1, <2>2
<1> QED BY <1>3, <1>5

\* Words that are no flags, after other words.
Strays(c) == {w \in Words : Bare(c, w)}

LEMMA LoopKeepsWords ==
  ASSUME NEW c \in Keeps, NEW ws \in Seq(Words), NEW v, NEW o, NEW p \in Seq(Words),
         ArgsLoop(c, ws) = State(NoFlag, v, o, p, NoError),
         NEW e \in Seq(Strays(c))
  PROVE  ArgsLoop(c, ws \o e) = State(NoFlag, v, o, p \o e, NoError)
<1> DEFINE B == Strays(c)
           S == {d \in Seq(B) : ArgsLoop(c, ws \o d) = State(NoFlag, v, o, p \o d, NoError)}
<1>0. c \in Command
  BY DEF Keeps, Command, Valued
<1>1. \A d \in Seq(B) : d \in Seq(Words)
  <2>1. B \subseteq Words
    BY DEF Strays
  <2> HIDE DEF B
  <2> QED BY <2>1, SeqMonotonic
<1>2. <<>> \in S
  <2>1. ws \o <<>> = ws /\ p \o <<>> = p
    BY ConcatEmptySeq
  <2>2. <<>> \in Seq(B)
    BY EmptySeq
  <2> QED BY <2>1, <2>2
<1>3. ASSUME NEW d \in Seq(B), NEW w \in B, d \in S
      PROVE  Append(d, w) \in S
  <2>1. Append(d, w) \in Seq(B) /\ d \in Seq(Words) /\ w \in Words /\ Bare(c, w)
    <3>1. Append(d, w) \in Seq(B)
      <4> HIDE DEF B
      <4> QED BY AppendProperties
    <3> QED BY <1>1, <3>1 DEF Strays
  <2>2. \A x \in Seq(Words) : x \o Append(d, w) = Append(x \o d, w) /\ x \o d \in Seq(Words)
    <3> SUFFICES ASSUME NEW x \in Seq(Words)
                 PROVE  x \o Append(d, w) = Append(x \o d, w) /\ x \o d \in Seq(Words)
      OBVIOUS
    <3>1. <<w>> \in Seq(Words) /\ x \o d \in Seq(Words)
      BY <2>1, ConcatProperties
    <3>2. Append(d, w) = d \o <<w>> /\ Append(x \o d, w) = (x \o d) \o <<w>>
      BY <2>1, <3>1, AppendIsConcat
    <3>3. (x \o d) \o <<w>> = x \o (d \o <<w>>)
      BY <2>1, <3>1, ConcatAssociative
    <3> QED BY <3>1, <3>2, <3>3
  <2>3. ArgsLoop(c, Append(ws \o d, w)) = TakeArg(c, ArgsLoop(c, ws \o d), w)
    BY <1>0, <2>1, <2>2, ArgsRun
  <2>4. ArgsLoop(c, ws \o d) = State(NoFlag, v, o, p \o d, NoError)
    BY <1>3
  <2>5. TakeArg(c, State(NoFlag, v, o, p \o d, NoError), w)
          = State(NoFlag, v, o, Append(p \o d, w), NoError)
    BY <2>1, TakeWord
  <2> QED BY <2>1, <2>2, <2>3, <2>4, <2>5
<1>4. Seq(B) \subseteq S
  <2> HIDE DEF B, S
  <2> QED BY <1>2, <1>3, SeqInduction
<1> QED BY <1>4

\* Of what comes before a flag that takes a value, nothing else is changed.
LEMMA ValuesGot ==
  /\ \A f \in Flag : NoValues[f] = <<>>
  /\ \A f \in Flag : \A w : /\ Gets(NoValues, f, w)[f] = <<w>>
                             /\ \A h \in Flag \ {f} : Gets(NoValues, f, w)[h] = <<>>
<1>1. \A f \in Flag : NoValues[f] = <<>>
  BY DEF NoValues
<1>2. ASSUME NEW f \in Flag, NEW w
      PROVE  /\ Gets(NoValues, f, w)[f] = <<w>>
             /\ \A h \in Flag \ {f} : Gets(NoValues, f, w)[h] = <<>>
  <2>1. Append(<<>>, w) = <<w>>
    OBVIOUS
  <2>2. DOMAIN NoValues = Flag
    BY DEF NoValues
  <2> QED BY <1>1, <2>1, <2>2 DEF Gets
<1> QED BY <1>1, <1>2

\* The last value of a flag.
LEMMA GotIs ==
  ASSUME NEW v, NEW o, NEW p
  PROVE  /\ \A f : Got(State(NoFlag, v, o, p, NoError), f) = Latest(v[f])
         /\ State(NoFlag, v, o, p, NoError).pos = p
         /\ ~State(NoFlag, v, o, p, NoError).bad
<1> DEFINE s == State(NoFlag, v, o, p, NoError)
<1>1. s.val = v /\ s.pos = p /\ s.bad = NoError
  BY StateParts
<1> HIDE DEF s
<1>2. \A f : Got(s, f) = Latest(v[f])
  BY <1>1, Zenon DEF Got, Latest
<1>3. ~s.bad
  BY <1>1, Zenon DEF NoError
<1> QED BY <1>1, <1>2, <1>3 DEF s

\* What each query is a request for, when its arguments parse.
LEMMA QueryAsked ==
  ASSUME NEW ws
  PROVE  /\ LET s == Args("stack", ws) IN ~s.bad =>
              Request("stack", ws) = [ok |-> TRUE, depth |-> Depth(Atoi(Got(s, "--depth")))]
         /\ LET s == Args("locals", ws) IN ~s.bad =>
              Request("locals", ws) = [ok |-> TRUE, frame |-> Atoi(Got(s, "--frame"))]
         /\ LET s == Args("eval", ws) IN ~s.bad /\ ws # <<>> =>
              Request("eval", ws) = [ok |-> TRUE, frame |-> Atoi(Got(s, "--frame")),
                                     expr |-> Join(s.pos)]
         /\ LET s == Args("goroutine", ws) IN ~s.bad /\ s.pos # <<>> /\ IsNumber(s.pos[1]) =>
              Request("goroutine", ws) = [ok |-> TRUE, id |-> Atoi(s.pos[1])]
         /\ LET s == Args("source", ws) IN ~s.bad =>
              Request("source", ws) = [ok |-> TRUE, file |-> Got(s, "--file"),
                                       line |-> Atoi(Got(s, "--line"))]
<1>1. LET s == Args("stack", ws) IN ~s.bad =>
        Request("stack", ws) = [ok |-> TRUE, depth |-> Depth(Atoi(Got(s, "--depth")))]
  BY Zenon DEF Request
<1>2. LET s == Args("locals", ws) IN ~s.bad =>
        Request("locals", ws) = [ok |-> TRUE, frame |-> Atoi(Got(s, "--frame"))]
  BY Zenon DEF Request
<1>3. LET s == Args("eval", ws) IN ~s.bad /\ ws # <<>> =>
        Request("eval", ws) = [ok |-> TRUE, frame |-> Atoi(Got(s, "--frame")),
                               expr |-> Join(s.pos)]
  BY Zenon DEF Request
<1>4. LET s == Args("goroutine", ws) IN ~s.bad /\ s.pos # <<>> /\ IsNumber(s.pos[1]) =>
        Request("goroutine", ws) = [ok |-> TRUE, id |-> Atoi(s.pos[1])]
  BY Zenon DEF Request
<1>5. LET s == Args("source", ws) IN ~s.bad =>
        Request("source", ws) = [ok |-> TRUE, file |-> Got(s, "--file"),
                                 line |-> Atoi(Got(s, "--line"))]
  BY Zenon DEF Request
<1> QED BY <1>1, <1>2, <1>3, <1>4, <1>5, Zenon

\* No words, and the words of a flag and its value.
LEMMA ArgsOfFlag ==
  ASSUME NEW c \in Command
  PROVE  /\ Args(c, <<>>) = State(NoFlag, NoValues, {}, <<>>, NoError)
         /\ \A f \in Valued[c], w \in Words : ~Refuses(f, w) =>
              /\ With(f, w) \in Seq(Words)
              /\ ArgsLoop(c, With(f, w)) = State(NoFlag, Gets(NoValues, f, w), {}, <<>>, NoError)
              /\ Args(c, With(f, w)) = State(NoFlag, Gets(NoValues, f, w), {}, <<>>, NoError)
<1>1. ArgsLoop(c, <<>>) = State(NoFlag, NoValues, {}, <<>>, NoError)
  BY LoopStarts
<1>2. Args(c, <<>>) = State(NoFlag, NoValues, {}, <<>>, NoError)
  BY <1>1, ArgsEnd
<1>3. ASSUME NEW f \in Valued[c], NEW w \in Words, ~Refuses(f, w)
      PROVE  /\ With(f, w) \in Seq(Words)
             /\ ArgsLoop(c, With(f, w)) = State(NoFlag, Gets(NoValues, f, w), {}, <<>>, NoError)
             /\ Args(c, With(f, w)) = State(NoFlag, Gets(NoValues, f, w), {}, <<>>, NoError)
  <2>1. With(f, w) \in Seq(Words)
    <3>1. W(f) \in Words
      BY OnePiece, TextPieces
    <3> QED BY <3>1 DEF With
  <2>2. <<>> \in Seq(Words) /\ <<>> \o With(f, w) = With(f, w)
    BY <2>1, EmptySeq, ConcatEmptySeq
  <2>3. ArgsLoop(c, <<>> \o With(f, w)) = State(NoFlag, Gets(NoValues, f, w), {}, <<>>, NoError)
    <3> DEFINE e  == <<>>
               on == {}
    <3>1. e \in Seq(Words) /\ ArgsLoop(c, e) = State(NoFlag, NoValues, on, e, NoError)
      BY <1>1, <2>2
    <3> HIDE DEF e, on
    <3>2. ArgsLoop(c, e \o With(f, w)) = State(NoFlag, Gets(NoValues, f, w), on, e, NoError)
      BY <1>3, <3>1, LoopTakesFlag
    <3> QED BY <3>2 DEF e, on
  <2>4. ArgsLoop(c, With(f, w)) = State(NoFlag, Gets(NoValues, f, w), {}, <<>>, NoError)
    BY <2>2, <2>3
  <2> QED BY <2>1, <2>4, ArgsEnd
<1> QED BY <1>2, <1>3

\* No words are no number.
LEMMA NoNumber == Atoi(<<>>) = 0 /\ Latest(<<>>) = <<>>
<1>1. Digits(<<>>) = <<>>
  BY DEF Digits
<1>2. ~IsNumber(<<>>)
  BY <1>1 DEF IsNumber
<1> QED BY <1>2, LatestOne DEF Atoi

LEMMA NotRefused ==
  \A f \in {"--frame", "--depth", "--file", "--line"} : \A w : ~Refuses(f, w)
BY DEF Refuses

LEMMA StackComes ==
  /\ Request("stack", <<>>) = [ok |-> TRUE, depth |-> 20]
  /\ Request("stack", With("--depth", W("0"))) = [ok |-> TRUE, depth |-> 20]
  /\ Request("stack", With("--depth", W("2"))) = [ok |-> TRUE, depth |-> 2]
<1>1. "stack" \in Command /\ "--depth" \in Valued["stack"] /\ "--depth" \in Flag
  BY DEF Command, Flag, Valued
<1>2. W("0") = <<"0">> /\ W("2") = <<"2">>
  BY DEF W
<1>3. Request("stack", <<>>) = [ok |-> TRUE, depth |-> 20]
  <2> DEFINE s == Args("stack", <<>>)
  <2>1. s = State(NoFlag, NoValues, {}, <<>>, NoError)
    BY <1>1, ArgsOfFlag
  <2> HIDE DEF s
  <2>2. Got(s, "--depth") = <<>> /\ ~s.bad
    BY <1>1, <2>1, GotIs, ValuesGot, NoNumber
  <2>3. Depth(Atoi(Got(s, "--depth"))) = 20
    BY <2>2, NoNumber DEF Depth
  <2>4. Request("stack", <<>>) = [ok |-> TRUE, depth |-> Depth(Atoi(Got(s, "--depth")))]
    BY <2>2, QueryAsked DEF s
  <2> QED BY <2>3, <2>4
<1>4. ASSUME NEW w \in {<<"0">>, <<"2">>}
      PROVE  Request("stack", With("--depth", w)) = [ok |-> TRUE, depth |-> Depth(Atoi(w))]
  <2> DEFINE s == Args("stack", With("--depth", w))
  <2>1. s = State(NoFlag, Gets(NoValues, "--depth", w), {}, <<>>, NoError)
    BY <1>1, GivenNumbers, NotRefused, ArgsOfFlag
  <2> HIDE DEF s
  <2>2. Got(s, "--depth") = w /\ ~s.bad
    BY <1>1, <2>1, GotIs, ValuesGot, LatestOne
  <2>3. Request("stack", With("--depth", w))
          = [ok |-> TRUE, depth |-> Depth(Atoi(Got(s, "--depth")))]
    BY <2>2, QueryAsked DEF s
  <2> QED BY <2>2, <2>3
<1>5. Depth(Atoi(<<"0">>)) = 20 /\ Depth(Atoi(<<"2">>)) = 2
  BY GivenNumbers DEF Depth
<1> QED BY <1>2, <1>3, <1>4, <1>5

LEMMA LocalsComes ==
  /\ Request("locals", <<>>) = [ok |-> TRUE, frame |-> 0]
  /\ Request("locals", FrameTwo) = [ok |-> TRUE, frame |-> 2]
<1>1. "locals" \in Command /\ "--frame" \in Valued["locals"] /\ "--frame" \in Flag
  BY DEF Command, Flag, Valued
<1>2. Request("locals", <<>>) = [ok |-> TRUE, frame |-> 0]
  <2> DEFINE s == Args("locals", <<>>)
  <2>1. s = State(NoFlag, NoValues, {}, <<>>, NoError)
    BY <1>1, ArgsOfFlag
  <2> HIDE DEF s
  <2>2. Got(s, "--frame") = <<>> /\ ~s.bad
    BY <1>1, <2>1, GotIs, ValuesGot, NoNumber
  <2>3. Request("locals", <<>>) = [ok |-> TRUE, frame |-> Atoi(Got(s, "--frame"))]
    BY <2>2, QueryAsked DEF s
  <2> QED BY <2>2, <2>3, NoNumber
<1>3. Request("locals", FrameTwo) = [ok |-> TRUE, frame |-> 2]
  <2> DEFINE w == <<"2">>
             s == Args("locals", With("--frame", w))
  <2>1. w \in Words /\ Atoi(w) = 2
    BY GivenNumbers
  <2>2. FrameTwo = With("--frame", w)
    BY DEF FrameTwo, W
  <2> HIDE DEF w
  <2>3. s = State(NoFlag, Gets(NoValues, "--frame", w), {}, <<>>, NoError)
    BY <1>1, <2>1, NotRefused, ArgsOfFlag
  <2> HIDE DEF s
  <2>4. Got(s, "--frame") = w /\ ~s.bad
    <3>1. Gets(NoValues, "--frame", w)["--frame"] = <<w>>
      BY <1>1, ValuesGot
    <3>2. Got(s, "--frame") = Latest(Gets(NoValues, "--frame", w)["--frame"]) /\ ~s.bad
      BY <2>3, GotIs
    <3> QED BY <3>1, <3>2, LatestOne
  <2>5. Request("locals", With("--frame", w)) = [ok |-> TRUE, frame |-> Atoi(Got(s, "--frame"))]
    BY <2>4, QueryAsked DEF s
  <2> QED BY <2>1, <2>2, <2>4, <2>5
<1> QED BY <1>2, <1>3

LEMMA GoroutineComes ==
  ASSUME NEW n \in {W("1"), W("2")}
  PROVE  Request("goroutine", <<n>>) = [ok |-> TRUE, id |-> Atoi(n)]
<1>1. n \in Seq(Numeral) /\ n # <<>>
  <2>1. \A d \in Numeral : <<d>> \in Seq(Numeral) /\ <<d>> # <<>>
    OBVIOUS
  <2>2. n = <<"1">> \/ n = <<"2">>
    BY DEF W
  <2>3. "1" \in Numeral /\ "2" \in Numeral
    BY DEF Numeral
  <2> QED BY <2>1, <2>2, <2>3
<1>2. IsNumber(n)
  BY <1>1, Unsigned
<1>3. n \in Words /\ Bare("goroutine", n)
  <2>1. n \in Words
    <3>1. Numeral \subseteq Text
      BY TextPieces
    <3> QED BY <1>1, <3>1, SeqMonotonic DEF Words
  <2>2. Valued["goroutine"] = {} /\ Switches("goroutine") = {}
    BY DEF Valued, Switches
  <2> QED BY <2>1, <2>2 DEF Bare, IsFlag
<1>4. "goroutine" \in Keeps /\ "goroutine" \in Command
  BY DEF Keeps, Command, Valued
<1> DEFINE s == Args("goroutine", <<n>>)
<1>5. s = State(NoFlag, NoValues, {}, <<n>>, NoError)
  <2>1. ArgsLoop("goroutine", Append(<<>>, n))
          = TakeArg("goroutine", ArgsLoop("goroutine", <<>>), n)
    BY <1>3, <1>4, EmptySeq, ArgsRun
  <2>2. \A o, p : TakeArg("goroutine", State(NoFlag, NoValues, o, p, NoError), n)
                    = State(NoFlag, NoValues, o, Append(p, n), NoError)
    BY <1>3, <1>4, TakeWord
  <2>3. Append(<<>>, n) = <<n>>
    OBVIOUS
  <2>4. ArgsLoop("goroutine", <<n>>) = State(NoFlag, NoValues, {}, <<n>>, NoError)
    BY <1>4, <2>1, <2>2, <2>3, LoopStarts
  <2> QED BY <2>4, ArgsEnd
<1> HIDE DEF s
<1>6. s.pos = <<n>> /\ ~s.bad
  BY <1>5, GotIs
<1>7. s.pos # <<>> /\ s.pos[1] = n
  BY <1>6
<1>8. Request("goroutine", <<n>>) = [ok |-> TRUE, id |-> Atoi(s.pos[1])]
  BY <1>2, <1>6, <1>7, QueryAsked DEF s
<1> QED BY <1>7, <1>8

\* Two flags and their values.
LEMMA ArgsOfTwo ==
  ASSUME NEW c \in Command, NEW f \in Valued[c], NEW h \in Valued[c], f # h,
         NEW x \in Words, NEW y \in Words, ~Refuses(f, x), ~Refuses(h, y)
  PROVE  LET s == Args(c, With(f, x) \o With(h, y))
         IN  Got(s, f) = x /\ Got(s, h) = y /\ ~s.bad
<1> DEFINE ws == With(f, x)
           on == {}
           e  == <<>>
           v  == Gets(NoValues, f, x)
           s  == Args(c, ws \o With(h, y))
<1>1. ws \in Seq(Words) /\ ArgsLoop(c, ws) = State(NoFlag, v, on, e, NoError)
  BY ArgsOfFlag
<1>2. f \in Flag /\ h \in Flag
  BY FlagsAreFlags
<1>3. v[f] = <<x>> /\ v[h] = <<>> /\ DOMAIN v = Flag
  <2>1. v[f] = <<x>> /\ v[h] = <<>>
    BY <1>2, ValuesGot
  <2>2. DOMAIN v = Flag
    BY DEF NoValues, Gets
  <2> QED BY <2>1, <2>2
<1> HIDE DEF ws, on, e, v
<1>4. ArgsLoop(c, ws \o With(h, y)) = State(NoFlag, Gets(v, h, y), on, e, NoError)
  BY <1>1, LoopTakesFlag
<1>5. s = State(NoFlag, Gets(v, h, y), on, e, NoError)
  BY <1>4, ArgsEnd
<1>6. Gets(v, h, y)[f] = <<x>> /\ Gets(v, h, y)[h] = <<y>>
  <2>1. Append(<<>>, y) = <<y>>
    OBVIOUS
  <2> QED BY <1>2, <1>3, <2>1 DEF Gets
<1>7. ~s.bad /\ \A k : Got(s, k) = Latest(Gets(v, h, y)[k])
  <2> HIDE DEF s
  <2> QED BY <1>5, GotIs
<1> HIDE DEF s
<1>8. Got(s, f) = x /\ Got(s, h) = y /\ ~s.bad
  BY <1>6, <1>7, LatestOne
<1> QED BY <1>8 DEF s, ws

\* A file and a line in one word.
PutPlace(s, a, b) == [s EXCEPT !.val["--file"] = Append(@, a), !.val["--line"] = Append(@, b)]

LEMMA PlacePut ==
  ASSUME NEW v, NEW o, NEW p, NEW a, NEW b
  PROVE  PutPlace(State(NoFlag, v, o, p, NoError), a, b)
           = State(NoFlag, Gets(Gets(v, "--file", a), "--line", b), o, p, NoError)
<1> DEFINE SetVal(s, x) == [s EXCEPT !.val = x]
<1>1. \A s, f, x : [s EXCEPT !.val[f] = Append(@, x)] = SetVal(s, Gets(s.val, f, x))
  BY Zenon DEF Gets
<1>2. \A x, y : SetVal(State(NoFlag, x, o, p, NoError), y) = State(NoFlag, y, o, p, NoError)
  BY DEF State
<1>3. \A x : State(NoFlag, x, o, p, NoError).val = x
  BY StateParts
<1> HIDE DEF SetVal
<1>4. ASSUME NEW y, NEW f, NEW x
      PROVE  [State(NoFlag, y, o, p, NoError) EXCEPT !.val[f] = Append(@, x)]
               = State(NoFlag, Gets(y, f, x), o, p, NoError)
  <2> DEFINE s == State(NoFlag, y, o, p, NoError)
  <2>1. [s EXCEPT !.val[f] = Append(@, x)] = SetVal(s, Gets(s.val, f, x))
    BY <1>1
  <2>2. s.val = y /\ \A z : SetVal(s, z) = State(NoFlag, z, o, p, NoError)
    BY <1>2, <1>3
  <2> HIDE DEF s
  <2>3. [s EXCEPT !.val[f] = Append(@, x)] = State(NoFlag, Gets(y, f, x), o, p, NoError)
    BY <2>1, <2>2
  <2> QED BY <2>3 DEF s
<1> DEFINE s == State(NoFlag, v, o, p, NoError)
           t == State(NoFlag, Gets(v, "--file", a), o, p, NoError)
<1>5. [s EXCEPT !.val["--file"] = Append(@, a)] = t
  BY <1>4
<1>6. [t EXCEPT !.val["--line"] = Append(@, b)]
        = State(NoFlag, Gets(Gets(v, "--file", a), "--line", b), o, p, NoError)
  BY <1>4
<1> HIDE DEF s, t
<1>7. PutPlace(s, a, b) = [[s EXCEPT !.val["--file"] = Append(@, a)]
                             EXCEPT !.val["--line"] = Append(@, b)]
  BY Zenon DEF PutPlace
<1>8. PutPlace(s, a, b) = [t EXCEPT !.val["--line"] = Append(@, b)]
  BY <1>5, <1>7, Zenon
<1> QED BY <1>6, <1>8 DEF s

LEMMA SourceComes ==
  /\ Request("source", <<>>) = [ok |-> TRUE, file |-> <<>>, line |-> 0]
  /\ \A n \in LineNo :
       LET m == [ok |-> TRUE, file |-> W("f"), line |-> Atoi(n)]
           f == With("--file", W("f"))
           l == With("--line", n)
       IN  /\ Request("source", f \o l) = m /\ Request("source", l \o f) = m
           /\ Request("source", <<FileLine(W("f"), n)>>) = m
<1>1. /\ "source" \in Command /\ "--file" \in Valued["source"] /\ "--line" \in Valued["source"]
      /\ "--file" \in Flag /\ "--line" \in Flag /\ "--file" # "--line"
  BY DEF Command, Flag, Valued
<1>2. Request("source", <<>>) = [ok |-> TRUE, file |-> <<>>, line |-> 0]
  <2> DEFINE s == Args("source", <<>>)
  <2>1. s = State(NoFlag, NoValues, {}, <<>>, NoError)
    BY <1>1, ArgsOfFlag
  <2> HIDE DEF s
  <2>2. Got(s, "--file") = <<>> /\ Got(s, "--line") = <<>> /\ ~s.bad
    BY <1>1, <2>1, GotIs, ValuesGot, NoNumber
  <2>3. Request("source", <<>>) = [ok |-> TRUE, file |-> Got(s, "--file"),
                                   line |-> Atoi(Got(s, "--line"))]
    BY <2>2, QueryAsked DEF s
  <2> QED BY <2>2, <2>3, NoNumber
<1>3. ASSUME NEW n \in LineNo
      PROVE  LET m == [ok |-> TRUE, file |-> W("f"), line |-> Atoi(n)]
                 f == With("--file", W("f"))
                 l == With("--line", n)
             IN  /\ Request("source", f \o l) = m /\ Request("source", l \o f) = m
                 /\ Request("source", <<FileLine(W("f"), n)>>) = m
  <2> DEFINE x == W("f")
             m == [ok |-> TRUE, file |-> x, line |-> Atoi(n)]
             f == With("--file", x)
             l == With("--line", n)
             w == FileLine(x, n)
  <2>1. x \in Words /\ n \in Words
    <3>1. "f" \in Text
      BY DEF Text, Piece
    <3> QED BY <3>1, OnePiece, LineNumbers
  <2>2. ASSUME NEW ws, LET s == Args("source", ws)
                       IN  Got(s, "--file") = x /\ Got(s, "--line") = n /\ ~s.bad
        PROVE  Request("source", ws) = m
    <3> HIDE DEF x
    <3> DEFINE s == Args("source", ws)
    <3>1. Got(s, "--file") = x /\ Got(s, "--line") = n /\ ~s.bad
      BY <2>2
    <3> HIDE DEF s
    <3>2. Request("source", ws) = [ok |-> TRUE, file |-> Got(s, "--file"),
                                   line |-> Atoi(Got(s, "--line"))]
      BY <3>1, QueryAsked DEF s
    <3> QED BY <3>1, <3>2
  <2>3. Request("source", f \o l) = m /\ Request("source", l \o f) = m
    <3>1. ~Refuses("--file", x) /\ ~Refuses("--line", n)
      BY NotRefused
    <3> HIDE DEF x, m
    <3>2. LET s == Args("source", f \o l)
          IN  Got(s, "--file") = x /\ Got(s, "--line") = n /\ ~s.bad
      BY <1>1, <2>1, <3>1, ArgsOfTwo
    <3>3. LET s == Args("source", l \o f)
          IN  Got(s, "--line") = n /\ Got(s, "--file") = x /\ ~s.bad
      BY <1>1, <2>1, <3>1, ArgsOfTwo
    <3>4. LET s == Args("source", l \o f)
          IN  Got(s, "--file") = x /\ Got(s, "--line") = n /\ ~s.bad
      BY <3>3
    <3> HIDE DEF f, l
    <3> QED BY <2>2, <3>2, <3>4
  <2>4. Request("source", <<w>>) = m
    <3>1. w \in Words /\ Len(w) > 1 /\ At(w) /\ FileOf(w) = x /\ LineOf(w) = n
      BY FileAndLine
    <3> HIDE DEF w, x, m
    <3> DEFINE o  == {}
               e  == <<>>
               s0 == State(NoFlag, NoValues, o, e, NoError)
               v  == Gets(Gets(NoValues, "--file", x), "--line", n)
               s  == Args("source", <<w>>)
    <3>2. ArgsLoop("source", e) = s0 /\ e \in Seq(Words) /\ Append(e, w) = <<w>>
      BY <1>1, LoopStarts
    <3>3. /\ v["--file"] = <<x>> /\ v["--line"] = <<n>>
      <4>1. Append(<<>>, n) = <<n>> /\ DOMAIN NoValues = Flag
        BY DEF NoValues
      <4>2. /\ Gets(NoValues, "--file", x)["--file"] = <<x>>
            /\ Gets(NoValues, "--file", x)["--line"] = <<>>
        BY <1>1, ValuesGot
      <4>3. DOMAIN Gets(NoValues, "--file", x) = Flag
        BY <4>1 DEF Gets
      <4> HIDE DEF e
      <4> QED BY <1>1, <4>1, <4>2, <4>3 DEF Gets
    <3> HIDE DEF o, e, v
    <3>4. s0.want = NoFlag /\ s0.bad = NoError /\ s0.val = NoValues
      BY StateParts
    <3>5. PutPlace(s0, x, n) = State(NoFlag, v, o, e, NoError)
      BY PlacePut DEF v
    <3>6. Bare("source", w)
      <4>1. Len(w) \in Nat
        BY <3>1, LenProperties DEF Words
      <4>2. Len(w) > 1
        BY <3>1, Zenon
      <4>3. \A k \in Nat : k > 1 => k # 1
        OBVIOUS
      <4>4. Len(w) # 1
        BY <4>1, <4>2, <4>3, Zenon
      <4> QED BY <4>4 DEF Bare, IsFlag
    <3>7. Got(s0, "--file") = <<>>
      <4>1. Got(s0, "--file") = Latest(NoValues["--file"])
        BY GotIs
      <4>2. NoValues["--file"] = <<>>
        BY <1>1, ValuesGot
      <4> QED BY <4>1, <4>2, NoNumber
    <3> HIDE DEF s0
    <3>8. TakeArg("source", s0, w) = Stray("source", s0, w)
      BY <3>4, <3>6, TakeArgIs
    <3>9. Stray("source", s0, w) = PutPlace(s0, x, n)
      BY <3>1, <3>7, Zenon DEF Stray, PutPlace
    <3>10. ArgsLoop("source", <<w>>) = TakeArg("source", s0, w)
      <4>1. ArgsLoop("source", Append(e, w)) = TakeArg("source", ArgsLoop("source", e), w)
        BY <1>1, <3>1, <3>2, ArgsRun
      <4> QED BY <3>2, <4>1
    <3>11. s = State(NoFlag, v, o, e, NoError)
      <4>1. ArgsLoop("source", <<w>>) = State(NoFlag, v, o, e, NoError)
        BY <3>5, <3>8, <3>9, <3>10
      <4> QED BY <4>1, ArgsEnd
    <3>12. ~s.bad /\ \A k : Got(s, k) = Latest(v[k])
      <4> HIDE DEF s
      <4> QED BY <3>11, GotIs
    <3> HIDE DEF s
    <3>13. Got(s, "--file") = x /\ Got(s, "--line") = n
      BY <3>3, <3>12, LatestOne
    <3> QED BY <2>2, <3>12, <3>13 DEF s
  <2> QED BY <2>3, <2>4
<1> QED BY <1>2, <1>3

\* An expression may have --frame anywhere.
LEMMA EvalComes ==
  ASSUME NEW e \in Seq(Strays("eval")), e # <<>>
  PROVE  /\ Request("eval", e) = [ok |-> TRUE, frame |-> 0, expr |-> Join(e)]
         /\ \A i \in 0..Len(e) :
              Request("eval", SubSeq(e, 1, i) \o FrameTwo \o SubSeq(e, i + 1, Len(e)))
                = [ok |-> TRUE, frame |-> 2, expr |-> Join(e)]
<1> DEFINE B  == Strays("eval")
           on == {}
           no == <<>>
<1>1. "eval" \in Command /\ "--frame" \in Valued["eval"] /\ "--frame" \in Flag /\ "eval" \in Keeps
  BY DEF Command, Flag, Valued, Keeps
<1>2. \A d \in Seq(B) : d \in Seq(Words)
  <2>1. B \subseteq Words
    BY DEF Strays
  <2> HIDE DEF B
  <2> QED BY <2>1, SeqMonotonic
<1>3. ArgsLoop("eval", no) = State(NoFlag, NoValues, on, no, NoError) /\ no \in Seq(Words)
  BY <1>1, LoopStarts
<1>4. \A d \in Seq(Words) : no \o d = d
  BY ConcatEmptySeq
<1>5. NoValues["--frame"] = <<>>
  BY <1>1, ValuesGot
<1> HIDE DEF on, no
<1>6. \A d \in Seq(B) : ArgsLoop("eval", d) = State(NoFlag, NoValues, on, d, NoError)
  <2> SUFFICES ASSUME NEW d \in Seq(B)
               PROVE  ArgsLoop("eval", d) = State(NoFlag, NoValues, on, d, NoError)
    OBVIOUS
  <2>1. ArgsLoop("eval", no \o d) = State(NoFlag, NoValues, on, no \o d, NoError)
    BY <1>1, <1>3, LoopKeepsWords
  <2> QED BY <1>2, <1>4, <2>1
<1>7. ASSUME NEW ws, ws # <<>>, NEW v, ArgsLoop("eval", ws) = State(NoFlag, v, on, e, NoError)
      PROVE  Request("eval", ws) = [ok |-> TRUE, frame |-> Atoi(Latest(v["--frame"])),
                                    expr |-> Join(e)]
  <2> DEFINE s == Args("eval", ws)
  <2>1. s = State(NoFlag, v, on, e, NoError)
    BY <1>7, ArgsEnd
  <2> HIDE DEF s
  <2>2. ~s.bad /\ s.pos = e /\ Got(s, "--frame") = Latest(v["--frame"])
    BY <2>1, GotIs
  <2>3. Request("eval", ws) = [ok |-> TRUE, frame |-> Atoi(Got(s, "--frame")),
                               expr |-> Join(s.pos)]
    BY <1>7, <2>2, QueryAsked DEF s
  <2> QED BY <2>2, <2>3
<1>8. Request("eval", e) = [ok |-> TRUE, frame |-> 0, expr |-> Join(e)]
  <2>1. ArgsLoop("eval", e) = State(NoFlag, NoValues, on, e, NoError)
    BY <1>6
  <2>2. Request("eval", e) = [ok |-> TRUE, frame |-> Atoi(Latest(NoValues["--frame"])),
                              expr |-> Join(e)]
    BY <1>7, <2>1
  <2> QED BY <1>5, <2>2, NoNumber
<1>9. ASSUME NEW i \in 0..Len(e)
      PROVE  Request("eval", SubSeq(e, 1, i) \o FrameTwo \o SubSeq(e, i + 1, Len(e)))
               = [ok |-> TRUE, frame |-> 2, expr |-> Join(e)]
  <2> DEFINE a == SubSeq(e, 1, i)
             b == SubSeq(e, i + 1, Len(e))
             x == <<"2">>
             g == With("--frame", x)
             v == Gets(NoValues, "--frame", x)
  <2>1. Len(e) \in Nat /\ \A j \in 1..Len(e) : e[j] \in B
    BY LenProperties, ElementOfSeq
  <2>2. a \in Seq(B) /\ b \in Seq(B)
    <3> HIDE DEF B
    <3> QED BY <2>1, SubSeqProperties
  <2>3. a \o b = e
    <3>1. 1 \in 1..Len(e) + 1 /\ i \in 1 - 1..Len(e) /\ Len(e) \in i..Len(e)
      BY <2>1
    <3>2. a \o b = SubSeq(e, 1, Len(e))
      BY <3>1, ConcatAdjacentSubSeq
    <3> QED BY <3>2, SubSeqFull
  <2>4. x \in Words /\ Atoi(x) = 2
    BY GivenNumbers
  <2>5. FrameTwo = g
    BY DEF FrameTwo, W
  <2>6. v["--frame"] = <<x>>
    BY <1>1, ValuesGot
  <2> HIDE DEF a, b, x, v
  <2>7. ArgsLoop("eval", a) = State(NoFlag, NoValues, on, a, NoError)
    BY <1>6, <2>2
  <2>8. /\ a \o g \in Seq(Words)
        /\ ArgsLoop("eval", a \o g) = State(NoFlag, v, on, a, NoError)
    <3>1. ~Refuses("--frame", x)
      BY NotRefused
    <3> QED BY <1>1, <1>2, <2>2, <2>4, <2>7, <3>1, LoopTakesFlag DEF v
  <2>9. g \in Seq(Words) /\ g # <<>>
    <3>1. g \in Seq(Words)
      BY <1>1, <2>4, NotRefused, ArgsOfFlag
    <3> QED BY <3>1 DEF With
  <2> HIDE DEF g
  <2>10. ArgsLoop("eval", a \o g \o b) = State(NoFlag, v, on, a \o b, NoError)
    <3>1. a \in Seq(Words)
      BY <1>2, <2>2
    <3> DEFINE u == a \o g
    <3>2. u \in Seq(Words) /\ ArgsLoop("eval", u) = State(NoFlag, v, on, a, NoError)
      BY <2>8
    <3>3. b \in Seq(Strays("eval")) /\ "eval" \in Keeps
      BY <1>1, <2>2
    <3> HIDE DEF u, B
    <3>4. ArgsLoop("eval", u \o b) = State(NoFlag, v, on, a \o b, NoError)
      BY <3>1, <3>2, <3>3, LoopKeepsWords
    <3> QED BY <3>4 DEF u
  <2>11. a \o g \o b # <<>>
    BY <1>2, <2>2, <2>8, <2>9, ConcatEqualIffEmpty
  <2>12. Request("eval", a \o g \o b) = [ok |-> TRUE, frame |-> Atoi(Latest(v["--frame"])),
                                         expr |-> Join(e)]
    BY <1>7, <2>3, <2>10, <2>11
  <2>13. Request("eval", a \o g \o b) = [ok |-> TRUE, frame |-> 2, expr |-> Join(e)]
    BY <2>4, <2>6, <2>12, LatestOne
  <2> QED BY <2>5, <2>13 DEF a, b
<1> QED BY <1>8, <1>9

Queries == {"stack", "locals", "eval", "goroutine", "source"}

\* What c asks once the groups that are left have come after ws is m, in either
\* order if there are two of them.
Comes(c, ws, left, m) ==
  \/ left = {} /\ Request(c, ws) = m
  \/ \E g \in left : left = {g} /\ Request(c, ws \o g) = m
  \/ \E g, h \in left :
       /\ left = {g, h} /\ g # h /\ ws = <<>>
       /\ Request(c, g \o h) = m /\ Request(c, h \o g) = m

LEMMA ComesOn ==
  ASSUME NEW c, NEW ws \in Seq(Words), NEW left \in SUBSET Seq(Words), NEW m, NEW g \in left,
         Comes(c, ws, left, m)
  PROVE  Comes(c, ws \o g, left \ {g}, m)
<1>1. CASE \E h \in left : left = {h} /\ Request(c, ws \o h) = m
  <2>1. left \ {g} = {} /\ Request(c, ws \o g) = m
    BY <1>1
  <2> QED BY <2>1 DEF Comes
<1>2. ASSUME NEW h \in left, left = {g, h}, g # h, ws = <<>>, Request(c, g \o h) = m
      PROVE  Comes(c, ws \o g, left \ {g}, m)
  <2>1. left \ {g} = {h} /\ ws \o g = g
    BY <1>2, ConcatEmptySeq
  <2> QED BY <1>2, <2>1 DEF Comes
<1>3. CASE \E h, k \in left :
             /\ left = {h, k} /\ h # k /\ ws = <<>>
             /\ Request(c, h \o k) = m /\ Request(c, k \o h) = m
  <2>1. PICK h, k \in left :
             /\ left = {h, k} /\ h # k /\ ws = <<>>
             /\ Request(c, h \o k) = m /\ Request(c, k \o h) = m
    BY <1>3
  <2>2. CASE g = h
    BY <1>2, <2>1, <2>2
  <2>3. CASE g = k
    <3>1. left = {g, h}
      BY <2>1, <2>3
    <3> QED BY <1>2, <2>1, <2>3, <3>1
  <2> QED BY <2>1, <2>2, <2>3
<1> QED BY <1>1, <1>3 DEF Comes

\* The words of an expression are no flags.
LEMMA ExpressionWords == \A e \in Expressions : e \in Seq(Strays("eval")) /\ e # <<>>
<1>1. \A a \in {"x", "+", "1"} : W(a) \in Strays("eval")
  <2>1. \A a \in {"x", "+", "1"} : W(a) \in Words /\ W(a)[1] \notin {"--frame"}
    BY OnePiece DEF Text, Piece, W
  <2>2. Valued["eval"] = {"--frame"} /\ Switches("eval") = {}
    BY DEF Valued, Switches
  <2> QED BY <2>1, <2>2 DEF Strays, Bare, IsFlag
<1>2. <<"x", "blank", "+", "blank", "1">> \in Strays("eval")
  <2>1. <<"x", "blank", "+", "blank", "1">> \in Words
    BY DEF Words, Text, Rune, Piece
  <2>2. Len(<<"x", "blank", "+", "blank", "1">>) # 1
    OBVIOUS
  <2> QED BY <2>1, <2>2 DEF Strays, Bare, IsFlag
<1> DEFINE B == Strays("eval")
<1>3. W("x") \in B /\ W("+") \in B /\ W("1") \in B /\ <<"x", "blank", "+", "blank", "1">> \in B
  BY <1>1, <1>2
<1> HIDE DEF B
<1>4. <<W("x")>> \in Seq(B) /\ <<W("x")>> # <<>>
  BY <1>3
<1>5. <<W("x"), W("+"), W("1")>> \in Seq(B) /\ <<W("x"), W("+"), W("1")>> # <<>>
  BY <1>3
<1>6. /\ << <<"x", "blank", "+", "blank", "1">> >> \in Seq(B)
      /\ << <<"x", "blank", "+", "blank", "1">> >> # <<>>
  BY <1>3
<1> QED BY <1>4, <1>5, <1>6 DEF Expressions, B

\* Every query comes to what it means.
LEMMA QueryComes ==
  ASSUME NEW m \in QueriesMeant
  PROVE  m.cmd \in Queries /\ Comes(m.cmd, <<>>, m.groups, m.means)
<1> DEFINE Good(x) == x.cmd \in Queries /\ Comes(x.cmd, <<>>, x.groups, x.means)
<1>1. \A c, means, gs : /\ Query(c, means, gs).cmd = c /\ Query(c, means, gs).groups = gs
                        /\ Query(c, means, gs).means = means
  BY DEF Query
<1>2. \A c, means : Request(c, <<>>) = means => Comes(c, <<>>, {}, means)
  BY DEF Comes
<1>3. \A c, means : \A g \in Seq(Words) : Request(c, g) = means => Comes(c, <<>>, {g}, means)
  <2>1. \A g \in Seq(Words) : <<>> \o g = g
    BY ConcatEmptySeq
  <2> QED BY <2>1 DEF Comes
<1>4. \A c, means : \A g, h \in Seq(Words) :
        g # h /\ Request(c, g \o h) = means /\ Request(c, h \o g) = means
          => Comes(c, <<>>, {g, h}, means)
  BY DEF Comes
<1>5. \A c \in Queries : \A means, gs :
        Comes(c, <<>>, gs, means) => Good(Query(c, means, gs))
  BY <1>1
<1> HIDE DEF Good
<1>6. \A x \in QueriesMeant : x.groups \subseteq Seq(Words)
  BY QueryGroups
<1>7. \A c, means, g : Query(c, means, {g}) \in QueriesMeant => g \in Seq(Words)
  BY <1>1, <1>6
<1>8. \A c \in Queries : \A means, g :
        Query(c, means, {g}) \in QueriesMeant /\ Request(c, g) = means
          => Good(Query(c, means, {g}))
  BY <1>3, <1>5, <1>7
<1>9. /\ "stack" \in Queries /\ "locals" \in Queries /\ "eval" \in Queries
      /\ "goroutine" \in Queries /\ "source" \in Queries
  BY DEF Queries
<1>10. ASSUME NEW x \in StackMeant
      PROVE  Good(x)
  <2>0. x \in QueriesMeant
    BY DEF QueriesMeant
  <2> DEFINE m20 == [ok |-> TRUE, depth |-> 20]
             m2  == [ok |-> TRUE, depth |-> 2]
             g0  == With("--depth", W("0"))
             g2  == With("--depth", W("2"))
  <2>1. \/ x = Query("stack", m20, {}) \/ x = Query("stack", m20, {g0})
        \/ x = Query("stack", m2, {g2})
    BY Zenon DEF StackMeant
  <2>2. Request("stack", <<>>) = m20 /\ Request("stack", g0) = m20 /\ Request("stack", g2) = m2
    BY StackComes
  <2> HIDE DEF m20, m2, g0, g2
  <2> QED BY <1>2, <1>5, <1>8, <1>9, <2>0, <2>1, <2>2
<1>11. ASSUME NEW x \in LocalsMeant
       PROVE  Good(x)
  <2>0. x \in QueriesMeant
    BY DEF QueriesMeant
  <2> DEFINE m0 == [ok |-> TRUE, frame |-> 0]
             m2 == [ok |-> TRUE, frame |-> 2]
  <2>1. x = Query("locals", m0, {}) \/ x = Query("locals", m2, {FrameTwo})
    BY Zenon DEF LocalsMeant
  <2>2. Request("locals", <<>>) = m0 /\ Request("locals", FrameTwo) = m2
    BY LocalsComes
  <2> HIDE DEF m0, m2
  <2> QED BY <1>2, <1>5, <1>8, <1>9, <2>0, <2>1, <2>2
<1>12. ASSUME NEW x \in EvalMeant
       PROVE  Good(x)
  <2>0. x \in QueriesMeant
    BY DEF QueriesMeant
  <2>1. PICK e \in Expressions :
          \/ x = Query("eval", [ok |-> TRUE, frame |-> 0, expr |-> Join(e)], {e})
          \/ \E i \in 0..Len(e) :
               x = Query("eval", [ok |-> TRUE, frame |-> 2, expr |-> Join(e)],
                         {SubSeq(e, 1, i) \o FrameTwo \o SubSeq(e, i + 1, Len(e))})
    BY Zenon DEF EvalMeant
  <2> DEFINE g(i) == SubSeq(e, 1, i) \o FrameTwo \o SubSeq(e, i + 1, Len(e))
             m0   == [ok |-> TRUE, frame |-> 0, expr |-> Join(e)]
             m2   == [ok |-> TRUE, frame |-> 2, expr |-> Join(e)]
  <2>2. Request("eval", e) = m0 /\ \A i \in 0..Len(e) : Request("eval", g(i)) = m2
    BY EvalComes, ExpressionWords
  <2>3. x = Query("eval", m0, {e}) \/ \E i \in 0..Len(e) : x = Query("eval", m2, {g(i)})
    BY <2>1
  <2> HIDE DEF m0, m2, g
  <2> QED BY <1>8, <1>9, <2>0, <2>2, <2>3
<1>13. ASSUME NEW x \in GoroutineMeant
       PROVE  Good(x)
  <2>0. x \in QueriesMeant
    BY DEF QueriesMeant
  <2>1. PICK n \in {W("1"), W("2")} :
          x = Query("goroutine", [ok |-> TRUE, id |-> Atoi(n)], {<<n>>})
    BY Zenon DEF GoroutineMeant
  <2> DEFINE means == [ok |-> TRUE, id |-> Atoi(n)]
             g     == <<n>>
  <2>2. Request("goroutine", g) = means
    BY GoroutineComes
  <2>3. x = Query("goroutine", means, {g})
    BY <2>1
  <2> HIDE DEF means, g
  <2> QED BY <1>8, <1>9, <2>0, <2>2, <2>3
<1>14. ASSUME NEW x \in SourceMeant
       PROVE  Good(x)
  <2>0. x \in QueriesMeant
    BY DEF QueriesMeant
  <2>1. CASE x = Query("source", [ok |-> TRUE, file |-> <<>>, line |-> 0], {})
    <3> DEFINE means == [ok |-> TRUE, file |-> <<>>, line |-> 0]
    <3>1. Request("source", <<>>) = means
      BY SourceComes
    <3>2. x = Query("source", means, {})
      BY <2>1
    <3> HIDE DEF means
    <3> QED BY <1>2, <1>5, <1>9, <3>1, <3>2
  <2>2. ASSUME NEW n \in LineNo,
               \/ x = Query("source", [ok |-> TRUE, file |-> W("f"), line |-> Atoi(n)],
                            {With("--file", W("f")), With("--line", n)})
               \/ x = Query("source", [ok |-> TRUE, file |-> W("f"), line |-> Atoi(n)],
                            {<<FileLine(W("f"), n)>>})
        PROVE  Good(x)
    <3> DEFINE means == [ok |-> TRUE, file |-> W("f"), line |-> Atoi(n)]
               f == With("--file", W("f"))
               l == With("--line", n)
               g == <<FileLine(W("f"), n)>>
    <3>1. /\ Request("source", f \o l) = means /\ Request("source", l \o f) = means
          /\ Request("source", g) = means
      BY SourceComes
    <3>2. x = Query("source", means, {f, l}) \/ x = Query("source", means, {g})
      BY <2>2
    <3>3. f # l
      <4>1. f[1][1] = "--file" /\ l[1][1] = "--line"
        BY DEF With, W
      <4> QED BY <4>1
    <3> HIDE DEF means, f, l, g
    <3>4. CASE x = Query("source", means, {f, l})
      <4>1. f \in Seq(Words) /\ l \in Seq(Words)
        BY <1>1, <1>6, <2>0, <3>4
      <4> QED BY <1>4, <1>5, <1>9, <3>1, <3>3, <3>4, <4>1
    <3>5. CASE x = Query("source", means, {g})
      BY <1>8, <1>9, <2>0, <3>1, <3>5
    <3> QED BY <3>2, <3>4, <3>5
  <2> QED BY <2>1, <2>2, Zenon DEF SourceMeant
<1>15. Good(m)
  BY <1>10, <1>11, <1>12, <1>13, <1>14, Zenon DEF QueriesMeant
<1> QED BY <1>15 DEF Good

----------------------------------------------------------------------------
(* The queries arrive. *)

\* What the words after the first ask, once the groups that are left have come.
QueryCourse ==
  said.cmd \in Queries =>
    \/ /\ words = <<>> /\ \E a \in Text : said.next = <<W(a)>>
       /\ Comes(said.cmd, <<>>, said.left, said.means)
    \/ /\ words # <<>>
       /\ Comes(said.cmd, Tail(words) \o said.next, said.left, said.means)

LEMMA QueryFirst ==
  ASSUME Asked
  PROVE  QueryCourse'
<1>1. PICK m \in QueriesMeant : \E a \in Alias[m.cmd] :
        said' = Saying(m.cmd, m.means, <<W(a)>>, m.groups)
  BY DEF Asked
<1>2. PICK a \in Alias[m.cmd] : said' = Saying(m.cmd, m.means, <<W(a)>>, m.groups)
  BY <1>1
<1>3. a \in Text
  BY QueryGroups, TextPieces
<1>4. /\ said'.cmd = m.cmd /\ said'.means = m.means /\ said'.next = <<W(a)>>
      /\ said'.left = m.groups /\ words' = <<>>
  BY <1>2 DEF Saying, Asked
<1>5. Comes(m.cmd, <<>>, m.groups, m.means)
  BY QueryComes
<1> QED BY <1>3, <1>4, <1>5 DEF QueryCourse

\* The words between two steps of the user.
LEMMA QueryWords ==
  ASSUME SaidInv, said.cmd \in Queries, rest = <<>>
  PROVE  words \in Seq(Words)
BY WordsBack DEF Queries

LEMMA QueryGroup ==
  ASSUME SaidInv, QueryCourse, NextGroup
  PROVE  QueryCourse'
<1>1. PICK g \in said.left : said' = [said EXCEPT !.next = g, !.left = @ \ {g}]
  BY DEF NextGroup
<1>2. /\ said'.cmd = said.cmd /\ said'.means = said.means /\ said'.next = g
      /\ said'.left = said.left \ {g} /\ said.next = <<>> /\ UNCHANGED words
      /\ said.left \subseteq Seq(Words) /\ rest = <<>>
  BY <1>1 DEF SaidInv, SaidTypeOK, Saying, NextGroup, vars
<1>3. ASSUME said.cmd \in Queries
      PROVE  /\ words # <<>>
             /\ Comes(said.cmd, Tail(words) \o g, said.left \ {g}, said.means)
  <2>1. words # <<>> /\ Comes(said.cmd, Tail(words) \o <<>>, said.left, said.means)
    BY <1>2, <1>3 DEF QueryCourse
  <2>2. Tail(words) \in Seq(Words)
    BY <1>2, <1>3, <2>1, QueryWords, HeadTailProperties
  <2>3. Tail(words) \o <<>> = Tail(words)
    BY <2>2, ConcatEmptySeq
  <2> DEFINE c == said.cmd
             t == Tail(words)
             left == said.left
             m == said.means
  <2>4. Comes(c, t, left, m) /\ t \in Seq(Words) /\ left \in SUBSET Seq(Words) /\ g \in left
    BY <1>2, <2>1, <2>2, <2>3
  <2> HIDE DEF c, t, left, m
  <2>5. Comes(c, t \o g, left \ {g}, m)
    BY <2>4, ComesOn
  <2> QED BY <2>1, <2>5 DEF c, t, left, m
<1> QED BY <1>2, <1>3 DEF QueryCourse

LEMMA QueryWord ==
  ASSUME SaidInv, QueryCourse, said.next # <<>>, said' = [said EXCEPT !.next = Tail(@)],
         IF said.cmd = "attach" THEN Pass(Head(said.next)) ELSE Write(Head(said.next))
  PROVE  QueryCourse'
<1> DEFINE w == Head(said.next)
           n == Tail(said.next)
<1>1. /\ said'.cmd = said.cmd /\ said'.means = said.means /\ said'.next = n
      /\ said'.left = said.left
  BY DEF SaidInv, SaidTypeOK, Saying
<1>2. words' = Append(words, w) /\ rest = <<>>
  BY DEF Pass, Write, SaidInv, Passed
<1>3. said.next \in Seq(Words) /\ w \in Words
  <2>1. said.next \in Seq(Words)
    BY DEF SaidInv, SaidTypeOK
  <2> QED BY <2>1, HeadTailProperties
<1>4. ASSUME said.cmd \in Queries, words = <<>>
      PROVE  QueryCourse'
  <2>1. PICK a \in Text : said.next = <<W(a)>>
    BY <1>4 DEF QueryCourse
  <2>2. Comes(said.cmd, <<>>, said.left, said.means)
    BY <1>4 DEF QueryCourse
  <2>3. n = <<>> /\ words' = <<w>>
    BY <1>2, <1>4, <2>1
  <2>4. words' # <<>> /\ Tail(words') \o n = <<>>
    <3> HIDE DEF w, n
    <3>1. Tail(<<w>>) = <<>> /\ <<w>> # <<>>
      OBVIOUS
    <3>2. <<>> \o <<>> = <<>>
      OBVIOUS
    <3> QED BY <2>3, <3>1, <3>2
  <2> HIDE DEF n
  <2> QED BY <1>1, <2>2, <2>4 DEF QueryCourse
<1>5. ASSUME said.cmd \in Queries, words # <<>>
      PROVE  QueryCourse'
  <2>1. Comes(said.cmd, Tail(words) \o said.next, said.left, said.means)
    BY <1>5 DEF QueryCourse
  <2>2. words \in Seq(Words)
    BY <1>2, <1>5, QueryWords
  <2> DEFINE t == Tail(words)
  <2> HIDE DEF w, n
  <2>3. /\ t \in Seq(Words) /\ words' # <<>> /\ Tail(words') = Append(t, w)
    BY <1>2, <1>3, <1>5, <2>2, HeadTailProperties, HeadTailAppend, AppendProperties
  <2> HIDE DEF t
  <2>4. Append(t, w) \o n = t \o said.next
    BY <1>3, <2>3, MoveOn DEF w, n
  <2>5. Tail(words') \o n = t \o said.next
    BY <2>3, <2>4
  <2> QED BY <1>1, <2>1, <2>3, <2>5 DEF QueryCourse, t
<1> QED BY <1>1, <1>4, <1>5 DEF QueryCourse

LEMMA QuerySafe == InspectionSpec => []QueryCourse
<1>1. InspectionInit => QueryCourse
  <2> SUFFICES ASSUME Said PROVE said.cmd \notin Queries
    BY DEF InspectionInit, QueryCourse
  <2>1. said.cmd \in {"words", "loose", "bp", "attach"}
    BY DEF Said, Saying
  <2> QED BY <2>1 DEF Queries
<1>2. SaidInv /\ QueryCourse /\ [InspectionNext]_allVars => QueryCourse'
  <2> SUFFICES ASSUME SaidInv, QueryCourse, [InspectionNext]_allVars PROVE QueryCourse'
    OBVIOUS
  <2>1. CASE UNCHANGED <<said, words>>
    BY <2>1 DEF QueryCourse
  <2>2. CASE Read /\ UNCHANGED said
    BY <2>1, <2>2 DEF Read
  <2>3. CASE UNCHANGED argVars
    BY <2>1, <2>3 DEF argVars, vars
  <2>4. CASE Silence
    BY <2>4 DEF Silence, Saying, QueryCourse, Queries
  <2>5. CASE SayWord
    <3>1. CASE said.cmd \in {"words", "loose"} /\ UNCHANGED said
      BY <3>1 DEF QueryCourse, Queries
    <3>2. CASE /\ said.next # <<>>
               /\ IF said.cmd = "attach" THEN Pass(Head(said.next)) ELSE Write(Head(said.next))
               /\ said' = [said EXCEPT !.next = Tail(@)]
      BY <3>2, QueryWord
    <3> QED BY <2>5, <3>1, <3>2 DEF SayWord
  <2> QED BY <2>2, <2>3, <2>4, <2>5, WordSteps, QueryFirst, QueryGroup
<1> QED BY <1>1, <1>2, SaidSafe, PTL DEF InspectionSpec

\* No two commands share a name.
LEMMA NamesDiffer ==
  \A c, d \in DOMAIN Alias : \A a \in Alias[c] : a \in Alias[d] => d = c
BY DEF Alias

\* The queries arrive as they were meant: a depth, a frame, the number of a goroutine,
\* a place in the source; an expression stays whole wherever --frame stands in it,
\* whatever the order of the flags, under every name of the command, its words in
\* quotes or not.
THEOREM QueriesArrive == InspectionSpec => []QueryArrives
<1>1. SaidInv /\ QueryCourse => QueryArrives
  <2> SUFFICES ASSUME SaidInv, QueryCourse, LineRead, said.cmd \in Queries
               PROVE  Understood = said.means
    BY DEF QueryArrives, Arrives, Queries
  <2> DEFINE c  == said.cmd
             ws == Tail(words)
  <2>1. said.next = <<>> /\ said.left = {} /\ rest = <<>>
    BY DEF LineRead
  <2>2. words # <<>> /\ Comes(c, ws \o <<>>, {}, said.means)
    BY <2>1 DEF QueryCourse
  <2>3. Fields(scan) = words /\ words \in Seq(Words)
    BY <2>1, WordsBack DEF Queries
  <2>4. ws \o <<>> = ws
    BY <2>2, <2>3, HeadTailProperties, ConcatEmptySeq
  <2>5. Request(c, ws) = said.means
    BY <2>2, <2>4 DEF Comes
  <2>6. c \in DOMAIN Alias /\ c # "attach"
    BY DEF Queries, Alias
  <2>7. Dispatch(words) = c
    <3>1. PICK a \in Alias[c] : Head(words) = W(a)
      BY <2>2, <2>6 DEF SaidInv, Named
    <3>2. words[1][1] = a
      BY <2>2, <2>3, <3>1 DEF W
    <3> HIDE DEF c
    <3>3. \A d \in DOMAIN Alias : a \in Alias[d] <=> d = c
      BY <2>6, <3>1, NamesDiffer
    <3> QED BY <2>6, <3>2, <3>3 DEF Dispatch
  <2> HIDE DEF ws
  <2>8. Understood = Request(Dispatch(words), ws)
    BY <2>3, <2>6, Zenon DEF Understood, ws
  <2> QED BY <2>5, <2>7, <2>8
<1> QED BY <1>1, SaidSafe, QuerySafe, PTL
=============================================================================
