-------------------------- MODULE InspectionProofs --------------------------
(***************************************************************************)
(* Theorems about inspection (module Inspection): the goroutine a query    *)
(* asks about, for every set of goroutines and whatever lines are read,    *)
(* and the lines `source' shows, whatever the file holds.                  *)
(***************************************************************************)
EXTENDS ArgumentsProofs, FiniteSetTheorems

USE InspectionAssumption

----------------------------------------------------------------------------
(* The goroutine remembered, the one selected, and the one asked about. *)

InspectionTypeOK ==
  /\ sel \in Goroutine \cup {0}
  /\ goid \in Goroutine \cup {0}
  /\ who \in Goroutine \cup {0, NotRead}
  /\ steady \in BOOLEAN

\* A choice the target has not run since is what the runner remembers and what
\* the server has selected.
ChoiceStands == chosen # 0 => goid = chosen /\ sel = chosen

\* A goroutine has been looked up only for a query, and asked about only when
\* it has been looked up.
QueryUnderWay ==
  /\ who # NotRead => ~Silent
  /\ asked # NotAsked => who # NotRead

\* What has been looked up for the query is the choice that stands or, when
\* nothing is remembered and the target has not moved, where it has stopped.
LookupStands ==
  who # NotRead => /\ chosen # 0 => who = chosen
                   /\ goid = 0 /\ steady => who = sel

InspectionInv ==
  InspectionTypeOK /\ ChoiceStands /\ QueryUnderWay /\ LookupStands /\ AsksAsTold

\* Ids are positive: 0 and -1 stand for none.
LEMMA NoGoroutine == 0 \notin Goroutine /\ NotRead \notin Goroutine /\ NotRead # 0
BY DEF NotRead

\* The prompt forgets the query, and with it what was looked up for it.
LEMMA PromptStep ==
  ASSUME InspectionInv, Prompt, goid' \in Goroutine \cup {0}, sel' \in Goroutine \cup {0},
         chosen' # 0 => goid' = chosen' /\ sel' = chosen'
  PROVE  InspectionInv'
BY DEF Prompt, InspectionInv, InspectionTypeOK, ChoiceStands, QueryUnderWay, LookupStands,
       AsksAsTold

\* No step of the prompt, the target or a query breaks the invariant.
LEMMA InspectionInvStep ==
  ASSUME SaidTypeOK, InspectionInv, [InspectionNext]_allVars
  PROVE  InspectionInv'
<1> USE DEF InspectionInv, InspectionTypeOK, ChoiceStands, QueryUnderWay, LookupStands
<1>1. ASSUME UNCHANGED <<target, query>>, who # NotRead => said'.cmd = said.cmd
      PROVE  InspectionInv'
  BY <1>1 DEF target, query, Silent, AsksAsTold
<1>2. CASE NextLine
  BY <1>1, <1>2 DEF NextLine
<1>3. CASE UserSays
  <2>1. ASSUME NextGroup PROVE said'.cmd = said.cmd
    BY <2>1 DEF NextGroup, SaidTypeOK, Saying
  <2>2. ASSUME SayWord PROVE said'.cmd = said.cmd
    BY <2>2 DEF SayWord, SaidTypeOK, Saying
  <2>3. said'.cmd = said.cmd
    BY <1>3, <2>1, <2>2 DEF UserSays
  <2> QED BY <1>1, <1>3, <2>3 DEF UserSays
<1>4. CASE ReadRune
  BY <1>1, <1>4 DEF ReadRune
<1>5. CASE ReadGoid
  <2>1. /\ who' = CurGoid /\ ~Silent /\ UNCHANGED <<said, sel, goid, chosen, asked, steady>>
        /\ asked = NotAsked
    BY <1>5 DEF ReadGoid, Carries, LineRead, Answered, argVars, target
  <2>2. /\ chosen # 0 => CurGoid = chosen
        /\ goid = 0 => CurGoid = sel
        /\ CurGoid \in Goroutine \cup {0}
    BY DEF CurGoid
  <2> QED BY <2>1, <2>2, NoGoroutine DEF Silent, AsksAsTold
<1>6. CASE Ask
  <2>1. CASE Prompt /\ UNCHANGED target
    BY <2>1, PromptStep DEF target
  <2>2. ASSUME NEW s \in IF sel = 0 THEN Goroutine ELSE {sel},
               asked' = [goroutine |-> IF who = 0 THEN s ELSE who, stop |-> s],
               UNCHANGED <<argVars, target, who, shown, steady>>
        PROVE  InspectionInv'
    <3>1. who # NotRead
      BY <1>6 DEF Ask
    <3>2. chosen # 0 => asked'.goroutine = chosen
      BY <2>2, <3>1
    <3>3. goid = 0 /\ steady => asked'.goroutine = asked'.stop
      BY <2>2, <3>1
    <3> QED BY <2>2, <3>1, <3>2, <3>3 DEF target, argVars, Silent, AsksAsTold
  <2> QED BY <1>6, <2>1, <2>2 DEF Ask
<1>7. CASE Switch
  <2>1. PICK n : \/ /\ n \in Goroutine
                    /\ goid' = n
                    /\ sel' = IF sel = 0 THEN 0 ELSE n
                    /\ chosen' = sel'
                 \/ goid' = goid /\ UNCHANGED <<sel, chosen>>
    BY <1>7 DEF Switch, AfterRefusal
  <2>2. Prompt
    BY <1>7 DEF Switch
  <2> QED BY <2>1, <2>2, PromptStep
<1>8. CASE TargetMoves
  <2>1. /\ sel' \in Goroutine \cup {0} /\ chosen' = 0 /\ steady' = (who = NotRead)
        /\ UNCHANGED <<said, goid, who, asked>>
    BY <1>8 DEF TargetMoves, argVars
  <2>2. asked = NotAsked
    BY <1>8 DEF TargetMoves, Answered
  <2> QED BY <2>1, <2>2 DEF Silent, AsksAsTold
<1>9. CASE Source
  BY <1>9 DEF Source, argVars, target, Silent, AsksAsTold
<1>10. CASE EndCommand
  BY <1>10, PromptStep DEF EndCommand, target
<1>11. CASE UNCHANGED allVars
  BY <1>1, <1>11 DEF allVars, argVars
<1> QED BY <1>2, <1>3, <1>4, <1>5, <1>6, <1>7, <1>8, <1>9, <1>10, <1>11 DEF InspectionNext

\* The invariant holds in every behaviour.
LEMMA InspectionSafe == InspectionSpec => []InspectionInv
<1>1. InspectionInit => InspectionInv
  BY DEF InspectionInit, InspectionInv, InspectionTypeOK, ChoiceStands, QueryUnderWay,
         LookupStands, AsksAsTold
<1>2. SaidInv /\ InspectionInv /\ [InspectionNext]_allVars => InspectionInv'
  BY InspectionInvStep DEF SaidInv
<1> QED BY <1>1, <1>2, SaidSafe, PTL DEF InspectionSpec

\* A query asks about the goroutine that was chosen last until the target runs,
\* and about the one the target has stopped at if none was ever chosen and the
\* target did not move under the query: the runner's memory of the choice and
\* the server's never disagree unless the target has run, and a refused choice
\* leaves both alone.
THEOREM QueriesAskAsTold == InspectionSpec => []AsksAsTold
<1>1. InspectionInv => AsksAsTold
  BY DEF InspectionInv
<1> QED BY <1>1, InspectionSafe, PTL

----------------------------------------------------------------------------
(* The lines of a file. *)

Char == {"text", "newline"}

AddChar(ls, ch) == IF ch = "newline" THEN Append(ls, <<>>)
                   ELSE Append(Front(ls), Append(Last(ls), ch))

\* A file split at its newlines has one piece at least.
Split == Seq(Seq(Char)) \ {<<>>}

\* What precedes the last element of a sequence.
LEMMA FrontAndLast ==
  ASSUME NEW S, NEW s \in Seq(S), s # <<>>
  PROVE  /\ Front(s) \in Seq(S) /\ Len(s) \in Nat \ {0} /\ Len(Front(s)) = Len(s) - 1
         /\ \A i \in 1..Len(s)-1 : Front(s)[i] = s[i]
         /\ Last(s) \in S /\ Last(s) = s[Len(s)]
<1>1. Len(s) \in Nat \ {0} /\ \A i \in 1..Len(s) : s[i] \in S
  BY LenProperties, EmptySeq, ElementOfSeq
<1> DEFINE n == Len(s) - 1
<1>2. n \in Nat /\ 1 \in Int /\ \A i \in 1..n : i \in 1..Len(s) /\ 1 + i - 1 = i
  BY <1>1
<1>3. Last(s) = s[Len(s)] /\ Last(s) \in S
  BY <1>1 DEF Last
<1> HIDE DEF n
<1>4. /\ SubSeq(s, 1, n) \in Seq(S) /\ Len(SubSeq(s, 1, n)) = n
      /\ \A i \in 1..n : SubSeq(s, 1, n)[i] = s[i]
  <2>1. \A i \in 1..n : s[i] \in S
    BY <1>1, <1>2
  <2>2. /\ SubSeq(s, 1, n) \in Seq(S) /\ Len(SubSeq(s, 1, n)) = IF 1 <= n THEN n - 1 + 1 ELSE 0
        /\ \A i \in 1..n - 1 + 1 : SubSeq(s, 1, n)[i] = s[1 + i - 1]
    BY <1>2, <2>1, SubSeqProperties
  <2>3. n - 1 + 1 = n /\ (IF 1 <= n THEN n - 1 + 1 ELSE 0) = n
    BY <1>2
  <2> QED BY <1>2, <2>2, <2>3
<1> QED BY <1>1, <1>3, <1>4 DEF Front, n

\* One more character.
LEMMA CharAdded ==
  ASSUME NEW ls \in Split, NEW ch \in Char
  PROVE  /\ AddChar(ls, ch) \in Split /\ Len(ls) \in Nat \ {0}
         /\ \A k \in 1..Len(ls)-1 : AddChar(ls, ch)[k] = ls[k]
         /\ ch = "newline" => /\ Len(AddChar(ls, ch)) = Len(ls) + 1
                              /\ AddChar(ls, ch)[Len(ls)] = ls[Len(ls)]
                              /\ AddChar(ls, ch)[Len(ls) + 1] = <<>>
         /\ ch = "text" => /\ Len(AddChar(ls, ch)) = Len(ls)
                           /\ AddChar(ls, ch)[Len(ls)] = Append(ls[Len(ls)], ch)
<1>1. ls \in Seq(Seq(Char)) /\ ls # <<>>
  BY DEF Split
<1>2. /\ Front(ls) \in Seq(Seq(Char)) /\ Len(ls) \in Nat \ {0} /\ Len(Front(ls)) = Len(ls) - 1
      /\ \A i \in 1..Len(ls)-1 : Front(ls)[i] = ls[i]
      /\ Last(ls) \in Seq(Char) /\ Last(ls) = ls[Len(ls)]
  BY <1>1, FrontAndLast
<1>3. CASE ch = "newline"
  <2>1. AddChar(ls, ch) = Append(ls, <<>>)
    BY <1>3 DEF AddChar
  <2>2. /\ Append(ls, <<>>) \in Seq(Seq(Char)) /\ Append(ls, <<>>) # <<>>
        /\ Len(Append(ls, <<>>)) = Len(ls) + 1 /\ Append(ls, <<>>)[Len(ls) + 1] = <<>>
        /\ \A i \in 1..Len(ls) : Append(ls, <<>>)[i] = ls[i]
    <3>1. <<>> \in Seq(Char)
      OBVIOUS
    <3> QED BY <1>1, <3>1, AppendProperties
  <2>3. Len(ls) \in 1..Len(ls) /\ \A k \in 1..Len(ls)-1 : k \in 1..Len(ls)
    BY <1>2
  <2> QED BY <1>2, <1>3, <2>1, <2>2, <2>3 DEF Split
<1>4. CASE ch = "text"
  <2> DEFINE f == Front(ls)
             l == Append(Last(ls), ch)
             t == Append(f, l)
  <2>1. AddChar(ls, ch) = t
    BY <1>4 DEF AddChar
  <2>2. l \in Seq(Char)
    BY <1>2, AppendProperties
  <2>3. f \in Seq(Seq(Char)) /\ Len(f) = Len(ls) - 1 /\ \A i \in 1..Len(ls)-1 : f[i] = ls[i]
    BY <1>2
  <2>4. l = Append(ls[Len(ls)], ch)
    BY <1>2
  <2> HIDE DEF f, l
  <2>5. /\ t \in Seq(Seq(Char)) /\ t # <<>> /\ Len(t) = Len(f) + 1 /\ t[Len(f) + 1] = l
        /\ \A i \in 1..Len(f) : t[i] = f[i]
    BY <2>2, <2>3, AppendProperties
  <2> HIDE DEF t
  <2>6. Len(f) + 1 = Len(ls)
    BY <1>2, <2>3
  <2> QED BY <1>2, <1>4, <2>1, <2>3, <2>4, <2>5, <2>6 DEF Split
<1> QED BY <1>3, <1>4 DEF Char

\* The loop of readAllLines starts with an empty piece and takes one character
\* after the other.
LEMMA PiecesRun ==
  /\ Pieces(<<>>) = << <<>> >>
  /\ \A d \in Seq(Char) :
       /\ Pieces(d) \in Split
       /\ \A ch \in Char : Pieces(Append(d, ch)) = AddChar(Pieces(d), ch)
<1> DEFINE T    == Split
           one  == << <<>> >>
           step == [p \in T \X Char |-> AddChar(p[1], p[2])]
<1>1. one \in T
  <2>1. << <<>> >> \in Seq(Seq(Char)) /\ << <<>> >> # <<>>
    OBVIOUS
  <2> QED BY <2>1 DEF Split
<1>2. /\ step \in StepFunction(T, Char)
      /\ \A t \in T, ch \in Char : OneStep(step, t, ch) = AddChar(t, ch)
  <2>1. \A p \in T \X Char : AddChar(p[1], p[2]) \in T
    BY CharAdded
  <2> HIDE DEF T
  <2> QED BY <2>1 DEF StepFunction, OneStep
<1> HIDE DEF T, one, step
<1>3. PICK R \in [Seq(Char) -> T] :
        /\ R[<<>>] = one
        /\ \A s \in Seq(Char), ch \in Char : R[Append(s, ch)] = OneStep(step, R[s], ch)
        /\ \A s \in Seq(Char) : \E g \in [0..Len(s) -> T] :
             IsRun(g, one, step, s) /\ R[s] = g[Len(s)]
  BY <1>1, <1>2, RunEnds
<1>4. ASSUME NEW s \in Seq(Char) PROVE Pieces(s) = R[s]
  <2> DEFINE Follows(g) == g = [n \in 0..Len(s) |->
                                  IF n = 0 THEN << <<>> >> ELSE AddChar(g[n-1], s[n])]
             end == CHOOSE g : Follows(g)
  <2>0. Len(s) \in Nat /\ \A n \in 1..Len(s) : s[n] \in Char
    BY LenProperties, ElementOfSeq
  <2>1. PICK g \in [0..Len(s) -> T] : IsRun(g, one, step, s) /\ R[s] = g[Len(s)]
    BY <1>3
  <2>2. Follows(end)
    <3>1. \A n \in 0..Len(s) : g[n] = IF n = 0 THEN << <<>> >> ELSE AddChar(g[n-1], s[n])
      <4> SUFFICES ASSUME NEW n \in 0..Len(s)
                   PROVE  g[n] = IF n = 0 THEN << <<>> >> ELSE AddChar(g[n-1], s[n])
        OBVIOUS
      <4>1. g[n] = IF n = 0 THEN << <<>> >> ELSE OneStep(step, g[n-1], s[n])
        BY <2>1 DEF IsRun, one
      <4>2. n # 0 => g[n-1] \in T /\ s[n] \in Char
        <5>1. n # 0 => n - 1 \in 0..Len(s) /\ n \in 1..Len(s)
          BY <2>0
        <5> QED BY <2>0, <2>1, <5>1
      <4> QED BY <1>2, <4>1, <4>2
    <3>2. Follows(g)
      BY <3>1
    <3> HIDE DEF Follows
    <3> QED BY <3>2
  <2>3. Pieces(s) = end[Len(s)]
    BY DEF Pieces, LoopEnd, Loop, AddChar
  <2> HIDE DEF end
  <2>4. end[0] = one /\ \A n \in 1..Len(s) : end[n] = AddChar(end[n-1], s[n])
    <3> DEFINE grown(n) == AddChar(end[n-1], s[n])
    <3>1. end = [n \in 0..Len(s) |-> IF n = 0 THEN one ELSE grown(n)]
      BY <2>2, Zenon DEF one
    <3> HIDE DEF grown, Follows
    <3>2. 0 \in 0..Len(s) /\ \A n \in 1..Len(s) : n \in 0..Len(s) /\ n # 0
      BY <2>0
    <3>3. end[0] = one /\ \A n \in 1..Len(s) : end[n] = grown(n)
      BY <3>1, <3>2
    <3> QED BY <3>3 DEF grown
  <2>5. Takes(end, T, one, step, s)
    BY <1>2, <2>0, <2>4 DEF Takes
  <2> HIDE DEF Follows
  <2>6. end[Len(s)] = g[Len(s)]
    BY <1>1, <1>2, <2>1, <2>5, RunIs
  <2> QED BY <2>1, <2>3, <2>6
<1>5. \A d \in Seq(Char), ch \in Char : Append(d, ch) \in Seq(Char)
  BY AppendProperties
<1>6. <<>> \in Seq(Char)
  BY EmptySeq
<1>7. \A d \in Seq(Char) : R[d] \in T
  BY <1>3
<1>8. \A d \in Seq(Char), ch \in Char : Pieces(Append(d, ch)) = AddChar(Pieces(d), ch)
  BY <1>2, <1>3, <1>4, <1>5, <1>7
<1>9. \A d \in Seq(Char) : Pieces(d) \in Split
  BY <1>4, <1>7 DEF T
<1>10. Pieces(<<>>) = << <<>> >>
  BY <1>3, <1>4, <1>6 DEF one
<1> QED BY <1>8, <1>9, <1>10
----------------------------------------------------------------------------
(* The lines of a file, counted by the newlines above. *)

NewlinesTo(d, i) == {j \in 1..i-1 : d[j] = "newline"}

Above(d, i) == Cardinality(NewlinesTo(d, i))

TextOf(d, n) == {i \in DOMAIN d : d[i] # "newline" /\ Above(d, i) = n - 1}

PresentIn(d, n) == \E i \in DOMAIN d : Above(d, i) = n - 1

\* A newline counts for every place after it, and for no other.
LEMMA AboveCounts ==
  ASSUME NEW d, NEW i \in Nat \ {0}
  PROVE  /\ IsFiniteSet(NewlinesTo(d, i)) /\ Above(d, i) \in Nat
         /\ Above(d, i + 1) = Above(d, i) + IF d[i] = "newline" THEN 1 ELSE 0
         /\ \A j \in 1..i : Above(d, j) <= Above(d, i)
<1>1. \A j \in 1..i+1 : IsFiniteSet(NewlinesTo(d, j)) /\ Above(d, j) \in Nat
  <2> SUFFICES ASSUME NEW j \in 1..i+1
               PROVE  IsFiniteSet(NewlinesTo(d, j)) /\ Above(d, j) \in Nat
    OBVIOUS
  <2>1. IsFiniteSet(1..j-1)
    BY FS_Interval
  <2>2. NewlinesTo(d, j) \subseteq 1..j-1
    BY DEF NewlinesTo
  <2>3. IsFiniteSet(NewlinesTo(d, j))
    BY <2>1, <2>2, FS_Subset
  <2> QED BY <2>3, FS_CardinalityType DEF Above
<1>2. i \in 1..i+1
  OBVIOUS
<1>3. Above(d, i + 1) = Above(d, i) + IF d[i] = "newline" THEN 1 ELSE 0
  <2>1. i \notin NewlinesTo(d, i)
    BY DEF NewlinesTo
  <2>2. NewlinesTo(d, i + 1) = IF d[i] = "newline" THEN NewlinesTo(d, i) \cup {i}
                                                   ELSE NewlinesTo(d, i)
    BY DEF NewlinesTo
  <2>3. Cardinality(NewlinesTo(d, i) \cup {i}) = Cardinality(NewlinesTo(d, i)) + 1
    BY <1>1, <1>2, <2>1, FS_AddElement
  <2> QED BY <1>1, <1>2, <2>2, <2>3 DEF Above
<1>4. \A j \in 1..i : Above(d, j) <= Above(d, i)
  <2> SUFFICES ASSUME NEW j \in 1..i PROVE Above(d, j) <= Above(d, i)
    OBVIOUS
  <2>1. NewlinesTo(d, j) \subseteq NewlinesTo(d, i)
    BY DEF NewlinesTo
  <2> QED BY <1>1, <1>2, <2>1, FS_Subset DEF Above
<1> QED BY <1>1, <1>2, <1>3, <1>4

\* A character added to a file is one more of its last line.
LEMMA FileGrows ==
  ASSUME NEW d \in Seq(Char), NEW ch \in Char
  PROVE  LET e == Append(d, ch)
             k == Above(d, Len(d) + 1) + 1
         IN  /\ k \in Nat \ {0}
             /\ Above(e, Len(e) + 1) = k - 1 + IF ch = "newline" THEN 1 ELSE 0
             /\ \A n \in Nat \ {0} :
                  /\ IsFiniteSet(TextOf(d, n)) /\ Len(d) + 1 \notin TextOf(d, n)
                  /\ n > k => TextOf(d, n) = {}
                  /\ TextOf(e, n) = IF ch = "text" /\ n = k THEN TextOf(d, n) \cup {Len(d) + 1}
                                                            ELSE TextOf(d, n)
                  /\ PresentIn(e, n) <=> PresentIn(d, n) \/ n = k
<1> DEFINE e    == Append(d, ch)
           size == Len(d) + 1
           k    == Above(d, size) + 1
<1>1. size \in Nat \ {0} /\ Len(d) \in Nat /\ DOMAIN d = 1..size-1
  BY LenProperties
<1>2. e \in Seq(Char) /\ Len(e) = size /\ e[size] = ch /\ \A i \in 1..size-1 : e[i] = d[i]
  BY <1>1, AppendProperties
<1>3. DOMAIN e = 1..size
  BY <1>2, LenProperties
<1> HIDE DEF e
<1>4. \A i \in 1..size : Above(e, i) = Above(d, i) /\ Above(d, i) \in Nat /\ Above(d, i) <= k - 1
  <2> SUFFICES ASSUME NEW i \in 1..size
               PROVE  Above(e, i) = Above(d, i) /\ Above(d, i) \in Nat /\ Above(d, i) <= k - 1
    OBVIOUS
  <2>1. NewlinesTo(e, i) = NewlinesTo(d, i)
    BY <1>1, <1>2 DEF NewlinesTo
  <2>2. i \in Nat \ {0}
    BY <1>1
  <2>3. Above(d, i) \in Nat /\ Above(d, size) \in Nat /\ Above(d, i) <= Above(d, size)
    BY <1>1, <2>2, AboveCounts
  <2> QED BY <2>1, <2>3 DEF Above
<1>5. size \in 1..size /\ k \in Nat \ {0} /\ Above(d, size) = k - 1
  <2>1. size \in 1..size
    BY <1>1
  <2>2. Above(d, size) \in Nat
    BY <2>1, <1>4
  <2> HIDE DEF size
  <2> QED BY <2>1, <2>2
<1> HIDE DEF k
<1>6. Above(e, size + 1) = k - 1 + IF ch = "newline" THEN 1 ELSE 0
  <2>1. Above(e, size + 1) = Above(e, size) + IF e[size] = "newline" THEN 1 ELSE 0
    BY <1>1, AboveCounts
  <2>2. Above(e, size) = k - 1 /\ e[size] = ch
    BY <1>2, <1>4, <1>5
  <2> QED BY <2>1, <2>2
<1>7. ASSUME NEW n \in Nat \ {0}
      PROVE  /\ IsFiniteSet(TextOf(d, n)) /\ size \notin TextOf(d, n)
             /\ n > k => TextOf(d, n) = {}
             /\ TextOf(e, n) = IF ch = "text" /\ n = k THEN TextOf(d, n) \cup {size}
                                                       ELSE TextOf(d, n)
             /\ PresentIn(e, n) <=> PresentIn(d, n) \/ n = k
  <2>1. IsFiniteSet(1..size-1)
    BY <1>1, FS_Interval
  <2>2. TextOf(d, n) \subseteq 1..size-1
    BY <1>1 DEF TextOf
  <2>3. IsFiniteSet(TextOf(d, n)) /\ size \notin TextOf(d, n)
    BY <1>1, <2>1, <2>2, FS_Subset
  <2>4. n > k => TextOf(d, n) = {}
    BY <1>1, <1>4, <1>5 DEF TextOf
  <2>5. ch # "newline" <=> ch = "text"
    BY DEF Char
  <2>6. \A i : i \in TextOf(e, n) <=> i \in TextOf(d, n) \/ (i = size /\ ch = "text" /\ n = k)
    <3>1. \A i : i \in TextOf(e, n) <=> i \in 1..size /\ e[i] # "newline" /\ Above(d, i) = n - 1
      BY <1>3, <1>4 DEF TextOf
    <3>2. \A i : i \in TextOf(d, n) <=> i \in 1..size-1 /\ d[i] # "newline" /\ Above(d, i) = n - 1
      BY <1>1 DEF TextOf
    <3>3. Above(d, size) = n - 1 <=> n = k
      BY <1>5
    <3>4. \A i : i \in 1..size <=> i \in 1..size-1 \/ i = size
      BY <1>1
    <3>5. size \notin 1..size-1
      BY <1>1
    <3> QED BY <1>2, <2>5, <3>1, <3>2, <3>3, <3>4, <3>5
  <2>7. PresentIn(e, n) <=> PresentIn(d, n) \/ n = k
    <3>1. PresentIn(e, n) <=> \E i \in 1..size : Above(d, i) = n - 1
      BY <1>3, <1>4 DEF PresentIn
    <3>2. PresentIn(d, n) <=> \E i \in 1..size-1 : Above(d, i) = n - 1
      BY <1>1 DEF PresentIn
    <3>3. Above(d, size) = n - 1 <=> n = k
      BY <1>5
    <3>4. \A i : i \in 1..size <=> i \in 1..size-1 \/ i = size
      BY <1>1
    <3> QED BY <3>1, <3>2, <3>3, <3>4
  <2> QED BY <2>3, <2>4, <2>6, <2>7
<1> QED BY <1>2, <1>5, <1>6, <1>7 DEF e, k

\* The pieces ls are the lines of the file d: as many as there are newlines and
\* one more, each as long as its line, and only the last may be no line at all.
LinesOf(d, ls) ==
  /\ ls \in Split
  /\ Above(d, Len(d) + 1) = Len(ls) - 1
  /\ \A n \in 1..Len(ls) : Len(ls[n]) = Cardinality(TextOf(d, n))
  /\ \A n \in Nat \ {0} :
       PresentIn(d, n) <=> n \in 1..Len(ls) /\ (n = Len(ls) => ls[n] # <<>>)

LEMMA NoFileNoLine == LinesOf(<<>>, << <<>> >>)
<1> DEFINE d == <<>>
           one == << <<>> >>
<1>1. d \in Seq(Char) /\ Len(d) = 0 /\ DOMAIN d = {}
  OBVIOUS
<1>2. one \in Split /\ Len(one) = 1 /\ one[1] = <<>> /\ Len(one[1]) = 0
  BY DEF Split
<1> HIDE DEF d, one
<1>3. Above(d, Len(d) + 1) = 0
  <2>1. NewlinesTo(d, 1) = {}
    BY DEF NewlinesTo
  <2> QED BY <1>1, <2>1, FS_EmptySet DEF Above
<1>4. \A n \in Nat \ {0} : TextOf(d, n) = {} /\ ~PresentIn(d, n)
  BY <1>1 DEF TextOf, PresentIn
<1>5. \A n \in 1..Len(one) : Len(one[n]) = Cardinality(TextOf(d, n))
  <2>1. \A n \in 1..Len(one) : n \in Nat \ {0} /\ Len(one[n]) = 0
    BY <1>2
  <2>2. Cardinality({}) = 0
    BY FS_EmptySet
  <2> QED BY <1>4, <2>1, <2>2
<1>6. \A n \in Nat \ {0} :
        PresentIn(d, n) <=> n \in 1..Len(one) /\ (n = Len(one) => one[n] # <<>>)
  BY <1>2, <1>4
<1>7. LinesOf(d, one)
  BY <1>2, <1>3, <1>5, <1>6 DEF LinesOf
<1> QED BY <1>7 DEF d, one

LEMMA LinesGrow ==
  ASSUME NEW d \in Seq(Char), NEW ch \in Char, NEW ls, LinesOf(d, ls)
  PROVE  LinesOf(Append(d, ch), AddChar(ls, ch))
<1> DEFINE e == Append(d, ch)
           k == Above(d, Len(d) + 1) + 1
           t == AddChar(ls, ch)
<1>1. ls \in Split
  BY DEF LinesOf
<1>2. /\ t \in Split /\ Len(ls) \in Nat \ {0}
      /\ \A n \in 1..Len(ls)-1 : t[n] = ls[n]
      /\ ch = "newline" => Len(t) = Len(ls) + 1 /\ t[Len(ls)] = ls[Len(ls)]
                           /\ t[Len(ls) + 1] = <<>>
      /\ ch = "text" => Len(t) = Len(ls) /\ t[Len(ls)] = Append(ls[Len(ls)], ch)
  BY <1>1, CharAdded
<1>3. Above(d, Len(d) + 1) = Len(ls) - 1
  BY DEF LinesOf
<1>4. k = Len(ls)
  <2>1. Len(ls) \in Int /\ \A i \in Int : i - 1 + 1 = i
    BY <1>2
  <2>2. k = Len(ls) - 1 + 1
    BY <1>3
  <2> QED BY <2>1, <2>2
<1>5. /\ Above(e, Len(e) + 1) = k - 1 + IF ch = "newline" THEN 1 ELSE 0
      /\ \A n \in Nat \ {0} :
           /\ IsFiniteSet(TextOf(d, n)) /\ Len(d) + 1 \notin TextOf(d, n)
           /\ n > k => TextOf(d, n) = {}
           /\ TextOf(e, n) = IF ch = "text" /\ n = k THEN TextOf(d, n) \cup {Len(d) + 1}
                                                     ELSE TextOf(d, n)
           /\ PresentIn(e, n) <=> PresentIn(d, n) \/ n = k
  BY FileGrows
<1>6. /\ \A n \in 1..Len(ls) : Len(ls[n]) = Cardinality(TextOf(d, n))
      /\ \A n \in Nat \ {0} :
           PresentIn(d, n) <=> n \in 1..Len(ls) /\ (n = Len(ls) => ls[n] # <<>>)
  BY DEF LinesOf
<1>7. ls[Len(ls)] \in Seq(Char)
  BY <1>1, <1>2, ElementOfSeq DEF Split
<1> HIDE DEF e, k, t
<1> DEFINE m == Len(ls)
<1>8. /\ m \in Nat \ {0} /\ k = m /\ m \in 1..m
  BY <1>2, <1>4
<1>9. CASE ch = "newline"
  <2>1. Len(t) = m + 1 /\ t[m + 1] = <<>> /\ \A n \in 1..m : t[n] = ls[n]
    <3>1. \A n \in 1..m : n \in 1..m-1 \/ n = m
      BY <1>8
    <3> QED BY <1>2, <1>9, <3>1
  <2> HIDE DEF m
  <2>2. Above(e, Len(e) + 1) = Len(t) - 1
    BY <1>5, <1>8, <1>9, <2>1
  <2>3. \A n \in Nat \ {0} : TextOf(e, n) = TextOf(d, n)
    BY <1>5, <1>9
  <2>4. \A n \in 1..Len(t) : Len(t[n]) = Cardinality(TextOf(e, n))
    <3> SUFFICES ASSUME NEW n \in 1..Len(t) PROVE Len(t[n]) = Cardinality(TextOf(e, n))
      OBVIOUS
    <3>1. n \in Nat \ {0} /\ (n \in 1..m \/ n = m + 1)
      BY <1>8, <2>1
    <3>2. CASE n \in 1..m
      BY <1>6, <2>1, <2>3, <3>1, <3>2 DEF m
    <3>3. CASE n = m + 1
      <4>1. n > k
        BY <1>8, <3>3
      <4>2. TextOf(e, n) = {}
        BY <1>5, <2>3, <3>1, <4>1
      <4>3. t[n] = <<>> /\ Len(<<>>) = 0
        BY <2>1, <3>3
      <4> QED BY <4>2, <4>3, FS_EmptySet
    <3> QED BY <3>1, <3>2, <3>3
  <2>5. \A n \in Nat \ {0} : PresentIn(e, n) <=> n \in 1..Len(t) /\ (n = Len(t) => t[n] # <<>>)
    <3>1. \A n \in Nat \ {0} : n \in 1..Len(t) /\ (n = Len(t) => t[n] # <<>>) <=> n \in 1..m
      BY <1>8, <2>1
    <3>2. \A n \in Nat \ {0} : PresentIn(e, n) <=> n \in 1..m
      BY <1>5, <1>6, <1>8 DEF m
    <3> QED BY <3>1, <3>2
  <2>6. LinesOf(e, t)
    BY <1>2, <2>2, <2>4, <2>5 DEF LinesOf
  <2> QED BY <2>6 DEF e, t
<1>10. CASE ch = "text"
  <2>0. ch # "newline"
    BY <1>10
  <2>1. Len(t) = m /\ t[m] = Append(ls[m], ch) /\ \A n \in 1..m-1 : t[n] = ls[n]
    BY <1>2, <1>10
  <2>2. /\ Len(t[m]) = Len(ls[m]) + 1 /\ t[m] # <<>>
    BY <1>7, <2>1, AppendProperties
  <2> HIDE DEF m
  <2>3. Above(e, Len(e) + 1) = Len(t) - 1
    BY <1>5, <1>8, <2>0, <2>1
  <2>4. \A n \in 1..Len(t) : Len(t[n]) = Cardinality(TextOf(e, n))
    <3> SUFFICES ASSUME NEW n \in 1..Len(t) PROVE Len(t[n]) = Cardinality(TextOf(e, n))
      OBVIOUS
    <3>1. n \in Nat \ {0} /\ (n \in 1..m-1 \/ n = m) /\ n \in 1..m
      BY <1>8, <2>1
    <3>2. Len(ls[n]) = Cardinality(TextOf(d, n))
      BY <1>6, <3>1 DEF m
    <3>3. CASE n = m
      <4>1. TextOf(e, n) = TextOf(d, n) \cup {Len(d) + 1}
        BY <1>5, <1>8, <1>10, <3>1, <3>3
      <4>2. Cardinality(TextOf(d, n) \cup {Len(d) + 1}) = Cardinality(TextOf(d, n)) + 1
        BY <1>5, <3>1, FS_AddElement
      <4> QED BY <2>2, <3>2, <3>3, <4>1, <4>2
    <3>4. CASE n \in 1..m-1
      <4>1. n # k
        BY <1>8, <3>4
      <4>2. TextOf(e, n) = TextOf(d, n)
        BY <1>5, <3>1, <4>1
      <4> QED BY <2>1, <3>2, <3>4, <4>2
    <3> QED BY <3>1, <3>3, <3>4
  <2>5. \A n \in Nat \ {0} : PresentIn(e, n) <=> n \in 1..Len(t) /\ (n = Len(t) => t[n] # <<>>)
    <3>1. \A n \in Nat \ {0} : n \in 1..Len(t) /\ (n = Len(t) => t[n] # <<>>) <=> n \in 1..m
      BY <1>8, <2>1, <2>2
    <3>2. \A n \in Nat \ {0} : PresentIn(e, n) <=> n \in 1..m
      BY <1>5, <1>6, <1>8 DEF m
    <3> QED BY <3>1, <3>2
  <2>6. LinesOf(e, t)
    BY <1>2, <2>3, <2>4, <2>5 DEF LinesOf
  <2> QED BY <2>6 DEF e, t
<1> QED BY <1>9, <1>10 DEF Char

LEMMA PiecesAreLines == \A d \in Seq(Char) : LinesOf(d, Pieces(d))
<1> DEFINE S == {d \in Seq(Char) : LinesOf(d, Pieces(d))}
<1>1. <<>> \in S
  BY EmptySeq, NoFileNoLine, PiecesRun
<1>2. \A d \in Seq(Char), ch \in Char : d \in S => Append(d, ch) \in S
  <2> SUFFICES ASSUME NEW d \in Seq(Char), NEW ch \in Char, d \in S PROVE Append(d, ch) \in S
    OBVIOUS
  <2>1. Append(d, ch) \in Seq(Char)
    BY AppendProperties
  <2>2. LinesOf(Append(d, ch), AddChar(Pieces(d), ch))
    BY LinesGrow
  <2>3. Pieces(Append(d, ch)) = AddChar(Pieces(d), ch)
    BY PiecesRun
  <2> QED BY <2>1, <2>2, <2>3
<1>3. Seq(Char) \subseteq S
  <2> HIDE DEF S
  <2> QED BY <1>1, <1>2, SeqInduction
<1> QED BY <1>3

\* The lines of a file are its pieces, less an empty last one.
LEMMA AllLines ==
  ASSUME NEW d \in Seq(Char)
  PROVE  /\ Len(ReadAllLines(d)) \in Nat
         /\ \A n \in Nat \ {0} : PresentIn(d, n) <=> n <= Len(ReadAllLines(d))
         /\ \A n \in 1..Len(ReadAllLines(d)) :
              Len(ReadAllLines(d)[n]) = Cardinality(TextOf(d, n))
<1> DEFINE ls == Pieces(d)
           r == ReadAllLines(d)
           m == Len(ls)
<1>1. LinesOf(d, ls)
  BY PiecesAreLines
<1>2. ls \in Seq(Seq(Char)) /\ ls # <<>>
  BY <1>1 DEF LinesOf, Split
<1>3. /\ Front(ls) \in Seq(Seq(Char)) /\ m \in Nat \ {0} /\ Len(Front(ls)) = m - 1
      /\ \A i \in 1..m-1 : Front(ls)[i] = ls[i]
      /\ Last(ls) = ls[m]
  BY <1>2, FrontAndLast
<1>4. r = IF ls[m] = <<>> THEN Front(ls) ELSE ls
  BY <1>3 DEF ReadAllLines
<1>5. /\ \A n \in 1..m : Len(ls[n]) = Cardinality(TextOf(d, n))
      /\ \A n \in Nat \ {0} : PresentIn(d, n) <=> n \in 1..m /\ (n = m => ls[n] # <<>>)
  BY <1>1 DEF LinesOf
<1> HIDE DEF ls, r
<1>6. CASE ls[m] = <<>>
  <2>1. Len(r) = m - 1 /\ \A n \in 1..m-1 : r[n] = ls[n]
    BY <1>3, <1>4, <1>6
  <2> HIDE DEF m
  <2>2. \A n \in Nat \ {0} : PresentIn(d, n) <=> n <= Len(r)
    BY <1>3, <1>5, <1>6, <2>1
  <2>3. \A n \in 1..Len(r) : n \in 1..m /\ r[n] = ls[n]
    BY <1>3, <2>1
  <2> QED BY <1>3, <1>5, <2>1, <2>2, <2>3 DEF r
<1>7. CASE ls[m] # <<>>
  <2>1. Len(r) = m /\ r = ls
    BY <1>4, <1>7
  <2> HIDE DEF m
  <2>2. \A n \in Nat \ {0} : PresentIn(d, n) <=> n <= Len(r)
    BY <1>3, <1>5, <1>7, <2>1
  <2> QED BY <1>3, <1>5, <2>1, <2>2 DEF r
<1> QED BY <1>6, <1>7

----------------------------------------------------------------------------
(* The lines shown. *)

\* A line as it is shown.
ShownLine(lines, line, n) == [n |-> n, text |-> lines[n], current |-> n = line]

LEMMA ShownParts ==
  ASSUME NEW lines, NEW line, NEW n
  PROVE  /\ ShownLine(lines, line, n).n = n /\ ShownLine(lines, line, n).text = lines[n]
         /\ ShownLine(lines, line, n).current <=> n = line
<1>1. ShownLine(lines, line, n).n = n /\ ShownLine(lines, line, n).text = lines[n]
  BY DEF ShownLine
<1>2. ShownLine(lines, line, n).current = (n = line)
  BY Zenon DEF ShownLine
<1> QED BY <1>1, <1>2

\* What `source' shows of a file is what the file has around the line.
Around(d, line, ls) ==
  /\ {ls[k].n : k \in DOMAIN ls} = {n \in line - 2..line + 6 : n >= 1 /\ PresentIn(d, n)}
  /\ \A k \in DOMAIN ls : /\ k > 1 => ls[k].n = ls[k-1].n + 1
                          /\ Len(ls[k].text) = Cardinality(TextOf(d, ls[k].n))
                          /\ ls[k].current <=> ls[k].n = line

LEMMA SourceShows ==
  ASSUME NEW d \in Seq(Char), NEW line \in Int
  PROVE  Around(d, line, SourceLines(d, line))
<1> DEFINE lines == ReadAllLines(d)
           size  == Len(lines)
           lo    == FirstLine(line)
           hi    == IF line + After > size THEN size ELSE line + After
           ls    == SourceLines(d, line)
<1>1. /\ size \in Nat
      /\ \A n \in Nat \ {0} : PresentIn(d, n) <=> n <= size
      /\ \A n \in 1..size : Len(lines[n]) = Cardinality(TextOf(d, n))
  BY AllLines
<1>2. ls = [k \in 1..(hi - lo + 1) |-> ShownLine(lines, line, lo + k - 1)]
  BY Zenon DEF SourceLines, ShownLine
<1> HIDE DEF lines, ls
<1>3. lo \in Nat \ {0} /\ lo = IF line - 2 < 1 THEN 1 ELSE line - 2
  BY DEF FirstLine, Before
<1>4. hi \in Int /\ hi = IF line + 6 > size THEN size ELSE line + 6
  BY <1>1 DEF After
<1> HIDE DEF size, lo, hi
<1>5. DOMAIN ls = 1..(hi - lo + 1)
  BY <1>2
<1>6. \A k \in DOMAIN ls : /\ k \in Nat \ {0} /\ k <= hi - lo + 1
                           /\ ls[k].n = lo + k - 1 /\ ls[k].text = lines[lo + k - 1]
                           /\ ls[k].current <=> lo + k - 1 = line
  <2> SUFFICES ASSUME NEW k \in DOMAIN ls
               PROVE  /\ k \in Nat \ {0} /\ k <= hi - lo + 1
                      /\ ls[k].n = lo + k - 1 /\ ls[k].text = lines[lo + k - 1]
                      /\ ls[k].current <=> lo + k - 1 = line
    OBVIOUS
  <2>1. k \in Nat \ {0} /\ k <= hi - lo + 1
    BY <1>3, <1>4, <1>5
  <2>2. ls[k] = ShownLine(lines, line, lo + k - 1)
    BY <1>2, <1>5
  <2> QED BY <2>1, <2>2, ShownParts
<1>7. \A n \in Int : n \in line - 2..line + 6 /\ n >= 1 /\ PresentIn(d, n) <=> n >= lo /\ n <= hi
  <2> SUFFICES ASSUME NEW n \in Int
               PROVE  n \in line - 2..line + 6 /\ n >= 1 /\ PresentIn(d, n) <=> n >= lo /\ n <= hi
    OBVIOUS
  <2>1. n >= 1 => (PresentIn(d, n) <=> n <= size)
    BY <1>1
  <2>2. n \in line - 2..line + 6 <=> line - 2 <= n /\ n <= line + 6
    OBVIOUS
  <2>3. n >= lo <=> n >= 1 /\ line - 2 <= n
    BY <1>3
  <2>4. n <= hi <=> n <= size /\ n <= line + 6
    BY <1>1, <1>4
  <2> QED BY <2>1, <2>2, <2>3, <2>4
<1>8. {ls[k].n : k \in DOMAIN ls} = {n \in line - 2..line + 6 : n >= 1 /\ PresentIn(d, n)}
  <2>1. ASSUME NEW k \in DOMAIN ls
        PROVE  ls[k].n \in {n \in line - 2..line + 6 : n >= 1 /\ PresentIn(d, n)}
    <3>1. ls[k].n \in Int /\ ls[k].n >= lo /\ ls[k].n <= hi
      BY <1>3, <1>4, <1>6
    <3> QED BY <1>7, <3>1
  <2>2. ASSUME NEW n \in line - 2..line + 6, n >= 1, PresentIn(d, n)
        PROVE  \E k \in DOMAIN ls : ls[k].n = n
    <3>1. n \in Int /\ n >= lo /\ n <= hi
      BY <1>7, <2>2
    <3> DEFINE k == n - lo + 1
    <3>2. k \in DOMAIN ls /\ lo + k - 1 = n
      BY <1>3, <1>4, <1>5, <3>1
    <3> HIDE DEF k
    <3>3. ls[k].n = n
      BY <1>6, <3>2
    <3> QED BY <3>2, <3>3
  <2> QED BY <2>1, <2>2
<1>9. ASSUME NEW k \in DOMAIN ls
      PROVE  /\ k > 1 => ls[k].n = ls[k-1].n + 1
             /\ Len(ls[k].text) = Cardinality(TextOf(d, ls[k].n))
             /\ ls[k].current <=> ls[k].n = line
  <2>1. k > 1 => k - 1 \in DOMAIN ls
    BY <1>3, <1>4, <1>5
  <2>2. k > 1 => ls[k].n = ls[k-1].n + 1
    <3>1. k > 1 => ls[k-1].n = lo + (k - 1) - 1
      BY <1>6, <2>1
    <3>2. k \in Nat /\ ls[k].n = lo + k - 1
      BY <1>6
    <3>3. k \in Nat => lo + k - 1 = (lo + (k - 1) - 1) + 1
      BY <1>3
    <3> QED BY <3>1, <3>2, <3>3
  <2>3. ls[k].n \in 1..size
    BY <1>1, <1>3, <1>4, <1>6
  <2> QED BY <1>1, <1>6, <2>2, <2>3
<1>10. Around(d, line, ls)
  BY <1>8, <1>9 DEF Around
<1> QED BY <1>10 DEF ls

\* A line that asks for source is understood as such: without a number, or with
\* one that Atoi has read.
LEMMA SourceUnderstood ==
  ASSUME SaidInv, LineRead, said.cmd = "source", Understood.ok
  PROVE  Understood.line \in Int
<1>1. "source" \in DOMAIN Alias /\ \A c \in DOMAIN Alias : "source" \in Alias[c] <=> c = "source"
  BY DEF Alias
<1>2. words # <<>> /\ Head(words) = W("source")
  <2>1. \A a \in Alias["source"] : a = "source"
    BY DEF Alias
  <2> QED BY <1>1, <2>1 DEF SaidInv, Named, LineRead
<1>3. Fields(scan) = words /\ words \in Seq(Words)
  BY WordsBack DEF LineRead
<1>4. Dispatch(words) = "source"
  <2>1. words[1][1] = "source"
    BY <1>2, <1>3 DEF W
  <2> QED BY <1>1, <2>1 DEF Dispatch
<1> DEFINE ws == Tail(words)
           s  == Args("source", ws)
           r  == Request("source", ws)
<1>5. Understood = r
  BY <1>3, <1>4, Zenon DEF Understood
<1>6. ws \in Seq(Words)
  BY <1>2, <1>3, HeadTailProperties
<1>7. r = Usage \/ r = [ok |-> TRUE, file |-> Got(s, "--file"), line |-> Atoi(Got(s, "--line"))]
  BY Zenon DEF Request
<1>8. Atoi(Got(s, "--line")) \in Int
  <2>1. "source" \in Command /\ "--line" \in Flag
    BY DEF Command, Flag, Valued
  <2>2. s \in ArgState("source")
    BY <1>6, <2>1, ArgsType
  <2> HIDE DEF s
  <2> QED BY <2>1, <2>2, GotType, AtoiNumber
<1> HIDE DEF r, s
<1>9. r # Usage
  <2>1. Usage.ok = FALSE
    BY Zenon DEF Usage
  <2> QED BY <1>5, <2>1, Zenon
<1> QED BY <1>5, <1>7, <1>8, <1>9

\* What is shown is what `source' makes of a file around a line.
ShowsSource ==
  shown # NotShown =>
    \E data \in Contents, line \in Int :
      shown = [data |-> data, line |-> line, lines |-> SourceLines(data, line)]

LEMMA ShowsSourceStep ==
  ASSUME SaidInv, ShowsSource, [InspectionNext]_allVars
  PROVE  ShowsSource'
<1>1. CASE UNCHANGED shown
  BY <1>1 DEF ShowsSource
<1>2. CASE shown' = NotShown
  BY <1>2 DEF ShowsSource
<1>3. CASE Source
  <2> DEFINE r    == Understood
             here == r.file = <<>> \/ r.line = 0
  <2>1. LineRead /\ said.cmd = "source"
    BY <1>3 DEF Source, Carries
  <2>2. PICK data \in Contents, line \in {IF here THEN n ELSE r.line : n \in StopLine} :
          r.ok /\ shown' = [data |-> data, line |-> line, lines |-> SourceLines(data, line)]
    BY <1>3, Zenon DEF Source
  <2>3. r.line \in Int
    BY <2>1, <2>2, SourceUnderstood
  <2> HIDE DEF r, here
  <2>4. line \in Int
    BY <2>2, <2>3
  <2> QED BY <2>2, <2>4 DEF ShowsSource
<1>4. UNCHANGED shown \/ shown' = NotShown \/ Source
  BY DEF InspectionNext, NextLine, UserSays, ReadRune, ReadGoid, Ask, Switch, TargetMoves,
         EndCommand, Prompt, query, allVars
<1> QED BY <1>1, <1>2, <1>3, <1>4

\* The lines of the file from two before the line to six after it are shown, each
\* under its number and with its text: whatever the file holds, whichever line
\* the user or the stop names, though the file may end earlier, begin later or
\* lack a last newline.
THEOREM WindowShown == InspectionSpec => []WindowAround
<1>1. InspectionInit => ShowsSource
  BY DEF InspectionInit, ShowsSource
<1>2. SaidInv /\ ShowsSource /\ [InspectionNext]_allVars => ShowsSource'
  BY ShowsSourceStep
<1>3. ShowsSource => WindowAround
  <2> SUFFICES ASSUME ShowsSource, shown # NotShown PROVE WindowAround
    BY DEF WindowAround
  <2>1. PICK data \in Contents, line \in Int :
          shown = [data |-> data, line |-> line, lines |-> SourceLines(data, line)]
    BY DEF ShowsSource
  <2>2. data \in Seq(Char)
    BY ContentsAssumption DEF Char
  <2>3. Around(data, line, SourceLines(data, line))
    BY <2>2, SourceShows
  <2>4. shown.data = data /\ shown.line = line /\ shown.lines = SourceLines(data, line)
    BY <2>1
  <2>5. Around(shown.data, shown.line, shown.lines)
    BY <2>3, <2>4
  <2> QED BY <2>5, Zenon DEF WindowAround, Around, PresentIn, TextOf, Above, NewlinesTo
<1> QED BY <1>1, <1>2, <1>3, SaidSafe, PTL DEF InspectionSpec
=============================================================================
