------------------------- MODULE CommandLineProofs -------------------------
(***************************************************************************)
(* Theorems about the tokenizer (module CommandLine): the words of a line  *)
(* come back, for every alphabet, however long the words and however many. *)
(*                                                                         *)
(* No induction over the line is needed: the state of the scan says which  *)
(* part of which word it has reached, and one rune moves it on by one.     *)
(***************************************************************************)
EXTENDS CommandLine, SequenceTheorems, TLAPS

USE CommandLineAssumption

\* The runes there are: those of module CommandLine, and the pieces of text that
\* stand for runs of them in module Arguments.
Piece == {"bp", "b", "breakpoint", "stack", "bt", "backtrace", "locals", "args", "eval",
          "print", "p", "goroutine", "g", "source", "add", "set", "a",
          "--file", "--function", "--line", "--name", "--cond", "--hit-expr", "--depth",
          "--frame", "--host", "--port", "--in", "--exec", "--timeout", "--resume-after",
          "--trace", "--once", "--disabled", "--json", "--hold",
          "0", "1", "2", "3", "4", ":", "f", "v", "x", "+", "c1", "c2"}
Text == Rune \cup Piece

Blank == <<"blank">>

ScanTypeOK ==
  /\ words \in Seq(Seq(Text) \ {<<>>})
  /\ rest \in Seq(Text)
  /\ scan \in [out : Seq(Seq(Text)), cur : Seq(Text), inS : BOOLEAN, inD : BOOLEAN]

\* Outside quotes, with the words ws found.
Found(ws) == ~scan.inS /\ ~scan.inD /\ Fields(scan) = ws

\* The word w is written and not begun: the blanks before it come first, without
\* which there is nothing for it to run into.
Ahead(w) ==
  \E v \in Written(w) : \/ rest = v /\ scan.cur = <<>>
                        \/ rest = Blank \o v
                        \/ rest = Blank \o (Blank \o v)

\* Within the word w: what has been read of it and what is left make up the word,
\* and the quotes that are open are the ones that the rest of the line closes.
Within(w) ==
  \E t \in Seq(Text) :
    /\ w = scan.cur \o t
    /\ \/ Plain(w) /\ rest = t /\ ~scan.inS /\ ~scan.inD
       \/ \E q \in {"sq", "dq"} : /\ q \notin {w[i] : i \in 1..Len(w)}
                                  /\ rest = t \o <<q>>
                                  /\ scan.inS = (q = "sq") /\ scan.inD = (q = "dq")

\* The last word: all the others have been found, and the scan is before it or
\* within it.
Reached(ws, w) ==
  /\ words = Append(ws, w)
  /\ \/ Found(ws) /\ Ahead(w)
     \/ scan.out = ws /\ Within(w)

LineInv ==
  /\ ScanTypeOK
  /\ \/ rest = <<>> /\ Found(words)
     \/ \E ws \in Seq(Seq(Text) \ {<<>>}), w \in Seq(Text) \ {<<>>} : Reached(ws, w)

----------------------------------------------------------------------------
(* Sequences. *)

\* A rune moved from the front of what is left to the end of what has been read
\* leaves the whole as it was.
LEMMA MoveOn ==
  ASSUME NEW S, NEW s \in Seq(S), NEW t \in Seq(S), t # <<>>
  PROVE  s \o t = Append(s, Head(t)) \o Tail(t)
<1>1. Head(t) \in S /\ Tail(t) \in Seq(S)
  BY HeadTailProperties
<1>2. <<Head(t)>> \in Seq(S)
  BY <1>1
<1>3. t = <<Head(t)>> \o Tail(t)
  <2>1. /\ <<Head(t)>> \o Tail(t) \in Seq(S)
        /\ Len(<<Head(t)>> \o Tail(t)) = Len(<<Head(t)>>) + Len(Tail(t))
        /\ \A i \in 1..Len(<<Head(t)>>) + Len(Tail(t)) : (<<Head(t)>> \o Tail(t))[i] =
             IF i <= Len(<<Head(t)>>) THEN <<Head(t)>>[i] ELSE Tail(t)[i - Len(<<Head(t)>>)]
    BY <1>1, <1>2, ConcatProperties
  <2>2. /\ Len(Tail(t)) = Len(t) - 1
        /\ \A i \in 1..Len(Tail(t)) : Tail(t)[i] = t[i + 1]
        /\ Len(t) \in Nat
    BY HeadTailProperties
  <2>3. Len(<<Head(t)>>) = 1 /\ <<Head(t)>>[1] = t[1]
    OBVIOUS
  <2>4. Len(<<Head(t)>> \o Tail(t)) = Len(t)
    BY <2>1, <2>2, <2>3
  <2>5. \A i \in 1..Len(t) : (<<Head(t)>> \o Tail(t))[i] = t[i]
    <3> SUFFICES ASSUME NEW i \in 1..Len(t)
                 PROVE  (<<Head(t)>> \o Tail(t))[i] = t[i]
      OBVIOUS
    <3>1. CASE i = 1
      BY <2>1, <2>2, <2>3, <3>1
    <3>2. CASE i # 1
      <4>1. i - 1 \in 1..Len(Tail(t)) /\ Tail(t)[i - 1] = t[i]
        BY <2>2, <3>2
      <4> QED BY <2>1, <2>2, <2>3, <3>2, <4>1
    <3> QED BY <3>1, <3>2
  <2> QED BY <2>1, <2>4, <2>5, SeqEqual
<1>4. Append(s, Head(t)) = s \o <<Head(t)>>
  BY <1>1, AppendIsConcat
<1>5. (s \o <<Head(t)>>) \o Tail(t) = s \o (<<Head(t)>> \o Tail(t))
  BY <1>1, <1>2, ConcatAssociative
<1> QED BY <1>3, <1>4, <1>5

\* The front of a line is the front of its first part.
LEMMA FrontOfLine ==
  ASSUME NEW S, NEW s \in Seq(S), NEW t \in Seq(S), s # <<>>
  PROVE  s \o t # <<>> /\ Head(s \o t) = Head(s) /\ Tail(s \o t) = Tail(s) \o t
<1>1. /\ s \o t \in Seq(S) /\ Len(s \o t) = Len(s) + Len(t)
      /\ \A i \in 1..Len(s) + Len(t) : (s \o t)[i] = IF i <= Len(s) THEN s[i] ELSE t[i - Len(s)]
  BY ConcatProperties
<1>2. Len(s) \in Nat \ {0} /\ Len(t) \in Nat
  BY EmptySeq, LenProperties
<1>3. s \o t # <<>> /\ Head(s \o t) = Head(s)
  BY <1>1, <1>2
<1>4. /\ Tail(s) \in Seq(S) /\ Len(Tail(s)) = Len(s) - 1
      /\ \A i \in 1..Len(Tail(s)) : Tail(s)[i] = s[i + 1]
  BY HeadTailProperties
<1>5. /\ Tail(s \o t) \in Seq(S) /\ Len(Tail(s \o t)) = Len(s \o t) - 1
      /\ \A i \in 1..Len(Tail(s \o t)) : Tail(s \o t)[i] = (s \o t)[i + 1]
  BY <1>1, <1>3, HeadTailProperties
<1>6. /\ Tail(s) \o t \in Seq(S) /\ Len(Tail(s) \o t) = Len(Tail(s)) + Len(t)
      /\ \A i \in 1..Len(Tail(s)) + Len(t) :
           (Tail(s) \o t)[i] = IF i <= Len(Tail(s)) THEN Tail(s)[i] ELSE t[i - Len(Tail(s))]
  BY <1>4, ConcatProperties
<1>7. Len(Tail(s \o t)) = Len(Tail(s) \o t)
  BY <1>1, <1>2, <1>4, <1>5, <1>6
<1>8. \A i \in 1..Len(Tail(s \o t)) : Tail(s \o t)[i] = (Tail(s) \o t)[i]
  <2> SUFFICES ASSUME NEW i \in 1..Len(Tail(s \o t))
               PROVE  Tail(s \o t)[i] = (Tail(s) \o t)[i]
    OBVIOUS
  <2>1. Tail(s \o t)[i] = IF i + 1 <= Len(s) THEN s[i + 1] ELSE t[i + 1 - Len(s)]
    BY <1>1, <1>2, <1>5
  <2>2. (Tail(s) \o t)[i] = IF i <= Len(Tail(s)) THEN Tail(s)[i] ELSE t[i - Len(Tail(s))]
    BY <1>2, <1>4, <1>6, <1>7
  <2>3. CASE i + 1 <= Len(s)
    BY <1>2, <1>4, <2>1, <2>2, <2>3
  <2>4. CASE i + 1 > Len(s)
    <3>1. i - Len(Tail(s)) = i + 1 - Len(s) /\ ~(i <= Len(Tail(s)))
      BY <1>2, <1>4, <2>4
    <3> QED BY <1>2, <2>1, <2>2, <2>4, <3>1
  <2> QED BY <1>2, <2>3, <2>4
<1> QED BY <1>3, <1>5, <1>6, <1>7, <1>8, SeqEqual
----------------------------------------------------------------------------
(* Runes. *)

\* A word is written in one rune at least: quotes for an empty one.
LEMMA WrittenRunes ==
  ASSUME NEW w \in Seq(Text), NEW v \in Written(w)
  PROVE  v \in Seq(Text) /\ v # <<>>
<1>1. CASE v = w /\ Plain(w)
  BY <1>1 DEF Plain
<1>2. ASSUME NEW q \in {"sq", "dq"}, v = <<q>> \o w \o <<q>>
      PROVE  v \in Seq(Text) /\ v # <<>>
  <2>1. <<q>> \in Seq(Text) /\ <<q>> # <<>>
    BY DEF Text, Rune
  <2>2. <<q>> \o w \in Seq(Text) /\ <<q>> \o w # <<>>
    BY <2>1, FrontOfLine, ConcatProperties
  <2>3. (<<q>> \o w) \o <<q>> \in Seq(Text) /\ (<<q>> \o w) \o <<q>> # <<>>
    BY <2>1, <2>2, FrontOfLine, ConcatProperties
  <2> QED BY <1>2, <2>3
<1> QED BY <1>1, <1>2 DEF Written, Quoted

\* A word the user may want to say.
LEMMA WordRunes ==
  ASSUME NEW w \in Word
  PROVE  w \in Seq(Text) /\ (~Empty => w # <<>>)
<1>1. w \in SeqOf(Rune, MaxWord)
  BY DEF Word, BoundedSeq
<1>2. PICK n \in 0..MaxWord : w \in [1..n -> Rune]
  BY <1>1 DEF SeqOf
<1>3. n \in Nat /\ w = [i \in 1..n |-> w[i]] /\ \A i \in 1..n : w[i] \in Text
  BY <1>2 DEF Rune, Text
<1>4. w \in Seq(Text)
  BY <1>2, <1>3
<1> QED BY <1>4 DEF Word

\* What is read next is a rune, and the variables of splitArgs keep their types.
LEMMA ScanTypeStep ==
  ASSUME ScanTypeOK, Read
  PROVE  ScanTypeOK' /\ Head(rest) \in Text /\ UNCHANGED words
<1>1. /\ Head(rest) \in Text /\ Tail(rest) \in Seq(Text)
      /\ rest' = Tail(rest) /\ UNCHANGED words /\ scan' = ScanRune(scan, Head(rest))
  BY HeadTailProperties DEF ScanTypeOK, Read
<1>2. /\ Append(scan.cur, Head(rest)) \in Seq(Text) /\ Append(scan.out, scan.cur) \in Seq(Seq(Text))
      /\ <<>> \in Seq(Text)
  BY <1>1 DEF ScanTypeOK
<1>3. scan' \in [out : Seq(Seq(Text)), cur : Seq(Text), inS : BOOLEAN, inD : BOOLEAN]
  BY <1>1, <1>2 DEF ScanTypeOK, ScanRune
<1> QED BY <1>1, <1>3 DEF ScanTypeOK

\* A blank between words ends the word before it, if there is one.
LEMMA BlankRead ==
  ASSUME ScanTypeOK, Read, NEW ws, Found(ws), NEW u \in Seq(Text), rest = Blank \o u
  PROVE  rest' = u /\ Found(ws)' /\ scan'.out = ws /\ scan'.cur = <<>>
<1>1. Blank \in Seq(Text) /\ Blank # <<>> /\ Head(Blank) = "blank" /\ Tail(Blank) = <<>>
  BY DEF Blank, Text, Rune
<1>2. Head(rest) = "blank" /\ Tail(rest) = <<>> \o u
  BY <1>1, FrontOfLine
<1>3. <<>> \o u = u
  BY ConcatEmptySeq
<1>4. scan' = IF scan.cur = <<>> THEN scan
              ELSE [scan EXCEPT !.out = Append(@, scan.cur), !.cur = <<>>]
  BY <1>2 DEF Read, ScanRune, Found
<1>5. /\ ~scan'.inS /\ ~scan'.inD /\ scan'.cur = <<>>
      /\ scan'.out = Fields(scan)
  BY <1>4 DEF Found, Fields, ScanTypeOK
<1> QED BY <1>2, <1>3, <1>5 DEF Read, Found, Fields

\* A rune of a word joins what has been read of it.
LEMMA LetterRead ==
  ASSUME ScanTypeOK, Read, NEW ch, Head(rest) = ch,
         \/ ch \notin {"blank", "sq", "dq"}
         \/ \E q \in {"sq", "dq"} : ch # q /\ scan.inS = (q = "sq") /\ scan.inD = (q = "dq")
  PROVE  scan' = [scan EXCEPT !.cur = Append(@, ch)]
BY DEF Read, ScanRune

\* A quote outside quotes opens them, and inside its own closes them.
LEMMA QuoteRead ==
  ASSUME ScanTypeOK, Read, NEW q \in {"sq", "dq"}, Head(rest) = q,
         \/ ~scan.inS /\ ~scan.inD
         \/ scan.inS = (q = "sq") /\ scan.inD = (q = "dq")
  PROVE  /\ scan'.out = scan.out /\ scan'.cur = scan.cur
         /\ scan'.inS = (q = "sq" /\ ~scan.inS) /\ scan'.inD = (q = "dq" /\ ~scan.inD)
<1>1. CASE q = "sq"
  BY <1>1 DEF Read, ScanRune, ScanTypeOK
<1>2. CASE q = "dq"
  BY <1>2 DEF Read, ScanRune, ScanTypeOK
<1> QED BY <1>1, <1>2
----------------------------------------------------------------------------
(* Steps. *)

\* Within a word: another rune of it, or the quote that ends it.
LEMMA ReadWithin ==
  ASSUME ScanTypeOK, Read, NEW ws \in Seq(Seq(Text) \ {<<>>}), NEW w \in Seq(Text) \ {<<>>},
         words = Append(ws, w), scan.out = ws, Within(w)
  PROVE  (rest' = <<>> /\ Found(words)') \/ Reached(ws, w)'
<1>1. PICK t \in Seq(Text) :
        /\ w = scan.cur \o t
        /\ \/ Plain(w) /\ rest = t /\ ~scan.inS /\ ~scan.inD
           \/ \E q \in {"sq", "dq"} : /\ q \notin {w[i] : i \in 1..Len(w)}
                                      /\ rest = t \o <<q>>
                                      /\ scan.inS = (q = "sq") /\ scan.inD = (q = "dq")
  BY DEF Within
<1>2. /\ scan.cur \in Seq(Text) /\ UNCHANGED words
      /\ rest # <<>> /\ rest' = Tail(rest)
      /\ scan \in [out : Seq(Seq(Text)), cur : Seq(Text), inS : BOOLEAN, inD : BOOLEAN]
  BY DEF ScanTypeOK, Read
\* A rune of the word.
<1>3. ASSUME t # <<>>
      PROVE  /\ Head(t) \in {w[i] : i \in 1..Len(w)}
             /\ w = Append(scan.cur, Head(t)) \o Tail(t) /\ Tail(t) \in Seq(Text)
  <2>1. /\ w = Append(scan.cur, Head(t)) \o Tail(t) /\ Tail(t) \in Seq(Text)
        /\ Head(t) \in Text
    BY <1>1, <1>2, <1>3, MoveOn, HeadTailProperties
  <2>2. /\ Append(scan.cur, Head(t)) \in Seq(Text)
        /\ Len(Append(scan.cur, Head(t))) = Len(scan.cur) + 1
        /\ Append(scan.cur, Head(t))[Len(scan.cur) + 1] = Head(t)
    BY <1>2, <2>1, AppendProperties
  <2>3. /\ Len(w) = Len(scan.cur) + 1 + Len(Tail(t))
        /\ w[Len(scan.cur) + 1] = Head(t)
    <3>1. Len(scan.cur) \in Nat /\ Len(Tail(t)) \in Nat
      BY <1>2, <2>1, LenProperties
    <3> QED BY <2>1, <2>2, <3>1, ConcatProperties
  <2>4. Len(scan.cur) + 1 \in 1..Len(w)
    <3>1. Len(scan.cur) \in Nat /\ Len(Tail(t)) \in Nat
      BY <1>2, <2>1, LenProperties
    <3>2. \A m, n \in Nat : m + 1 \in 1..(m + 1 + n)
      OBVIOUS
    <3>3. Len(scan.cur) + 1 \in 1..(Len(scan.cur) + 1 + Len(Tail(t)))
      BY <3>1, <3>2
    <3> QED BY <2>3, <3>3
  <2> QED BY <2>1, <2>3, <2>4
<1>4. CASE Plain(w) /\ rest = t /\ ~scan.inS /\ ~scan.inD
  <2>1. t # <<>>
    BY <1>2, <1>4
  <2>2. Head(t) \notin {"blank", "sq", "dq"}
    <3>1. Head(t) \in ToSet(w)
      <4>1. DOMAIN w = 1..Len(w)
        BY LenProperties
      <4> QED BY <1>3, <2>1, <4>1 DEF ToSet
    <3> QED BY <1>4, <3>1 DEF Plain
  <2>3. scan' = [scan EXCEPT !.cur = Append(@, Head(t))]
    BY <1>4, <2>2, LetterRead
  <2>4. Within(w)'
    <3>1. w = scan'.cur \o Tail(t) /\ ~scan'.inS /\ ~scan'.inD
      BY <1>2, <1>3, <1>4, <2>1, <2>3
    <3> QED BY <1>2, <1>3, <1>4, <2>1, <3>1 DEF Within
  <2>5. scan'.out = ws
    BY <1>2, <2>3
  <2> QED BY <1>2, <2>4, <2>5 DEF Reached
<1>5. ASSUME NEW q \in {"sq", "dq"}, q \notin {w[i] : i \in 1..Len(w)}, rest = t \o <<q>>,
             scan.inS = (q = "sq"), scan.inD = (q = "dq")
      PROVE  (rest' = <<>> /\ Found(words)') \/ Reached(ws, w)'
  <2>1. <<q>> \in Seq(Text) /\ Head(<<q>>) = q /\ Tail(<<q>>) = <<>>
    BY DEF Text, Rune
  <2>2. CASE t = <<>>
    <3>1. rest = <<q>> /\ w = scan.cur
      BY <1>1, <1>2, <1>5, <2>1, <2>2, ConcatEmptySeq
    <3>2. scan'.out = ws /\ scan'.cur = w /\ ~scan'.inS /\ ~scan'.inD
      BY <1>5, <2>1, <3>1, QuoteRead
    <3>3. Fields(scan') = words
      BY <3>2 DEF Fields
    <3> QED BY <1>2, <2>1, <3>1, <3>2, <3>3 DEF Found
  <2>3. CASE t # <<>>
    <3>1. Head(rest) = Head(t) /\ rest' = Tail(t) \o <<q>>
      BY <1>2, <1>5, <2>1, <2>3, FrontOfLine
    <3>2. Head(t) # q
      BY <1>3, <1>5, <2>3
    <3>3. scan' = [scan EXCEPT !.cur = Append(@, Head(t))]
      BY <1>5, <3>1, <3>2, LetterRead
    <3>4. Within(w)'
      <4>1. /\ w = scan'.cur \o Tail(t)
            /\ scan'.inS = (q = "sq") /\ scan'.inD = (q = "dq")
        BY <1>2, <1>3, <1>5, <2>3, <3>3
      <4> QED BY <1>3, <1>5, <2>3, <3>1, <4>1 DEF Within
    <3>5. scan'.out = ws
      BY <1>2, <3>3
    <3> QED BY <1>2, <3>4, <3>5 DEF Reached
  <2> QED BY <2>2, <2>3
<1> QED BY <1>1, <1>4, <1>5

\* Before a word: a blank, its opening quote, or its first letter.
LEMMA ReadBefore ==
  ASSUME ScanTypeOK, Read, NEW ws \in Seq(Seq(Text) \ {<<>>}), NEW w \in Seq(Text) \ {<<>>},
         words = Append(ws, w), Found(ws), Ahead(w)
  PROVE  (rest' = <<>> /\ Found(words)') \/ Reached(ws, w)'
<1>1. PICK v \in Written(w) : \/ rest = v /\ scan.cur = <<>>
                              \/ rest = Blank \o v
                              \/ rest = Blank \o (Blank \o v)
  BY DEF Ahead
<1>2. v \in Seq(Text) /\ Blank \o v \in Seq(Text)
  <2>1. v \in Seq(Text) /\ Blank \in Seq(Text)
    BY WrittenRunes DEF Blank, Text, Rune
  <2> QED BY <2>1, ConcatProperties
<1>3. UNCHANGED words
  BY DEF Read
<1>4. CASE rest = Blank \o v
  BY <1>2, <1>3, <1>4, BlankRead DEF Reached, Ahead
<1>5. CASE rest = Blank \o (Blank \o v)
  BY <1>2, <1>3, <1>5, BlankRead DEF Reached, Ahead
<1>6. CASE rest = v /\ scan.cur = <<>>
  <2>1. scan.out = ws /\ ~scan.inS /\ ~scan.inD
    BY <1>6 DEF Found, Fields
  <2>2. scan.cur \o w = w
    BY <1>6, ConcatEmptySeq
  <2>3. CASE v = w /\ Plain(w)
    <3>1. Within(w)
      BY <1>6, <2>1, <2>2, <2>3 DEF Within
    <3> QED BY <2>1, <3>1, ReadWithin
  <2>4. ASSUME NEW q \in {"sq", "dq"} \ {w[i] : i \in 1..Len(w)}, v = <<q>> \o w \o <<q>>
        PROVE  Reached(ws, w)'
    <3>1. /\ <<q>> \in Seq(Text) /\ <<q>> # <<>> /\ Head(<<q>>) = q /\ Tail(<<q>>) = <<>>
          /\ w \o <<q>> \in Seq(Text)
      <4>1. <<q>> \in Seq(Text)
        BY DEF Text, Rune
      <4> QED BY <4>1, ConcatProperties
    <3>2. v = <<q>> \o (w \o <<q>>)
      BY <2>4, <3>1, ConcatAssociative
    <3>3. Head(rest) = q /\ rest' = w \o <<q>>
      <4>1. <<>> \o (w \o <<q>>) = w \o <<q>>
        BY <3>1, ConcatEmptySeq
      <4> QED BY <1>6, <3>1, <3>2, <4>1, FrontOfLine DEF Read
    <3>4. /\ scan'.out = ws /\ scan'.cur = <<>>
          /\ scan'.inS = (q = "sq") /\ scan'.inD = (q = "dq")
      BY <1>6, <2>1, <3>3, QuoteRead
    <3>5. scan'.cur \o w = w
      BY <3>4, ConcatEmptySeq
    <3>6. Within(w)'
      BY <2>4, <3>3, <3>4, <3>5 DEF Within
    <3> QED BY <1>3, <3>4, <3>6 DEF Reached
  <2> QED BY <1>6, <2>3, <2>4 DEF Written, Quoted
<1> QED BY <1>1, <1>4, <1>5, <1>6

\* At the end of the line, the last word is complete: the scan is outside quotes
\* and splitArgs returns it with the others.
LEMMA EndOfLine ==
  ASSUME LineInv, rest = <<>>
  PROVE  Found(words)
<1> SUFFICES ASSUME NEW ws \in Seq(Seq(Text) \ {<<>>}), NEW w \in Seq(Text) \ {<<>>},
                    Reached(ws, w)
             PROVE  Found(words)
  BY DEF LineInv
<1>1. ~Ahead(w)
  <2> SUFFICES ASSUME NEW v \in Written(w)
               PROVE  v # <<>> /\ Blank \o v # <<>> /\ Blank \o (Blank \o v) # <<>>
    BY DEF Ahead
  <2>1. v \in Seq(Text) /\ v # <<>> /\ Blank \in Seq(Text) /\ Blank # <<>>
    BY WrittenRunes DEF Blank, Text, Rune
  <2>2. Blank \o v \in Seq(Text)
    BY <2>1, ConcatProperties
  <2> QED BY <2>1, <2>2, FrontOfLine
<1>2. words = Append(ws, w) /\ scan.out = ws /\ Within(w)
  BY <1>1 DEF Reached
<1>3. PICK t \in Seq(Text) :
        /\ w = scan.cur \o t
        /\ \/ Plain(w) /\ rest = t /\ ~scan.inS /\ ~scan.inD
           \/ \E q \in {"sq", "dq"} : rest = t \o <<q>>
  BY <1>2 DEF Within
<1>4. ASSUME NEW q \in {"sq", "dq"}
      PROVE  t \o <<q>> # <<>>
  <2>1. <<q>> \in Seq(Text) /\ <<q>> # <<>>
    BY DEF Text, Rune
  <2> QED BY <2>1, ConcatEqualIffEmpty
<1>5. t = <<>> /\ ~scan.inS /\ ~scan.inD
  BY <1>3, <1>4
<1>6. w = scan.cur
  BY <1>3, <1>5, ConcatEmptySeq DEF LineInv, ScanTypeOK
<1> QED BY <1>2, <1>5, <1>6 DEF Found, Fields

\* Another word is written at the end of the line.
LEMMA WriteStep ==
  ASSUME LineInv, NEW w \in Seq(Text) \ {<<>>}, Write(w)
  PROVE  LineInv'
<1>1. PICK gap \in Gap, v \in Written(w) : rest' = gap \o v
  BY DEF Write
<1>2. words' = Append(words, w) /\ rest' = gap \o v
  BY <1>1 DEF Write
<1>3. /\ rest = <<>> /\ Found(words) /\ UNCHANGED scan
      /\ words \in Seq(Seq(Text) \ {<<>>})
  BY EndOfLine DEF Write, LineInv, ScanTypeOK
<1>4. v \in Seq(Text) /\ Blank \in Seq(Text)
  BY <1>3, WrittenRunes DEF Blank, Text, Rune
<1>5. /\ \/ rest' = v /\ words = <<>>
         \/ rest' = Blank \o v
         \/ rest' = Blank \o (Blank \o v)
      /\ rest' \in Seq(Text)
  <2>1. Blank \o v \in Seq(Text) /\ Blank \o (Blank \o v) \in Seq(Text)
    BY <1>4, ConcatProperties
  <2>2. CASE gap = <<>> /\ words = <<>>
    BY <1>2, <1>4, <2>2, ConcatEmptySeq
  <2>3. CASE gap = Blank
    BY <1>2, <2>1, <2>3
  <2>4. CASE gap = <<"blank", "blank">>
    <3>1. gap = Blank \o Blank
      BY <2>4 DEF Blank
    <3>2. (Blank \o Blank) \o v = Blank \o (Blank \o v)
      BY <1>4, ConcatAssociative
    <3> QED BY <1>2, <2>1, <3>1, <3>2
  <2> QED BY <1>1, <2>2, <2>3, <2>4 DEF Gap, Blank
<1>6. words = <<>> => scan.cur = <<>>
  <2>1. scan.cur # <<>> => Append(scan.out, scan.cur) # <<>>
    <3>1. scan.out \in Seq(Seq(Text)) /\ scan.cur \in Seq(Text)
      BY DEF LineInv, ScanTypeOK
    <3> DEFINE all == Append(scan.out, scan.cur)
    <3>2. Len(all) = Len(scan.out) + 1 /\ Len(scan.out) \in Nat
      BY <3>1, AppendProperties, LenProperties
    <3>3. Len(all) # 0
      <4> HIDE DEF all
      <4> QED BY <3>2
    <3> QED BY <3>3, EmptySeq
  <2> QED BY <1>3, <2>1 DEF Found, Fields
<1>7. Ahead(w)' /\ Found(words)
  BY <1>2, <1>3, <1>5, <1>6 DEF Ahead
<1>8. words' \in Seq(Seq(Text) \ {<<>>})
  BY <1>2, <1>3, AppendProperties
<1>9. \E ws \in Seq(Seq(Text) \ {<<>>}) : Reached(ws, w)'
  <2>1. PICK ws \in Seq(Seq(Text) \ {<<>>}) : ws = words
    BY <1>3
  <2> QED BY <1>2, <1>3, <1>7, <2>1 DEF Reached, Found
<1> QED BY <1>3, <1>5, <1>8, <1>9 DEF LineInv, ScanTypeOK

\* A rune is read.
LEMMA ReadStep ==
  ASSUME LineInv, Read
  PROVE  LineInv'
<1>1. ScanTypeOK' /\ rest # <<>>
  BY ScanTypeStep DEF LineInv, Read
<1>2. PICK ws \in Seq(Seq(Text) \ {<<>>}), w \in Seq(Text) \ {<<>>} : Reached(ws, w)
  BY <1>1 DEF LineInv
<1>3. (rest' = <<>> /\ Found(words)') \/ Reached(ws, w)'
  BY <1>2, ReadWithin, ReadBefore DEF Reached, LineInv
<1> QED BY <1>1, <1>3 DEF LineInv

----------------------------------------------------------------------------
(* The theorem. *)

\* An empty line.
LEMMA EmptyLine == Init => LineInv
BY DEF Init, Start, LineInv, ScanTypeOK, Found, Fields

\* Nothing happens to the line.
LEMMA LineStays ==
  ASSUME LineInv, UNCHANGED vars
  PROVE  LineInv'
<1>1. UNCHANGED words /\ UNCHANGED rest /\ UNCHANGED scan
  BY DEF vars
<1>2. ASSUME NEW ws \in Seq(Seq(Text) \ {<<>>}), NEW w \in Seq(Text) \ {<<>>}
      PROVE  Reached(ws, w)' <=> Reached(ws, w)
  BY <1>1 DEF Reached, Found, Ahead, Within
<1>3. ScanTypeOK' <=> ScanTypeOK
  BY <1>1 DEF ScanTypeOK
<1>4. Found(words)' <=> Found(words)
  BY <1>1 DEF Found
<1> QED BY <1>1, <1>2, <1>3, <1>4 DEF LineInv

\* The invariant holds in every behaviour, if no word is empty.
LEMMA LineSafe ==
  ASSUME ~Empty
  PROVE  Spec => []LineInv
<1>1. Init => LineInv
  BY EmptyLine
<1>2. LineInv /\ [Next]_vars => LineInv'
  <2>1. LineInv /\ UNCHANGED vars => LineInv'
    BY LineStays
  <2>2. AnyWord /\ LineInv => LineInv'
    BY WordRunes, WriteStep DEF AnyWord
  <2> QED BY <2>1, <2>2, ReadStep DEF Next
<1> QED BY <1>1, <1>2, PTL DEF Spec

\* Whatever words a user writes, each plain or in a kind of quotes it does not
\* contain, splitArgs returns those words, in order and whole, however many they
\* are: blanks and quotes of the other kind inside a word included. An empty word
\* is the exception (EmptyWordCounts).
THEOREM WordsComeBack ==
  ASSUME ~Empty
  PROVE  Spec => []WordsArrive
<1>1. LineInv => WordsArrive
  BY EndOfLine DEF WordsArrive, Found
<1> QED BY <1>1, LineSafe, PTL
=============================================================================
