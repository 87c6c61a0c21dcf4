---------------------------- MODULE CommandLine ----------------------------
(***************************************************************************)
(* How a command line becomes the words of a command: splitArgs of         *)
(* internal/console/runner.go, rune by rune. A user quotes the words of a  *)
(* command, the tokenizer reads the line, and the words should come back.  *)
(***************************************************************************)
EXTENDS Naturals, Sequences, SequencesExt

CONSTANTS
  Letter,     \* ordinary runes
  MaxWord,    \* bound on the length of a word
  MaxWords,   \* bound on the number of words
  Empty       \* whether a word may be empty

ASSUME CommandLineAssumption ==
  /\ Letter \cap {"blank", "sq", "dq"} = {}
  /\ MaxWord \in Nat /\ MaxWords \in Nat
  /\ Empty \in BOOLEAN

\* Letters, blanks (space and tab alike), single and double quotes.
Rune == Letter \cup {"blank", "sq", "dq"}

VARIABLES
  words,   \* what the user has said
  rest,    \* the part of the line that is still to be read
  scan     \* the variables of splitArgs

vars == <<words, rest, scan>>

Start == [out |-> <<>>, cur |-> <<>>, inS |-> FALSE, inD |-> FALSE]

----------------------------------------------------------------------------
(* The user: a way to write a word that the tokenizer's comment calls for. *)

Word == {w \in BoundedSeq(Rune, MaxWord) : w # <<>> \/ Empty}

\* In quotes of a kind that does not occur in the word, or plain.
Quoted(w)  == {<<q>> \o w \o <<q>> : q \in {"sq", "dq"} \ {w[i] : i \in 1..Len(w)}}
Plain(w)   == w # <<>> /\ ToSet(w) \cap {"blank", "sq", "dq"} = {}
Written(w) == Quoted(w) \cup (IF Plain(w) THEN {w} ELSE {})

\* What precedes a word: one or two blanks, unless it is the first.
Gap == IF words = <<>> THEN {<<>>} ELSE {<<"blank">>, <<"blank", "blank">>}

\* The line goes on with the word w. The whole line is there before splitArgs
\* reads its first rune; splitArgs never looks ahead, so the rest of the line may
\* as well be chosen when it gets there.
Write(w) ==
  /\ rest = <<>>
  /\ \E gap \in Gap, v \in Written(w) : rest' = gap \o v
  /\ words' = Append(words, w)
  /\ UNCHANGED scan

AnyWord == Len(words) < MaxWords /\ \E w \in Word : Write(w)

----------------------------------------------------------------------------
(* splitArgs. *)

\* A tokenizer to which each kind of quote ends the other.
FaultyScanRune(s, ch) ==
  CASE ch = "sq" -> [s EXCEPT !.inS = ~@]
    [] ch = "dq" -> [s EXCEPT !.inD = ~@]
    [] ch = "blank" /\ ~s.inS /\ ~s.inD ->
         IF s.cur = <<>> THEN s ELSE [s EXCEPT !.out = Append(@, s.cur), !.cur = <<>>]
    [] OTHER -> [s EXCEPT !.cur = Append(@, ch)]

\* One rune: a quote, unless inside the other kind; a blank outside quotes ends
\* a word, if there is one; anything else belongs to the word.
ScanRune(s, ch) ==
  CASE ch = "sq" /\ ~s.inD -> [s EXCEPT !.inS = ~@]
    [] ch = "dq" /\ ~s.inS -> [s EXCEPT !.inD = ~@]
    [] ch = "blank" /\ ~s.inS /\ ~s.inD ->
         IF s.cur = <<>> THEN s ELSE [s EXCEPT !.out = Append(@, s.cur), !.cur = <<>>]
    [] OTHER -> [s EXCEPT !.cur = Append(@, ch)]

\* What splitArgs returns at the end of the line.
Fields(s) == IF s.cur = <<>> THEN s.out ELSE Append(s.out, s.cur)

Init == words = <<>> /\ rest = <<>> /\ scan = Start

Read ==
  /\ rest # <<>>
  /\ scan' = ScanRune(scan, Head(rest))
  /\ rest' = Tail(rest)
  /\ UNCHANGED words

Next == AnyWord \/ Read

Spec == Init /\ [][Next]_vars
----------------------------------------------------------------------------
(* Properties. *)

\* Any list of words, blanks and quotes of one kind included, can be said: wherever
\* the line ends after a word, the tokenizer returns the very words it was written for.
WordsArrive == rest = <<>> => Fields(scan) = words

\* commands.go, usage of bp condition: "(empty EXPR clears)": an empty EXPR
\* arrives as a word of its own.
EmptyWordCounts == rest = <<>> => Len(Fields(scan)) = Len(words)
=============================================================================
