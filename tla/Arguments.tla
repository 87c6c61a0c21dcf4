----------------------------- MODULE Arguments -----------------------------
(***************************************************************************)
(* From a line to a request: the words the tokenizer finds are dispatched  *)
(* and parsed (internal/console/runner.go and commands.go); the flags of   *)
(* `attach' come as words already (internal/cli/cli.go).                   *)
(*                                                                         *)
(* A rune of module CommandLine stands for a run of characters here: a     *)
(* flag, a digit, a colon, a minus or a piece of other text. The user says *)
(* a request in one of the ways the usage texts allow, in any order of the *)
(* flags, or writes any words at all: one word after the other, read as    *)
(* soon as it is written.                                                  *)
(***************************************************************************)
EXTENDS CommandLine, Integers, Loops

CONSTANTS
  MaxOptions,   \* bound on the options a meant command has
  MaxLoose      \* bound on the words of a `bp add' that is not meant

ASSUME ArgumentsAssumption == MaxOptions \in Nat /\ MaxLoose \in Nat

VARIABLE said   \* the command, the request meant by it, and the words still to be said

Alias == [bp         |-> {"bp", "b", "breakpoint"},
          stack      |-> {"stack", "bt", "backtrace"},
          locals     |-> {"locals", "args"},
          eval       |-> {"eval", "print", "p"},
          goroutine  |-> {"goroutine", "g"},
          source     |-> {"source"}]

\* cmdBp: the words for `bp add'.
SubAdd == {"add", "set", "a"}

Valued == [bp        |-> {"--file", "--function", "--line", "--name", "--cond", "--hit-expr"},
           stack     |-> {"--depth"},
           locals    |-> {"--frame"},
           eval      |-> {"--frame"},
           goroutine |-> {},
           source    |-> {"--file", "--line"},
           attach    |-> {"--host", "--port", "--in", "--exec", "--timeout", "--resume-after"}]

Switches(c) == CASE c = "bp"     -> {"--trace", "--once", "--disabled"}
                 [] c = "attach" -> {"--json", "--hold"}
                 [] OTHER        -> {}

Flag == UNION {Valued[c] : c \in DOMAIN Valued}

----------------------------------------------------------------------------
(* Words. *)

Digit == <<"0", "1", "2", "3", "4">>

Digits(w) == IF w # <<>> /\ w[1] = "-" THEN Tail(w) ELSE w

\* strconv.Atoi succeeds.
IsNumber(w) == Digits(w) # <<>> /\ ToSet(Digits(w)) \subseteq ToSet(Digit)

\* What Atoi returns: 0 besides an error, which most callers ignore.
Atoi(w) ==
  LET Value(d)     == (CHOOSE i \in DOMAIN Digit : Digit[i] = d) - 1
      Magnitude(v) == LoopEnd(LAMBDA n, d : 10 * n + Value(d), 0, v)
  IN  IF ~IsNumber(w) THEN 0
      ELSE IF w[1] = "-" THEN 0 - Magnitude(Tail(w)) ELSE Magnitude(w)

\* strings.Cut at the first colon, and the line is a number.
Colon(w)  == CHOOSE i \in DOMAIN w : w[i] = ":" /\ \A j \in 1..i-1 : w[j] # ":"
FileOf(w) == SubSeq(w, 1, Colon(w) - 1)
LineOf(w) == SubSeq(w, Colon(w) + 1, Len(w))
At(w)     == ":" \in ToSet(w) /\ IsNumber(LineOf(w))

IsFlag(w, flags) == Len(w) = 1 /\ w[1] \in flags

----------------------------------------------------------------------------
(* The loops over the arguments, all of one shape. *)

\* want: the flag whose value comes next; val: the values each flag got; on:
\* the switches; pos: the other words; bad: the loop has returned an error.
NoArgs == [want |-> "", val |-> [f \in Flag |-> <<>>], on |-> {}, pos |-> <<>>, bad |-> FALSE]

\* A later value of a flag replaces an earlier one.
Got(s, f) == IF s.val[f] = <<>> THEN <<>> ELSE Last(s.val[f])

\* `attach' refuses a port that is no positive number and negative seconds.
Refuses(flag, w) ==
  \/ flag = "--port" /\ Atoi(w) <= 0
  \/ flag \in {"--timeout", "--resume-after"} /\ (~IsNumber(w) \/ Atoi(w) < 0)

\* A loop that overwrites the first of several --exec, and one that keeps
\* taking values.
FaultyValue(s, w)   == [s EXCEPT !.val[s.want] = <<w>>, !.want = "", !.bad = Refuses(s.want, w)]
StickingValue(s, w) == [s EXCEPT !.val[s.want] = Append(@, w)]

Value(s, w) == [s EXCEPT !.val[s.want] = Append(@, w), !.want = "", !.bad = Refuses(s.want, w)]

\* A word that is no flag: a positional, nothing to `stack' and `locals', an
\* error to `attach', a place to `source' as long as it has no file.
Stray(c, s, w) ==
  CASE c \in {"bp", "eval", "goroutine"} -> [s EXCEPT !.pos = Append(@, w)]
    [] c \in {"stack", "locals"}         -> s
    [] c = "attach"                      -> [s EXCEPT !.bad = TRUE]
    [] c = "source" ->
         IF At(w) /\ Got(s, "--file") = <<>>
           THEN [s EXCEPT !.val["--file"] = Append(@, FileOf(w)),
                          !.val["--line"] = Append(@, LineOf(w))]
           ELSE [s EXCEPT !.bad = TRUE]

TakeArg(c, s, w) ==
  IF s.bad THEN s
  ELSE IF s.want # "" THEN Value(s, w)
  ELSE IF IsFlag(w, Valued[c]) THEN [s EXCEPT !.want = w[1]]
  ELSE IF IsFlag(w, Switches(c)) THEN [s EXCEPT !.on = @ \cup {w[1]}]
  ELSE Stray(c, s, w)

\* A last flag without its value is forgotten; to `source' it is a stray word.
Args(c, ws) ==
  LET s == LoopEnd(LAMBDA t, w : TakeArg(c, t, w), NoArgs, ws)
  IN  [s EXCEPT !.bad = @ \/ (c = "source" /\ s.want # "")]

----------------------------------------------------------------------------
(* Requests. *)

Usage == [ok |-> FALSE]

\* A bpAdd that takes the first word for a function whatever it looks like, and
\* one that skips a word it has no use for.
FaultyPlace(p, w) ==
  IF p.function = <<>> /\ p.file = <<>>
    THEN [p EXCEPT !.function = w]
    ELSE IF p.line = 0 /\ IsNumber(w) THEN [p EXCEPT !.line = Atoi(w)] ELSE [p EXCEPT !.bad = TRUE]
SkippingPlace(p, w) == IF p.function = <<>> /\ p.file = <<>> THEN [p EXCEPT !.function = w] ELSE p

\* bpAdd gives each positional its place: file and line, line, or function.
Place(p, w) ==
  IF p.bad THEN p
  ELSE IF p.file = <<>> /\ p.function = <<>> /\ At(w) /\ FileOf(w) # <<>>
    THEN [p EXCEPT !.file = FileOf(w), !.line = Atoi(LineOf(w))]
  ELSE IF p.line = 0 /\ p.file # <<>> /\ p.function = <<>> /\ IsNumber(w)
    THEN [p EXCEPT !.line = Atoi(w)]
  ELSE IF p.function = <<>> /\ p.file = <<>> THEN [p EXCEPT !.function = w]
  ELSE [p EXCEPT !.bad = TRUE]

\* What the flags alone say.
Unplaced(s) == [file |-> Got(s, "--file"), line |-> Atoi(Got(s, "--line")),
                function |-> Got(s, "--function"), bad |-> s.bad]
Placed(s)   == LoopEnd(Place, Unplaced(s), s.pos)

\* AddBreakpoint's location: a function, or else a file and a line.
Location(p) == [file     |-> IF p.function = <<>> THEN p.file ELSE <<>>,
                line     |-> IF p.function = <<>> THEN p.line ELSE 0,
                function |-> p.function]

BpRequest(s) ==
  LET p == Placed(s) IN
  IF p.bad \/ (p.function = <<>> /\ (p.file = <<>> \/ p.line = 0))
    THEN Usage
    ELSE [ok |-> TRUE, at |-> Location(p), name |-> Got(s, "--name"), cond |-> Got(s, "--cond"),
          hit |-> Got(s, "--hit-expr"), on |-> s.on]

\* strings.Join with a blank.
Join(ws) == LoopEnd(LAMBDA t, w : IF t = <<>> THEN w ELSE t \o <<"blank">> \o w, <<>>, ws)

\* Stack: no depth, or none above 0, is 20 frames.
Depth(d) == IF d <= 0 THEN 20 ELSE d

\* What the session's methods are called with; `bp' takes the words after `add'.
Request(c, ws) ==
  LET s      == Args(c, IF c = "bp" /\ ws # <<>> THEN Tail(ws) ELSE ws)
      N(f)   == Atoi(Got(s, f))
      noId   == c = "goroutine" /\ (s.pos = <<>> \/ ~IsNumber(s.pos[1]))
      noPort == c = "attach" /\ Got(s, "--port") = <<>>
      noExpr == c = "eval" /\ ws = <<>>
      noAdd  == c = "bp" /\ (ws = <<>> \/ ws[1][1] \notin SubAdd)
  IN  IF s.bad \/ noId \/ noPort \/ noExpr \/ noAdd THEN Usage
      ELSE CASE c = "bp"        -> BpRequest(s)
             [] c = "stack"     -> [ok |-> TRUE, depth |-> Depth(N("--depth"))]
             [] c = "locals"    -> [ok |-> TRUE, frame |-> N("--frame")]
             [] c = "eval"      -> [ok |-> TRUE, frame |-> N("--frame"), expr |-> Join(s.pos)]
             [] c = "goroutine" -> [ok |-> TRUE, id |-> Atoi(s.pos[1])]
             [] c = "source"    -> [ok |-> TRUE, file |-> Got(s, "--file"), line |-> N("--line")]
             [] c = "attach"    -> [ok |-> TRUE, val |-> s.val, on |-> s.on]

\* dispatch: the first word names the command. The flags of attach need no line.
Dispatch(ws) == CHOOSE c \in DOMAIN Alias : ws[1][1] \in Alias[c]

\* The request a line has come to.
Understood ==
  LET ws == Fields(scan)
  IN  IF said.cmd = "attach" THEN Request("attach", ws) ELSE Request(Dispatch(ws), Tail(ws))

----------------------------------------------------------------------------
(* The user: how the usage texts let a request be said. *)

W(rune) == <<rune>>

\* Values the user gives; a condition has blanks in it, a line several digits.
Sample(f) == CASE f = "--cond"                      -> <<"x", "blank", "1">>
               [] f \in {"--port", "--timeout"}     -> <<"1", "4">>
               [] f = "--resume-after"              -> W("0")
               [] OTHER                             -> W("v")

LineNo         == {W("2"), <<"1", "3">>}
FileLine(f, n) == f \o W(":") \o n

\* Groups of words that stay together, in any order.
With(f, v)        == <<W(f), v>>
Group(c, f)       == IF f \in Switches(c) THEN <<W(f)>> ELSE With(f, Sample(f))
Script            == <<W("c1"), W("c2")>>
OptionSets(flags) == {S \in SUBSET flags : Cardinality(S) <= MaxOptions}

\* "--file PATH --line N | --function NAME" and the positional forms of bpAdd.
Places ==
  {[at |-> [file |-> W("f"), line |-> Atoi(n), function |-> <<>>],
    groups |-> CASE form = "flags"  -> {With("--file", W("f")), With("--line", n)}
                 [] form = "mixed"  -> {With("--file", W("f")), <<n>>}
                 [] form = "joined" -> {<<FileLine(W("f"), n)>>}] :
     n \in LineNo, form \in {"flags", "mixed", "joined"}}
  \cup
  {[at |-> [file |-> <<>>, line |-> 0, function |-> W("g")], groups |-> {g}] :
     g \in {With("--function", W("g")), <<W("g")>>}}

BpOptions == Switches("bp") \cup {"--name", "--cond", "--hit-expr"}

BpMeaning(p, S) ==
  LET v(f) == IF f \in S THEN Sample(f) ELSE <<>>
  IN  [means  |-> [ok |-> TRUE, at |-> p.at, name |-> v("--name"), cond |-> v("--cond"),
                   hit |-> v("--hit-expr"), on |-> S \cap Switches("bp")],
       groups |-> p.groups \cup {Group("bp", f) : f \in S}]

BpMeant == {BpMeaning(p, S) : p \in Places, S \in OptionSets(BpOptions)}

AttachOptions == (Switches("attach") \cup Valued["attach"]) \ {"--port", "--exec"}

AttachMeaning(S, n) ==
  LET flags == S \cup {"--port"}
  IN  [means  |-> [ok  |-> TRUE, on |-> S \cap Switches("attach"),
                   val |-> [f \in Flag |-> IF f = "--exec" THEN SubSeq(Script, 1, n)
                                          ELSE IF f \in flags THEN <<Sample(f)>> ELSE <<>>]],
       groups |-> {Group("attach", f) : f \in flags} \cup {With("--exec", Script[i]) : i \in 1..n}]

AttachMeant == {AttachMeaning(S, n) : S \in OptionSets(AttachOptions), n \in 0..2}

\* stack, locals, eval, goroutine and source; --frame anywhere in an expression.
Expressions == {<<W("x")>>, <<W("x"), W("+"), W("1")>>, << <<"x", "blank", "+", "blank", "1">> >>}

Query(c, means, groups) == [cmd |-> c, means |-> means, groups |-> groups]

FrameTwo == With("--frame", W("2"))

StackMeant ==
  {Query("stack", [ok |-> TRUE, depth |-> 20], gs) : gs \in {{}, {With("--depth", W("0"))}}}
  \cup {Query("stack", [ok |-> TRUE, depth |-> 2], {With("--depth", W("2"))})}

LocalsMeant == {Query("locals", [ok |-> TRUE, frame |-> 0], {}),
                Query("locals", [ok |-> TRUE, frame |-> 2], {FrameTwo})}

EvalMeant ==
  {Query("eval", [ok |-> TRUE, frame |-> 0, expr |-> Join(e)], {e}) : e \in Expressions}
  \cup UNION {{Query("eval", [ok |-> TRUE, frame |-> 2, expr |-> Join(e)],
                   {SubSeq(e, 1, i) \o FrameTwo \o SubSeq(e, i + 1, Len(e))}) :
                i \in 0..Len(e)} : e \in Expressions}

GoroutineMeant == {Query("goroutine", [ok |-> TRUE, id |-> Atoi(n)], {<<n>>}) :
                     n \in {W("1"), W("2")}}

SourceMeant ==
  {Query("source", [ok |-> TRUE, file |-> <<>>, line |-> 0], {})}
  \cup {Query("source", [ok |-> TRUE, file |-> W("f"), line |-> Atoi(n)],
              {With("--file", W("f")), With("--line", n)}) : n \in LineNo}
  \cup {Query("source", [ok |-> TRUE, file |-> W("f"), line |-> Atoi(n)],
              {<<FileLine(W("f"), n)>>}) : n \in LineNo}

QueriesMeant == StackMeant \cup LocalsMeant \cup EvalMeant \cup GoroutineMeant \cup SourceMeant

\* Words for `bp add' that need not make sense.
Loose == {W(f) : f \in {"--file", "--line", "--function", "--once", "f", "0", "3"}}
         \cup {FileLine(W("f"), n) : n \in {W("0"), W("3")}}

\* next: the words that come next; left: the groups that have yet to be said.
Saying(c, means, next, left) == [cmd |-> c, means |-> means, next |-> next, left |-> left]

\* The prompt: no line is being read.
Silent  == said.cmd = "none"
Silence ==
  /\ said' = Saying("none", Usage, <<>>, {})
  /\ words' = <<>> /\ rest' = <<>> /\ scan' = Start

\* Any words; a `bp add', meant or not; the flags of attach.
Said ==
  /\ \/ said = Saying("words", Usage, <<>>, {})
     \/ said = Saying("loose", Usage, <<W("bp"), W("add")>>, {})
     \/ \E m \in BpMeant, a \in Alias["bp"], add \in SubAdd :
          said = Saying("bp", m.means, <<W(a), W(add)>>, m.groups)
     \/ \E m \in AttachMeant : said = Saying("attach", m.means, <<>>, m.groups)
  /\ Init

\* A query, at the prompt.
Asked ==
  /\ \E m \in QueriesMeant : \E a \in Alias[m.cmd] :
       said' = Saying(m.cmd, m.means, <<W(a)>>, m.groups)
  /\ words' = <<>> /\ rest' = <<>> /\ scan' = Start

\* Any of the groups may be the next one, but the --exec commands have an order.
NextGroup ==
  /\ rest = <<>> /\ said.next = <<>>
  /\ \E g \in said.left :
       /\ g = With("--exec", Script[2]) => With("--exec", Script[1]) \notin said.left
       /\ said' = [said EXCEPT !.next = g, !.left = @ \ {g}]
  /\ UNCHANGED vars

\* A word of the process's argument list: no line is split.
Pass(w) ==
  /\ words' = Append(words, w)
  /\ scan' = [scan EXCEPT !.out = Append(@, w)]
  /\ UNCHANGED rest

SayWord ==
  \/ /\ said.next # <<>>
     /\ IF said.cmd = "attach" THEN Pass(Head(said.next)) ELSE Write(Head(said.next))
     /\ said' = [said EXCEPT !.next = Tail(@)]
  \/ said.cmd = "words" /\ AnyWord /\ UNCHANGED said
  \/ /\ said.cmd = "loose" /\ said.next = <<>> /\ Len(words) < MaxLoose + 2
     /\ \E w \in Loose : Write(w)
     /\ UNCHANGED said

argVars == <<said, vars>>

----------------------------------------------------------------------------
(* Properties. *)

\* All has been said and read.
LineRead == rest = <<>> /\ ~Silent /\ said.next = <<>> /\ said.left = {}
Arrives(commands) == LineRead /\ said.cmd \in commands => Understood = said.means

\* A breakpoint said in any of the ways of the usage text, its flags in any order
\* and its words in quotes or not, reaches the server as it was meant.
SpecArrives == Arrives({"bp"})

\* So do the flags of attach, whatever their order and whatever their number of
\* --exec commands.
OptionsArrive == Arrives({"attach"})

\* So do the queries: a --frame is found anywhere and leaves the expression whole.
QueryArrives == Arrives({"stack", "locals", "eval", "goroutine", "source"})

\* Whatever words `bp add' is given, none of its positional words is passed over
\* when it is accepted: each is the function, the line, or the file and the line
\* of the breakpoint. (A line 0 counts as none and may be overwritten.)
PositionalsPlaced ==
  LET s == Args("bp", SubSeq(Fields(scan), 3, Len(Fields(scan))))
      b == BpRequest(s)
      IsPlaced(w) == \/ b.at.function = w
                     \/ IsNumber(w) /\ Atoi(w) \in {b.at.line, 0}
                     \/ At(w) /\ b.at.file = FileOf(w) /\ Atoi(LineOf(w)) \in {b.at.line, 0}
  IN  LineRead /\ said.cmd = "loose" /\ b.ok => \A i \in DOMAIN s.pos : IsPlaced(s.pos[i])
=============================================================================
