----------------------------- MODULE Inspection -----------------------------
(***************************************************************************)
(* Inspection of a stop: which goroutine `stack', `locals', `args' and     *)
(* `eval' ask about (internal/console/runner.go and commands.go over       *)
(* internal/delvez/inspect.go), and the lines `source' shows.              *)
(*                                                                         *)
(* A command line is read (module Arguments) and carried out. Reading      *)
(* touches nothing the target knows, so the target moves only at the       *)
(* prompt and within a query: it runs on a continue of Main or of the      *)
(* stop-hold guard, and stops at some goroutine.                           *)
(***************************************************************************)
EXTENDS Arguments

CONSTANTS
  Goroutine,   \* ids of the target's goroutines
  StopLine,    \* lines the target may stop at
  Contents     \* what a source file may hold: sequences of "text" and "newline"

ASSUME InspectionAssumption == Goroutine \subseteq Nat \ {0} /\ StopLine \subseteq Nat \ {0}
ASSUME ContentsAssumption == Contents \subseteq Seq({"text", "newline"})

VARIABLES
  sel,      \* the goroutine the target has stopped at (the server's selected one), 0 while it runs
  goid,     \* Runner.goid, 0 when goidSet is false
  who,      \* what curGoid has returned to the query being carried out
  asked,    \* the goroutine the query asked about, and the selected one at that moment
  shown,    \* the file, the line and the lines of a source command
  chosen,   \* history: the last goroutine chosen, 0 when the target has run since
  steady    \* history: the target has not moved since curGoid

target == <<sel, goid, chosen>>
query  == <<who, asked, shown, steady>>
allVars == <<argVars, target, query>>

NotRead  == -1
NotAsked == [goroutine |-> 0, stop |-> 0]
NotShown == [data |-> <<>>, line |-> 0, lines |-> <<>>]

\* The prompt again, the command done with.
Prompt == Silence /\ who' = NotRead /\ asked' = NotAsked /\ shown' = NotShown /\ steady' = TRUE

Answered == asked # NotAsked \/ shown # NotShown

\* The command whose line has been read.
Carries(commands) == LineRead /\ ~Answered /\ said.cmd \in commands

----------------------------------------------------------------------------
(* The goroutine asked about. *)

CurGoid == IF goid # 0 THEN goid ELSE sel

\* Frames, variables and values of the remembered or else the current goroutine,
\* which is looked up before the target is quiesced.
ReadGoid ==
  /\ Carries({"stack", "locals", "eval"}) /\ who = NotRead
  /\ who' = CurGoid
  /\ UNCHANGED <<argVars, target, asked, shown, steady>>

\* The RPC inside Interrupt: a running target stops for it at any goroutine and
\* is resumed; id 0 means the current one. The server may refuse.
Ask ==
  /\ who # NotRead /\ ~Answered
  /\ \/ /\ \E s \in IF sel = 0 THEN Goroutine ELSE {sel} :
             asked' = [goroutine |-> IF who = 0 THEN s ELSE who, stop |-> s]
        /\ UNCHANGED <<argVars, target, who, shown, steady>>
     \/ Prompt /\ UNCHANGED target

\* A cmdGoroutine that remembers the id before it knows that the server took it.
FaultyAfterRefusal(id) == id

AfterRefusal(id) == goid

\* cmdGoroutine: the server selects the goroutine; the runner remembers it for good.
Switch ==
  /\ Carries({"goroutine"})
  /\ LET n == Understood.id IN
       \/ /\ n \in Goroutine
          /\ goid' = n
          /\ sel' = IF sel = 0 THEN 0 ELSE n
          /\ chosen' = sel'
       \/ goid' = AfterRefusal(n) /\ UNCHANGED <<sel, chosen>>
  /\ Prompt

TargetMoves ==
  /\ Silent \/ (who # NotRead /\ ~Answered)
  /\ \/ sel # 0 /\ sel' = 0
     \/ sel = 0 /\ sel' \in Goroutine
  /\ chosen' = 0
  /\ steady' = (who = NotRead)
  /\ UNCHANGED <<argVars, goid, who, asked, shown>>

----------------------------------------------------------------------------
(* The lines shown. *)

\* readAllLines: split at the newlines, less an empty last piece.
Pieces(data) ==
  LET Add(ls, ch) == IF ch = "newline" THEN Append(ls, <<>>)
                     ELSE Append(Front(ls), Append(Last(ls), ch))
  IN  LoopEnd(Add, << <<>> >>, data)

ReadAllLines(data) == IF Last(Pieces(data)) = <<>> THEN Front(Pieces(data)) ELSE Pieces(data)

Before == 2
After  == 6

\* A window that starts at the line itself when the file is too short above it.
FaultyFirstLine(line) == IF line - Before < 1 THEN line ELSE line - Before

FirstLine(line) == IF line - Before < 1 THEN 1 ELSE line - Before

\* SourceLines.
SourceLines(data, line) ==
  LET lines == ReadAllLines(data)
      lo    == FirstLine(line)
      hi    == IF line + After > Len(lines) THEN Len(lines) ELSE line + After
  IN  [k \in 1..(hi - lo + 1) |-> [n |-> lo + k - 1, text |-> lines[lo + k - 1],
                                   current |-> lo + k - 1 = line]]

\* cmdSource: without a file or a line, the location of the stop, if there is one.
Source ==
  /\ Carries({"source"})
  /\ LET r     == Understood
         here  == r.file = <<>> \/ r.line = 0
     IN  \E data \in Contents, line \in {IF here THEN n ELSE r.line : n \in StopLine} :
           /\ r.ok
           /\ ~here \/ sel # 0
           /\ shown' = [data |-> data, line |-> line, lines |-> SourceLines(data, line)]
  /\ UNCHANGED <<argVars, target, who, asked, steady>>

----------------------------------------------------------------------------

\* Lines that ask nothing of a stop, answered queries, and `source' with nothing
\* to show: no location, or no file that can be read.
EndCommand ==
  /\ LineRead
  /\ Answered \/ said.cmd \in {"words", "loose", "bp", "attach", "source"}
  /\ Prompt
  /\ UNCHANGED target

NextLine == Silent /\ Asked /\ UNCHANGED <<target, query>>

\* The user goes on with the line.
UserSays == (NextGroup \/ SayWord) /\ UNCHANGED <<target, query>>

ReadRune == Read /\ UNCHANGED <<said, target, query>>

InspectionInit ==
  /\ Said
  /\ sel = 0 /\ goid = 0 /\ chosen = 0
  /\ who = NotRead /\ asked = NotAsked /\ shown = NotShown /\ steady = TRUE

InspectionNext ==
  \/ NextLine \/ UserSays \/ ReadRune
  \/ ReadGoid \/ Ask \/ Switch \/ TargetMoves \/ Source
  \/ EndCommand

InspectionSpec == InspectionInit /\ [][InspectionNext]_allVars
----------------------------------------------------------------------------
(* Properties. *)

\* A query asks about the goroutine that was chosen last until the target runs,
\* and about the one the target has stopped at if none was ever chosen and the
\* target did not move under the query: a refused choice is forgotten at once.
AsksAsTold ==
  asked # NotAsked =>
    /\ chosen # 0 => asked.goroutine = chosen
    /\ goid = 0 /\ steady => asked.goroutine = asked.stop

\* The lines of the file from two before the line to six after it are shown, each
\* under its number and with its text, though the file may end earlier and its
\* last line may lack a newline.
WindowAround ==
  shown # NotShown =>
    LET data       == shown.data
        Above(i)   == Cardinality({j \in 1..i-1 : data[j] = "newline"})
        Text(n)    == {i \in DOMAIN data : data[i] # "newline" /\ Above(i) = n - 1}
        Present(n) == \E i \in DOMAIN data : Above(i) = n - 1
    IN  /\ {shown.lines[k].n : k \in DOMAIN shown.lines}
             = {n \in shown.line - 2..shown.line + 6 : n >= 1 /\ Present(n)}
        /\ \A k \in DOMAIN shown.lines :
             /\ k > 1 => shown.lines[k].n = shown.lines[k-1].n + 1
             /\ Len(shown.lines[k].text) = Cardinality(Text(shown.lines[k].n))
             /\ shown.lines[k].current <=> shown.lines[k].n = shown.line

----------------------------------------------------------------------------
(* What documents say and the code does not do. *)

\* SKILL.md: "stack # frames of the current goroutine": the goroutine that the
\* list of goroutines marks as current.
StackOfCurrent == asked # NotAsked /\ steady /\ sel # 0 => asked.goroutine = asked.stop
=============================================================================
