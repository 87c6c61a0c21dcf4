# A formal model of agent-go-debugger

agent-go-debugger is a command-line client for a headless Delve server. A user
or an agent gives it commands (a script, then lines from a terminal or a fifo);
it sets breakpoints, runs and stops the target and reports what happened as
events. This directory holds TLA+ modules for the parts of the client in which
something can go wrong in time (who may run the target, whose stop answers
which command, who resumes a target nobody looks at), TLC configurations that
check them on small instances, and TLAPS proofs of all the safety properties
those runs check, for every value of the constants.

Paths in this file are relative to the repository (`src/`).

## 1. The system

| part | state it keeps | operations | modelled by |
|---|---|---|---|
| Delve server and target (not in the repository) | target running/stopped/exited, the connection, the command it executes, the breakpoint registry | execution commands, Halt, GetStateNonBlocking, Detach, Disconnect, breakpoint RPCs | `Delve`, top of `Breakpoints` (external) |
| Execution control, `internal/delvez/control.go` | `gen`, `stopCh`, `waitCh`, `cancel` | RunToStop, Interrupt, HaltNow, PollStop, cancelWait; background goroutines that `post` stops | `Control`, promise in `StopDelivery` |
| Session, `internal/delvez/session.go` | `exited` | Connect, Quit, Kill/Detach, Running, Exited | `Control` (Init, exited), `Console` (Quit, Kill) |
| Breakpoints, `internal/delvez/breakpoints.go`, `internal/console/commands.go` | `Runner.once` | bp add/remove/enable/disable/condition/clear, name resolution | `Breakpoints` |
| Inspection, `internal/delvez/inspect.go`, `internal/console/commands.go` | `Runner.goid` | stack, locals, args, eval, goroutines, goroutine N: one Interrupt each; the source window | `Inspection`; the Interrupt in `Control!Fn`, `Console!CmdInspect` |
| Console runner, `internal/console/runner.go` | `done`, `fail`, `guard`, position in script or loop | RunScript, loop, dispatch, presentStop, the stop-hold guard, Abort | `Console` |
| Signal handler, `internal/cli/cli.go` 193-205 | none | Abort, then Session.Quit | `Console` |
| Tokenizer, `splitArgs` in `runner.go` | scan state | one line to words | `CommandLine` |
| Dispatch, argument and flag parsing (`runner.go`, `commands.go`, `cli.go`) | the loops' variables | words to the arguments of the session's methods | `Arguments` |
| Rendering (`human.go`, `format.go`), launcher, scripts, tests | - | - | not modelled, see section 8 |

**How they interact.** Three goroutines may call into the execution control:
Main (script and loop), the guard's timer callback, and the goroutine
`Session.Quit` creates to resume a stopped target; the signal handler calls
`cancelWait` and a `Quit` of its own. Execution commands are RPCs that return
only when the target stops, so each runs on a background goroutine that posts
its stop on `stopCh`. The goroutines share `gen`, `stopCh`, `waitCh`, `cancel`
(under a lock), and `Runner.done`, `Runner.guard` (under none). The server
executes one command at a time; every RPC but GetStateNonBlocking and Halt
waits until the target is stopped.

**What is hard.** A stop and a halt race: the generation tells the stops an
interrupted execution produces late from those a command is waiting for, and is
right only if nothing starts, is taken up or posts at the wrong moment. A
timeout, a cancelled wait, a guard that expires, a SIGINT and a lost connection
may each come between any two steps. Breakpoint commands are sequences of RPCs
on a registry that other clients share. `PROJECT.json` lists each hazard at its
line, with the properties aimed at it.

**What makes each part correct.**
- Control: a command is answered by the stop of its own execution, at most once;
  what a halt cut short stays silent; a wait that is owed a stop gets it; an
  exit is noted truthfully and in time.
- Console: `done` and the exit code tell the truth about the target; the guard
  resumes a stop nobody attends to, and is never armed while the loop carries out
  a command. (A callback that has already started when the line arrives is not
  stopped, and continues the target beneath the command: hazard `runner.go` 97.)
- Breakpoints: only what was added with `--once` is removed by itself, once; a
  name stands for the breakpoint the user means; a reported success is one.
- Command lines: every word a user can quote arrives, and what the usage texts
  say arrives as it is meant, in any order and form they allow; nothing that is
  accepted was passed over.
- Inspection: a query is about the goroutine the user means.

## 2. Modules

Each module's state and actions follow the code: one action per lock section,
channel operation, RPC or handler step, named after its function.

- **`Delve`** - the environment: `target`, `conn`, and `run`, one record per
  background execution from its goroutine's creation to the fate of its stop.
  `Accept` (the server takes a command up; it waits while another one executes),
  `Finish`, `LoseConnection`, `HaltTarget`; `OtherClient` stops a target that runs
  for nobody here and, with `Shared`, also starts one and halts ours.
- **`StopDelivery`** - the abstract specification of the control: at most one
  execution is current, it is started, abandoned or its stop delivered, once.
- **`Control`** - `control.go`. `pc[c]`/`call[c]` are caller `c`'s place and
  locals in RunToStop, Interrupt, HaltNow or PollStop. `halt()` is `RaiseGen`,
  `ProbeRunning`, `HaltRPC`; `startRun` is `CheckRunning`, `Spawn`; `waitStop`
  is `Arm` and then a choice of `Receive`, `TimerFires`, `WakeUp`; `post` is
  `PostCheck`, `PostSend` and, on a full channel, `PostClear` (receive one) and
  `PostRetry` (send again, or give up). `Delivery` is the refinement mapping to `StopDelivery`.
- **`Console`** - `runner.go`, Quit and Kill of `session.go`, the handler of
  `cli.go`, over `Control` (EXTENDS). `phase` and `work` are Main's place,
  `guard`/`fired` the timer and its callback, `handler` and `quit` the signal
  handler and the two possible Quits. `Present` is presentStop, `Leave` the end
  of the process, which ends every goroutine with it.
- **`Breakpoints`** - `breakpoints.go` and the bp commands. An Interrupt is the
  sequence of its RPCs (`cmd.at = "then"` is between two of them); the registry
  is the server's and survives the session (`NextSession`).
- **`CommandLine`** - `splitArgs`, rune by rune, reading a line some user wrote
  for a list of words. The words and the way each is written are chosen when the
  scan gets there (`Write`, `AnyWord`): splitArgs does not look ahead, so this is
  every line that could have been written at once, and every prefix of one.
- **`Loops`** - a `for ... range` over a sequence, as a recursive function: the
  loop's variables before the first element and after each. The parsers, Atoi,
  bpAdd's places, strings.Join and the splitting of a file are such loops.
- **`Arguments`** - `dispatch` and the parsers of the commands and of `attach`,
  over `CommandLine` (EXTENDS). The code's loops over its arguments have one
  shape, `TakeArg`, with a table of the flags of each command and a case for what
  each does with any other word (`Stray`); `Place` gives bpAdd's positional words
  their places; `Request` is what the session's method is called with. The other
  half is the user, written from the usage texts: a meant request (`Said`,
  `Asked`), said group by group in any order (`NextGroup`) and word by word, each
  word quoted or not (`SayWord`). The words of `attach` are arguments of the
  process and go to the parser as they are.
- **`Inspection`** - curGoid, `goroutine N`, the queries and `source`, over
  `Arguments`: a line is read rune by rune, parsed and carried out, and the
  target moves at the prompt and between curGoid and the RPC. `InspectionSpec` is
  the one specification of lines, requests and queries.
- **`MCControl`, `MCConsole`, `MCBreakpoints`, `MCInspection`** - add the symmetry
  sets and the example files for TLC.
- **`ControlProofs`, `DeliveryProofs`, `ConsoleProofs`, `BreakpointsProofs`,
  `CommandLineProofs`, `LoopProofs`, `ArgumentsProofs`, `InspectionProofs`** - the
  lemmas and theorems, each about the module it is named after (`DeliveryProofs`
  about the refinement of `StopDelivery`).

Operators named `Faulty...`, `Late...`, `Hasty...`, `Shadowed...`, `Skipping...`,
`Sticking...`, `PlaceFound` and `DetachMode` are plausible mistakes in the operator
that follows; each property is known to
fail when the mistake replaces it (`mutants` in `PROJECT.json`). No
specification uses them.

**Abstractions.** next, step and stepOut are one command `"step"`. What an RPC
returns besides success is left out, as is all event text. Whether an execution command that failed comes
with an empty state is up to Delve's client library: `ClassifyStop` allows both,
since classifyStop looks at the error only if there is no state. The unlocked accesses to `done` and `guard` are
atomic steps in any order. The timer's callback is at most one at a time.
Delve's client library continues over tracepoints by itself on some commands;
the model follows the runner, which handles such stops, and any number of them.
A halt that finds no command executing leaves no pending stop behind. The
connection's end leaves the target as it is (`session.go` 159-161). In
`Breakpoints` an RPC that fails has no effect, the server refuses a taken name,
a number as a name, and never reuses an id. In `Arguments` a rune stands for a
run of characters (a flag, a digit, a separator, a piece of text), so that a word
is one to four runes long. In `Inspection` the target does not move while a line
is being read: reading touches nothing the target knows, so the steps commute.

## 3. Runs that pass

`CHECK_DEADLOCK FALSE` everywhere but in `commands`: a target
may stop for good, a user may stop typing and the process ends, so a state without
successors is legitimate. A command line, on the contrary, must always come to its
end and to the next prompt.

| run | instance | what it shows |
|---|---|---|
| `control_safe` | 1 caller, 3 executions, channel of 2, 2 halts, another client | `TypeOK`, `ReaderInv` (the inductive invariant), `InterruptedNeverReported`, `OneLiveExecution`, `TimedOutIsSettled` (a wait that has timed out leaves nothing behind that could answer the next), `ExitNoteTruthful`, `ReportedOnce`, `AnswersWithOwnStop`, and `DeliversCurrent`: Control implements StopDelivery |
| `control_live` | 1 caller, 2 executions, 2 halts, another client, fair | `TimedRunReturns`: a wait with a timeout ends; `OwnStopAnswers`: a stop the server produced for a waiting caller is not lost on its way |
| `console_safe` | held session, guard on, no timeout; 3 executions, channel of 1, 2 halts | two readers (loop and guard) never get the same stop; `DoneTruthful`; `GuardQuietDuringCommand`; `CommandsEndWithOwnStop` until the guard has continued the target |
| `console_signal` | script without --hold, timeouts, guard, SIGINT; 2 executions | `ExitZeroMeansReleased`: exit code 0 means the target was released or is gone, with two Quits racing |
| `console_live` | held session with timeouts and guard, fair; 2 executions | `GuardReleases`: a stop the loop holds and nobody attends to is resumed |
| `breakpoints` | 2 names, 2 ids, 1 condition, another client | `OnlyOnceRemoved`, `OnceShownOnce`, `RemovesReferred` whatever the other client does; `EnabledAsAsked`, `ConditionOnly`, `RemovalsComplete` for a command during which it leaves the registry alone |
| `commands` | lines of up to 2 words of up to 3 runes (2 letters, blank, both quotes); every `bp add` and `attach` with up to 3 options in any order; `bp add` with up to 4 arbitrary words; every query in up to 4 ways of quoting; 2 goroutines; files of up to 10 lines | `WordsArrive`: the words come back, whatever quotes they needed; `SpecArrives`, `OptionsArrive`, `QueryArrives`: what is meant arrives; `PositionalsPlaced`: no word of an accepted `bp add` is passed over; `AsksAsTold`: a query asks about the goroutine chosen last, or stopped at; `WindowAround`: `source` shows the lines from two before to six after, each with its number and text |

**Bounds.** `RunId` bounds the background executions, `MaxGen` the halts (no
operation starts at the bound, one under way may pass it), `Cap` is 2 instead of
8, and 1 in `console_safe`. The scheme has three roles for an execution: a stale one, the one waited for,
and one that starts beside them; three executions give each role a player, and
with `Cap` 2 three posts overflow the channel; with `Cap` 1 one of them
clears the slot, another takes it, and the first is refused after all. Two halts make an execution stale
and start the next; an operation under way may add a third, that of a timeout.
`Budget` lets a call start only when an execution is left for every busy caller,
so that no operation gets stuck for want of a name. `Shared` is on for the runs of
`Control` and off for those of `Console`, whose properties are about this
session. Two ids are enough for a name to be removed and given again between two
RPCs. Three options and the place (or --port and two --exec) let any flag come
before, between and after any other; each parser looks at one word and the state
its predecessors left, and so many options reach every such state. The queries
need no bound: the usage texts have few, and all of them are said. The window of
nine lines meets files shorter than it, ending in it and going on beyond it,
from the lines 2 and 13 (and 0 to 10 line files with and without a last
newline). Symmetry (executions, names) is used for safety only. The proofs of
section 5 need none of these bounds.

**Fairness.** Goroutines are scheduled (weak fairness of every step of an
operation that has started, of the posts, of the guard, the handler and Quit),
timers expire, and the server takes up a command it can execute. Nothing makes a
user type, a caller start an operation, or the target stop. In `Console` all of
it holds only while the process lives (`phase # "over"`), because Main's return
ends the other goroutines.

## 4. Runs that fail: where code and comments disagree

Each checks one sentence of the repository that the program does not keep.

| run | sentence | counterexample |
|---|---|---|
| `doc_interrupt_resumes` | `control.go` 245: Interrupt "resumes it if it was running" | fn fails, Interrupt returns before startRun: an unresolvable `eval` on a live service leaves it stopped, with no guard armed |
| `doc_never_frozen` | `README.md` 128: a stopped target "is auto-resumed" | a target that is already stopped when the session attaches (`session.go` 77, TLC's shortest route) or that stops without a presented stop (a hit queued while the loop waits for a line, one the guard's callback discarded, a failed Interrupt): no guard is armed |
| `doc_interrupt_running` | `cli.go` 193: on SIGINT "the target keeps running" | Main sees `done` and ends the process before the handler's Quit has resumed the target |
| `doc_abort_ends` | `runner.go` 61: on Abort "the loop exits and blocking waits return" | SIGINT between a continue's test of `cancel` and its wait: the wake-up finds no `waitCh`; the handler's Quit resumes the target, so that startRun starts nothing; its stop is dropped as stale and Main waits for ever |
| `doc_hits_emitted` | `README.md` 77: "A breakpoint hit emits a `stop` event" | the guard continues the target, which hits a breakpoint; the callback's RunToStop takes that stop, and the callback discards it: nothing is shown and no guard is armed |

The last section of each module states more sentences of this kind. TLC refutes
each of them under the constants named here; they are not kept as runs because
they are variations of the above or follow from reading one line.

| definition | constants of | why it fails |
|---|---|---|
| `DroppedWasInterrupted`, `DroppedExitNoted` | `control_safe` | halt raises the generation before it looks: a hit, or an exit, just before it is dropped as stale (`control.go` 92, 149), and the exit never noted |
| `EvictedWasStale` | `control_safe` | a post takes the oldest entry for stale (`control.go` 161); stragglers that passed the staleness test before a halt evict the stop that came after it |
| `TimeoutLeavesNoRun`, `FnOnStoppedTarget` | `control_safe` | halt looks once; a continue on its way is taken up afterwards (`control.go` 94) |
| `WaiterHasExecution` | `control_safe` | a continue of an older generation is taken up between halt and startRun; startRun does nothing and the wait has nobody to end it (`control.go` 108, against `control.go` 187) |
| `CancelEndsWait` | `control_live` | a cancelWait between RunToStop's test of `cancel` and waitStop's `waitCh` is lost (`control.go` 217, against `session.go` 219) |
| `SingleReader`, `PausedUntilCommand` | `console_live` | the guard's callback waits on the stop channel beside the loop (`runner.go` 102, against `control.go` 16); a continue on its way runs a target just presented as stopped |
| `QuitLeavesRunning`, `EofLeavesRunning` | `console_live` | Quit disconnects after 5 s or a new hit (`session.go` 179); the loop quits at the end of input only in mode "exec", which no session has (`runner.go` 180) |
| `InterruptSticks` | `doc_interrupt_running` | cmdQuit overwrites `done` (`runner.go` 350) |
| `TimeoutFails` | `console_live` | a timeout does not count as a failure (`runner.go` 213), although `runner.go` 46 and `README.md` 109 say so |
| `GuardSeesCommands` | `console_live` | script commands leave the guard armed (`runner.go` 129) |
| `AbortEndsLoop` | `doc_interrupt_running` with `FairConsoleSpec` and one execution | a loop blocked in Scan does not see an Abort (`runner.go` 165) |
| `TogglesWhatDiffers`, `ConditionKeepsRest` | `breakpoints` | read and write are two RPCs, the other client comes between (`breakpoints.go` 160, 176) |
| `TraceNeverPresented` | `breakpoints` | a tracepoint's hit that the loop polls is presented as a stop (`runner.go` 202) |
| `StackOfCurrent` | `commands` | after a `goroutine 1`, a `stack` at a stop of goroutine 2 asks about 1 (`runner.go` 463), while `SKILL.md` 55 speaks of the "current goroutine" and the goroutine list marks 2 as current |
| `EmptyWordCounts` | `commands` with `Empty = TRUE` | an empty quoted word is dropped (`runner.go` 498), so `bp condition REF ''` cannot clear a condition |

## 5. Theorems

Run `tlapm M.tla` for each `M` that ends in `Proofs`. Constants are arbitrary: any
callers, executions, breakpoints, names, goroutines, runes and files, finite or
not, any capacity of at least 1, any number of halts, words, flags and sessions,
every combination of the console's options. What is assumed of them is what the ASSUMEs
of the modules name: the reserved values (`NoRun`, `NoName`, `NoCaller`, ...) are
no members of the sets beside which they stand, a breakpoint's name is no
number, which the server refuses, goroutines and lines are counted from 1, and a
file holds text and newlines. A theorem that needs more says so in its statement.

**Execution control** (`ControlProofs`, `DeliveryProofs`).

For any number of concurrent callers:
- `TypeCorrect`: Spec => []TypeOK.
- `CallsWellFormed`: a generation is never of the future, operations are where
  their code leads. (What is relied on of the server, that it executes one command
  at a time and tells the truth about exits, follows from the model of the server
  alone: the lemma `ServerSafe`, which says nothing of the client.)
- `DeliveredOnce`: Spec => []ReportedOnce. Inductive together with TypeOK: the
  channel holds exactly the runs in state "queued", without repetition, so a
  receive takes a run nobody has. `PostShapes` reduces post to three shapes (queue,
  wait or give up, clear a slot). The lemmas `HeadElem`, `TailElems` and
  `AppendElems` say what a receive, an eviction and a send do to the channel.
- `ExitTruthful`: Spec => []ExitNoteTruthful, from ServerInv.

For a single caller, the assumption `OneCaller` of `ControlProofs` (the
comment at `control.go` 16; section 4 says where the program departs from it):
- `ReaderSafe`: Spec => []ReaderInv. `OneLiveExecution` is not inductive: nothing
  in it says why no execution is live when the next one starts. ReaderInv adds
  that from `halt()` to the start of the next execution none is live, that a
  waiting RunToStop compares with the current generation and only its own
  execution is live, and that what a halt cut short is of an older generation
  and has gone no further than the staleness test.
- `TimeoutSettles`: Spec => []TimedOutIsSettled. A timed-out wait raises the
  generation before it returns, and an execution created before that is outdated
  wherever it has come to; the caller's next operation forgets the answer.
- `OneExecutionAtATime`, `InterruptedStaysSilent` follow; `AnswersAreOwn`
  (Spec => AnswersWithOwnStop) too, because a stop that is not stale is live.
- `ImplementsDelivery`: Spec => DeliversCurrent. The only extra invariant is
  `PollInv` (a polling reader compares with the current generation). Every step
  has one of four shapes, proved action by action: it leaves the mapped state
  alone, forgets the live execution, starts one, or delivers it.

**Console** (`ConsoleProofs`). The console adds three things to the control's own
steps: calls, the background execution a Quit starts outside any operation
(`StartsRun`), and a kill (`Kills`). `ConsoleSteps` proves that these are all, so
that the control's invariants need two more cases and no second proof of the rest.
- `ConsoleTypeCorrect`, `ConsoleReportsOnce`, `ConsoleExitTruthful`: ConsoleSpec
  => []ConsoleTypeOK, []ReportedOnce, []ExitNoteTruthful, with loop, guard and the
  Quits of Main and of the signal handler in the control at once.
- `EndsTruthfully`: ConsoleSpec => []DoneTruthful. presentStop believes an answer;
  the strengthening `AnswerTruthful` says that an answer which tells of an exit is
  about a target that is gone. An exit is final (`ServerInv`).
- `GuardIsQuiet`: ConsoleSpec => []GuardQuietDuringCommand.
- `ScriptReleases`: without `--hold`, ConsoleSpec => []ExitZeroMeansReleased. The
  strengthening `ScriptInv` says that a script which has left cmdQuit has a mode
  or has counted an error. With `--hold` the loop may leave at the end of input
  (`EofLeavesRunning`), so the theorem needs the option.
- `CommandsGetOwnStop`: without SIGINT, ConsoleSpec => CommandsEndWithOwnStop. This
  is `AnswersAreOwn` for a system that does not keep to one caller. `Placed` says
  who may be in the control while Main is where: the resumer of Main's Quit only
  while Main waits in it or the connection is gone, a guard that is a plain
  continue. `MainInv` is what is left of `ReaderInv` under it: from `halt()` to
  the next start nothing is live *but executions a lost connection ends*, since a
  connection lost between two steps of a Quit leaves its execution behind. With a
  SIGINT, the handler's Quit may start an execution in the middle of Main's own
  RunToStop; TLC then finds Main answered with the other one's stop, so the
  hypothesis is needed.

**Breakpoints** (`BreakpointsProofs`), with another client changing the registry
between any two RPCs, failing RPCs and any number of sessions.
- `BpTypeCorrect`, and `BpInvariant`, the inductive invariant: ids are given once
  and in order (`IdsGiven`); names are unique, and the copy of a breakpoint a
  command sends back bears the name it was read under (`NamesUnique`,
  `CopyBearsName`: an amend could otherwise bring a removed name back); what a
  command found for a reference bears that name or is gone (`MeansReferred`);
  a --once breakpoint is waiting, being removed, kept after a failure, or gone
  (`OncePending`); what a command read still holds if no other client intervened
  (`ReadStands`).
- `OnlyOnceIsRemoved`, `OnceIsShownOnce`, `RemoveMeansReferred`, `EnableAsAsked`,
  `ConditionIsOnly`, `RemovalIsComplete`: the six action properties of the run
  `breakpoints`, from that invariant.

**Induction and loops** (`LoopProofs`). The library's induction theorems take a
predicate, which none of the provers can instantiate. `LeastNatural` gets a least
element from well-foundedness; `InductionUpTo` and `SeqInduction` state induction
for a *set* instead of a predicate. `RunEnds` does the same for loops: if a
function on states and elements does what the body of the loop does, then the loop
over `Append(seq, e)` is the body applied to the loop over `seq` and `e`, and its
states are of the set that the function stays in. Each loop of the parsers gets
its two facts (its type and its step: `ArgsRun`, `MagnitudeRun`, `PlaceRun`,
`PiecesRun`) from it.

**Command lines** (`CommandLineProofs`).
- `WordsComeBack`: if no word is empty (`EmptyWordCounts` of section 4 is why),
  Spec => []WordsArrive, for words of any length in any number. The induction is
  along the scan: by the invariant `LineInv` all words but the last have been
  found, and the scan is before the last one (`Ahead`) or within it (`Within`),
  where what has been read and what is left make up the word and the open quotes
  are those that the line still closes. `MoveOn` and `FrontOfLine` are what one
  rune does to a sequence.

**Arguments** (`ArgumentsProofs`), with the target moving at the prompt and within
the queries, for any number of lines.
- `ConsoleWordsArrive`: if no word is empty, InspectionSpec => []WordsArrive. The
  invariant `SaidInv` says that what is still to be said are words (no flag, name
  or value is empty or falls apart), that the line so far reads right
  (`LineInv`, for all that is said, arbitrary words apart), and that its first
  word names its command.
- `NoPositionalLost`: InspectionSpec => []PositionalsPlaced, for any number of
  words. By induction over the positional words (`AllPut`), each that has been
  given a place keeps it (`PlaceKeeps`): a file or a function is set once, and so
  is, once there is a file, a line other than 0.
- `SpecsArrive`, `OptionsAllArrive`: InspectionSpec => []SpecArrives and
  []OptionsArrive, for any number of options. Both are one argument about orders.
  Let F be what the loop should come to in the end. With the groups `left` still
  to be said, the loop stands at `Less(F, left)`: F without the values, switches
  and positional words of those groups, whatever order the others came in. The
  invariant `ToArrive` says that some F leads to what is meant (`Means`), that it
  collects just the groups the user says (`Collects`), and that the words of the
  group under way take the loop to `Less(F, left)` (`Brings`). `GroupSaid` is its
  step: a switch, a flag with its value, a positional word, or an --exec, which
  appends to what the --exec before it left and therefore needs the order
  (`InOrder`). `BpCollects`, `PlaceGiven` and `AttachCollects` find F for each
  meant request; at the end nothing is left and `Less(F, {}) = F`.
- `QueriesArrive`: InspectionSpec => []QueryArrives. A query has at most two
  groups, but its words are an expression in which `--frame` may stand anywhere:
  `EvalComes` proves for every expression, of any words that are no flags and of
  any length, that it arrives whole. The invariant `QueryCourse` says that the
  words said, those of the group under way and the groups that are left make up,
  in any order, the words of the request that is meant (`Comes`).

**Inspection** (`InspectionProofs`).
- `QueriesAskAsTold`: InspectionSpec => []AsksAsTold. The runner's `goid` and the
  server's selection never disagree about a choice the target has not run since
  (`ChoiceStands`), and what curGoid returned to a query under way is that choice
  or, if nothing moved, the goroutine stopped at (`LookupStands`).
- `WindowShown`: InspectionSpec => []WindowAround, for every file and every line,
  0, negative and past the end included. By induction over the file
  (`PiecesAreLines`, with the step `LinesGrow`), the pieces the splitting loop has
  come to are the lines of what it has read: `LinesOf` counts the newlines above
  each character. The invariant `ShowsSource` carries the file and the line from
  the command to what is shown.

Each property was checked by TLC first and is still checked by a run; the
inductive invariants of the control (`ReaderInv` in `control_safe`), of the
breakpoints (`breakpoints`) and of the console (`OwnStopInv`, with the constants of
`console_safe` and without `--hold`) were, too, and so were `QueryCourse` and what
TLC can evaluate of `SaidInv`, with those of `commands` and 2 options. `LineInv`,
`ToArrive` and `ShowsSource` quantify over infinite sets and are proved only.

Only model-checked are the liveness properties `TimedRunReturns`,
`OwnStopAnswers` and `GuardReleases`: fairness and ENABLED are out of the prover's
reach.

## 6. Reading a property against the code

- `AnswersWithOwnStop` speaks of the step in which RunToStop returns a stop.
  With a single reader the stop is never another's; with the guard's callback as
  a second reader it can be (section 4), which is why the console's version,
  `CommandsEndWithOwnStop`, holds until the guard has continued the target.
  What a lost connection makes up (`"lost"`) is excluded there: it ends a wait
  whoever it belongs to, as an error or, if it comes with an empty state, as a halt.
- `OwnStopAnswers` needs fewer than `Cap` posts at once; beyond, a channel may
  evict the stop a caller waits for, or refuse it. With one caller and two executions it
  cannot, with eight stragglers in the code it could.
- `ExitZeroMeansReleased` is about scripts without `--hold`.
- `AbortEndsWork` excepts a loop that waits for a line, which `AbortEndsLoop` is
  about.
- `TimedOutIsSettled` does not say that the target stands still after a timeout:
  a continue on its way may still be taken up (section 4), but its stop will be
  out of date.
- `QueryArrives` lets the user quote an expression with quotes or two blanks in
  it as a whole; said otherwise, the tokenizer drops the quotes and `eval` joins
  the words by single blanks (`commands.go` 266).
- `PositionalsPlaced` lets a line 0 be overwritten: bpAdd takes 0 for "no line
  yet" (`commands.go` 111). A flag's own line is not a positional word and may be
  overwritten by `file:line`, or ignored beside a function.
- `AsksAsTold` makes an exception of a target that moves between curGoid and the
  RPC, and `StackOfCurrent` (section 4) of one that runs: there it is not said which goroutine
  would be right.

## 7. Plan

Done: `Delve`, `StopDelivery`, `Control`, `Console`, `Breakpoints`,
`CommandLine`, `Loops`, `Arguments`, `Inspection`, and theorems about all of them.
What could follow:

1. Composition of `Breakpoints` with `Console`: which of the hits of a --once
   breakpoint reaches presentStop when the guard reads beside the loop.
2. `CommandsGetOwnStop` after the guard has called: what can still be said of a
   second reader, given that its answer is discarded.
3. `bp condition` and the other subcommands of `bp` in `Arguments`: the rest of a
   line that is joined to one argument again.

## 8. Not modelled

- Rendering and projections (`human.go`, `format.go`, the views of `inspect.go`):
  one field to one piece of text each, no state, no control flow another part
  depends on.
- The commands of the entry point that only print (`help`, `version`), and a
  `--in` file that cannot be opened. Floating point in `parseSeconds`: its values
  are whole numbers here, and its overflow is a hazard without a property.
- The subcommands of `bp` other than `add` in `Arguments`: they take a reference,
  and `condition` the rest of the line; what they do with it is in `Breakpoints`.
- The npm launcher, build and publish scripts, the sample service.
- Delve itself beyond what the client relies on.
