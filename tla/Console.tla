------------------------------ MODULE Console ------------------------------
(***************************************************************************)
(* One run of the command-line client (internal/console/runner.go, with    *)
(* Session.Quit and Session.Kill of session.go and the signal handler of   *)
(* cli.go), over the execution control of module Control.                  *)
(*                                                                         *)
(* Goroutines: Main runs the script, then the command loop; Guard is the   *)
(* stop-hold timer's callback; the handler reacts to SIGINT; a resumer is  *)
(* the `go startRun()' of a Quit. All four end when Main returns, because  *)
(* the process does.                                                       *)
(***************************************************************************)
EXTENDS Control

CONSTANTS
  Main, Guard,                  \* callers of the control
  MainResumer, SignalResumer,   \* callers of startRun alone
  Hold,         \* --hold
  Timed,        \* --timeout is not 0
  ResumeAfter,  \* --resume-after is not 0
  Signal        \* whether a SIGINT may arrive

ASSUME ConsoleAssumption ==
  /\ {Main, Guard, MainResumer, SignalResumer} \subseteq Caller
  /\ Main # Guard
  /\ {MainResumer, SignalResumer} \cap {Main, Guard} = {}
  /\ Signal => MainResumer # SignalResumer
  /\ {Hold, Timed, ResumeAfter, Signal} \subseteq BOOLEAN

VARIABLES
  phase,    \* where Main is: the script or its end, the loop's poll or scan, or gone
  work,     \* the command Main executes, "none" between commands
  done,     \* Runner.done
  fail,     \* Runner.fail > 0
  guard,    \* Runner.guard: "off" is nil, "expired" has fired but is not nil
  fired,    \* the guard's callback
  handler,  \* the signal handler
  quit      \* quit[q]: where goroutine q is in Session.Quit

consoleVars == <<phase, work, done, fail, guard, fired, handler, quit>>
allVars == <<vars, consoleVars>>

Quitter == {"main", "handler"}
ResumerOf(q) == IF q = "main" THEN MainResumer ELSE SignalResumer

Phase     == {"script", "end", "poll", "scan", "over"}
Work      == {"none", "polling", "blocking", "halting", "resolving", "inspecting", "asking",
              "removing", "quitting", "killing", "detaching"}
Done      == {"", "disconnect", "kill", "exited", "interrupt"}
QuitState == {"no", "probe", "poll", "close", "closed", "failed"}

----------------------------------------------------------------------------
(* Main: one command at a time. *)

\* Main is about to run a command: the next of the script, or a line read.
AtPrompt ==
  /\ work = "none"
  /\ phase \in {"script", "scan"}
  /\ phase = "script" => done = ""

\* A loop that leaves the guard armed for a line, too.
FaultyGuardAtLine == guard

\* Only the loop disarms the guard for a line; a script command leaves it.
GuardAtLine == IF phase = "scan" THEN "off" ELSE guard

\* The command has been carried out.
Complete ==
  /\ work' = "none"
  /\ phase' = IF phase = "scan" THEN "poll" ELSE phase

\* An errorf that does not count.
FaultyFails(b) == UNCHANGED fail

Fails(b) == fail' = (fail \/ b)

\* Main has come back from the control with its answer.
Back(w) == work = w /\ pc[Main] = "idle"

\* cmdBlocking: continue, next, step, stepOut.
CmdBlocking(cmd) ==
  /\ AtPrompt
  /\ guard' = GuardAtLine
  /\ \/ /\ exited
        /\ Complete /\ Fails(TRUE)
        /\ UNCHANGED vars
     \/ /\ ~exited
        /\ RunToStop(Main, cmd, Timed)
        /\ work' = "blocking"
        /\ UNCHANGED <<phase, fail>>
  /\ UNCHANGED <<done, fired, handler, quit>>

\* cmdHalt.
CmdHalt ==
  /\ AtPrompt
  /\ guard' = GuardAtLine
  /\ \/ ~Running /\ Complete /\ UNCHANGED vars
     \/ /\ Running
        /\ HaltNow(Main)
        /\ work' = "halting"
        /\ UNCHANGED phase
  /\ UNCHANGED <<done, fail, fired, handler, quit>>

\* Commands whose RPC runs inside one Interrupt; those that name a breakpoint
\* resolve the name in an Interrupt of its own first.
CmdInspect ==
  /\ AtPrompt
  /\ guard' = GuardAtLine
  /\ Interrupt(Main)
  /\ work' \in {"resolving", "inspecting"}
  /\ UNCHANGED <<phase, done, fail, fired, handler, quit>>

\* status and trace: whatever their Interrupt answers is only shown.
CmdStatus ==
  /\ AtPrompt
  /\ guard' = GuardAtLine
  /\ Interrupt(Main)
  /\ work' = "asking"
  /\ UNCHANGED <<phase, done, fail, fired, handler, quit>>

\* help, usage errors, unknown commands: nothing reaches the control.
CmdLocal ==
  /\ AtPrompt
  /\ guard' = GuardAtLine
  /\ Complete
  /\ \E b \in BOOLEAN : Fails(b)
  /\ UNCHANGED <<vars, done, fired, handler, quit>>

\* cmdQuit, on command or at the end of a script that does not hold.
BeginQuit ==
  \/ done # "" /\ UNCHANGED <<work, done, quit>>
  \/ done = "" /\ exited /\ done' = "exited" /\ UNCHANGED <<work, quit>>
  \/ /\ done = "" /\ ~exited
     /\ quit' = [quit EXCEPT !["main"] = "probe"]
     /\ work' = "quitting"
     /\ UNCHANGED done

CmdQuit ==
  /\ AtPrompt
  /\ guard' = GuardAtLine
  /\ BeginQuit
  /\ phase' = IF phase = "scan" /\ work' = "none" THEN "poll" ELSE phase
  /\ UNCHANGED <<vars, fail, fired, handler>>

\* cmdKill: Detach(true) halts a running target first.
CmdKill ==
  /\ AtPrompt
  /\ guard' = GuardAtLine
  /\ \/ done # "" /\ Complete /\ UNCHANGED vars
     \/ done = "" /\ Running /\ HaltNow(Main) /\ work' = "killing" /\ UNCHANGED phase
     \/ done = "" /\ ~Running /\ work' = "detaching" /\ UNCHANGED <<vars, phase>>
  /\ UNCHANGED <<done, fail, fired, handler, quit>>

----------------------------------------------------------------------------
(* Main: what it does with the control's answer. *)

ArmGuard == guard' = IF ResumeAfter THEN "armed" ELSE "off"

\* A presentStop that takes a closed connection for an exit.
HastySaysGone(kind) == kind \in {"exited", "unknown"}

SaysGone(kind) == kind = "exited"

\* presentStop: every stop disarms the guard, a breakpoint or a step arms it
\* again, after removing a breakpoint added with --once.
Present(kind) ==
  \/ /\ SaysGone(kind)
     /\ done' = IF done = "" THEN "exited" ELSE done
     /\ guard' = "off"
     /\ Complete
     /\ UNCHANGED <<vars, fail>>
  \/ /\ kind \in {"timeout", "halted", "unknown"}
     /\ guard' = "off"
     /\ Fails(kind = "unknown")
     /\ Complete
     /\ UNCHANGED <<vars, done>>
  \/ /\ kind \in {"breakpoint", "step"}
     /\ ArmGuard
     /\ Complete
     /\ UNCHANGED <<vars, done, fail>>
  \/ /\ kind = "breakpoint"
     /\ guard' = "off"
     /\ Interrupt(Main)
     /\ work' = "removing"
     /\ UNCHANGED <<phase, done, fail>>

PresentStop ==
  /\ Back("blocking")
  /\ Present(answer[Main].kind)
  /\ UNCHANGED <<fired, handler, quit>>

\* A tracepoint's hit is not a stop: the command continues, or gives up without
\* a halt when its budget is spent.
TraceHit ==
  /\ Back("blocking")
  /\ answer[Main].kind = "breakpoint"
  /\ \/ RunToStop(Main, "continue", Timed) /\ UNCHANGED <<work, phase>>
     \/ Timed /\ Complete /\ UNCHANGED vars
  /\ UNCHANGED <<done, fail, guard, fired, handler, quit>>

\* The once breakpoint has been removed, or could not be.
OnceRemoved ==
  /\ Back("removing")
  /\ Fails(answer[Main].kind = "failed")
  /\ ArmGuard
  /\ Complete
  /\ UNCHANGED <<vars, done, fired, handler, quit>>

Halted ==
  /\ Back("halting")
  /\ Fails(answer[Main].kind = "failed")
  /\ Complete
  /\ UNCHANGED <<vars, done, guard, fired, handler, quit>>

Resolved ==
  /\ Back("resolving")
  /\ \/ answer[Main].kind = "failed" /\ Fails(TRUE) /\ Complete /\ UNCHANGED vars
     \/ /\ answer[Main].kind = "ok"
        /\ Interrupt(Main)
        /\ work' = "inspecting"
        /\ UNCHANGED <<fail, phase>>
  /\ UNCHANGED <<done, guard, fired, handler, quit>>

Inspected ==
  /\ Back("inspecting")
  /\ Fails(answer[Main].kind = "failed")
  /\ Complete
  /\ UNCHANGED <<vars, done, guard, fired, handler, quit>>

Asked ==
  /\ Back("asking")
  /\ Complete
  /\ UNCHANGED <<vars, done, fail, guard, fired, handler, quit>>

\* Detach(true) has halted the target; an exited one may be detached from.
HaltedForKill ==
  /\ Back("killing")
  /\ \/ answer[Main].kind = "failed" /\ target # "exited" /\ Fails(TRUE) /\ Complete
     \/ /\ answer[Main].kind = "ok" \/ target = "exited"
        /\ work' = "detaching"
        /\ UNCHANGED <<fail, phase>>
  /\ UNCHANGED <<vars, done, guard, fired, handler, quit>>

\* The Detach RPC kills the process and ends the server; the exit is noted.
Killed ==
  /\ work = "detaching"
  /\ ~Running
  /\ \/ /\ conn = "open"
        /\ conn' = "lost" /\ target' = "exited" /\ exited' = TRUE
        /\ done' = "kill"
        /\ UNCHANGED <<run, fail>>
     \/ /\ conn = "lost"
        /\ Fails(TRUE)
        /\ UNCHANGED <<serverVars, exited, done>>
  /\ Complete
  /\ UNCHANGED <<chanVars, cancelVars, callerVars, guard, fired, handler, quit>>

\* The mode of the usage text, and the mode of the code.
DetachMode == "detach"
QuitMode   == "disconnect"

\* Session.Quit has returned to cmdQuit.
QuitDone ==
  /\ work = "quitting"
  /\ \/ quit["main"] = "closed" /\ done' = QuitMode /\ UNCHANGED fail
     \/ quit["main"] = "failed" /\ exited /\ done' = "exited" /\ UNCHANGED fail
     \/ quit["main"] = "failed" /\ ~exited /\ Fails(TRUE) /\ UNCHANGED done
  /\ quit' = [quit EXCEPT !["main"] = "no"]
  /\ Complete
  /\ UNCHANGED <<vars, guard, fired, handler>>

----------------------------------------------------------------------------
(* Main: the script, the loop and the end. *)

\* The process ends, and its connection with it.
Leave ==
  /\ phase' = "over"
  /\ \/ LoseConnection
     \/ conn = "lost" /\ UNCHANGED serverVars
  /\ UNCHANGED <<chanVars, cancelVars, exited, callerVars,
                 work, done, fail, guard, fired, handler, quit>>

\* RunScript after its last command: hand over to the loop, or quit, and leave
\* whatever became of that.
ScriptEnds ==
  \/ /\ phase = "script" /\ work = "none"
     /\ \/ Hold  /\ phase' = "poll" /\ UNCHANGED <<work, done, quit>>
        \/ ~Hold /\ phase' = "end"  /\ BeginQuit
     /\ UNCHANGED <<vars, fail, guard, fired, handler>>
  \/ phase = "end" /\ work = "none" /\ Leave

\* The loop polls for a stop before it reads a line.
LoopTop ==
  /\ phase = "poll" /\ work = "none"
  /\ \/ done # "" /\ Leave
     \/ /\ done = ""
        /\ PollStop(Main)
        /\ work' = "polling"
        /\ UNCHANGED <<phase, done, fail, guard, fired, handler, quit>>

Polled ==
  /\ Back("polling")
  /\ \/ /\ answer[Main].kind = "none"
        /\ phase' = "scan"
        /\ work' = "none"
        /\ UNCHANGED <<vars, done, fail, guard>>
     \/ Present(answer[Main].kind)
  /\ UNCHANGED <<fired, handler, quit>>

\* End of input: the loop breaks and quits only in mode "exec", which no
\* session has.
EndOfInput == phase = "scan" /\ work = "none" /\ Leave

----------------------------------------------------------------------------
(* Session.Quit, on Main or on the handler. *)

\* A stopped target is resumed on a goroutine of its own.
QuitProbe(q) ==
  /\ quit[q] = "probe"
  /\ \/ /\ conn = "open" /\ target = "stopped"
        /\ pc[ResumerOf(q)] = "idle" /\ Budget
        /\ Enter(ResumerOf(q), [NoCall EXCEPT !.op = "StartRun"], "check")
        /\ quit' = [quit EXCEPT ![q] = "poll"]
     \/ /\ conn = "lost" \/ target # "stopped"
        /\ quit' = [quit EXCEPT ![q] = "close"]
        /\ UNCHANGED callerVars
  /\ UNCHANGED <<serverVars, chanVars, cancelVars, exited,
                 phase, work, done, fail, guard, fired, handler>>

\* Quit polls until the target runs, has exited, does not answer, or five
\* seconds have passed: it may end in any state.
QuitPoll(q) ==
  /\ quit[q] = "poll"
  /\ quit' = [quit EXCEPT ![q] = "close"]
  /\ UNCHANGED <<vars, phase, work, done, fail, guard, fired, handler>>

\* Disconnect(false): the target stays as it is.
QuitClose(q) ==
  /\ quit[q] = "close"
  /\ \/ LoseConnection /\ quit' = [quit EXCEPT ![q] = "closed"]
     \/ /\ conn = "lost"
        /\ quit' = [quit EXCEPT ![q] = "failed"]
        /\ UNCHANGED serverVars
  /\ UNCHANGED <<chanVars, cancelVars, exited, callerVars,
                 phase, work, done, fail, guard, fired, handler>>

QuitStep(q) == QuitProbe(q) \/ QuitPoll(q) \/ QuitClose(q)

----------------------------------------------------------------------------
(* The stop-hold guard. *)

\* The timer expires. Bound: one callback at a time.
GuardFires ==
  /\ guard = "armed" /\ fired = "no"
  /\ guard' = "expired"
  /\ fired' = "started"
  /\ UNCHANGED <<vars, phase, work, done, fail, handler, quit>>

\* A callback that disarms the guard and forgets to continue.
FaultyGuardResumes ==
  /\ fired = "started"
  /\ guard' = "off"
  /\ fired' = "resuming"
  /\ UNCHANGED <<vars, phase, work, done, fail, handler, quit>>

\* The callback does nothing once the session is done; otherwise it disarms
\* the guard and continues the target, without a timeout.
GuardResumes ==
  /\ fired = "started"
  /\ \/ done # "" /\ fired' = "no" /\ UNCHANGED <<vars, guard>>
     \/ /\ done = ""
        /\ RunToStop(Guard, "continue", FALSE)
        /\ guard' = "off"
        /\ fired' = "resuming"
  /\ UNCHANGED <<phase, work, done, fail, handler, quit>>

\* The stop that ends its RunToStop is discarded.
GuardReturns ==
  /\ fired = "resuming" /\ pc[Guard] = "idle"
  /\ fired' = "no"
  /\ UNCHANGED <<vars, phase, work, done, fail, guard, handler, quit>>

----------------------------------------------------------------------------
(* SIGINT: Abort, then Quit. *)

Interrupted ==
  /\ Signal /\ handler = "waiting"
  /\ done' = IF done = "" THEN "interrupt" ELSE done
  /\ handler' = "cancel"
  /\ UNCHANGED <<vars, phase, work, fail, guard, fired, quit>>

AbortWaits ==
  /\ handler = "cancel"
  /\ CancelWait
  /\ handler' = "disarm"
  /\ UNCHANGED <<phase, work, done, fail, guard, fired, quit>>

AbortGuard ==
  /\ handler = "disarm"
  /\ guard' = "off"
  /\ handler' = "quit"
  /\ quit' = [quit EXCEPT !["handler"] = "probe"]
  /\ UNCHANGED <<vars, phase, work, done, fail, fired>>

----------------------------------------------------------------------------

ConsoleInit ==
  /\ Init
  /\ phase = "script" /\ work = "none"
  /\ done = "" /\ fail = FALSE
  /\ guard = "off" /\ fired = "no"
  /\ handler = "waiting"
  /\ quit = [q \in Quitter |-> "no"]

\* Main carries on by itself, to the end of the script; a command or the end of
\* the input comes from outside.
MainStep ==
  \/ PresentStop \/ TraceHit \/ OnceRemoved \/ Halted \/ Resolved \/ Inspected \/ Asked
  \/ HaltedForKill \/ Killed \/ QuitDone
  \/ ScriptEnds \/ LoopTop \/ Polled

Input ==
  \/ \E cmd \in Command : CmdBlocking(cmd)
  \/ CmdHalt \/ CmdInspect \/ CmdStatus \/ CmdLocal \/ CmdQuit \/ CmdKill
  \/ EndOfInput

ControlStep ==
  /\ \/ \E c \in Caller : CallStep(c)
     \/ \E r \in RunId : PostStep(r)
  /\ UNCHANGED consoleVars

GuardStep == GuardResumes \/ GuardReturns

HandlerStep == Interrupted \/ AbortWaits \/ AbortGuard

ConsoleNext ==
  \/ /\ phase # "over"
     /\ \/ MainStep \/ Input \/ ControlStep
        \/ GuardFires \/ GuardStep
        \/ HandlerStep
        \/ \E q \in Quitter : QuitStep(q)
  \/ Server /\ UNCHANGED consoleVars

ConsoleSpec == ConsoleInit /\ [][ConsoleNext]_allVars

\* Goroutines are scheduled and timers expire while the process lives, and the
\* server takes up what it is sent. Nobody has to type, and the target need
\* not stop.
ConsoleFairness ==
  /\ WF_allVars(phase # "over" /\ MainStep)
  /\ WF_allVars(phase # "over" /\ GuardFires)
  /\ WF_allVars(phase # "over" /\ GuardStep)
  /\ WF_allVars(phase # "over" /\ (AbortWaits \/ AbortGuard))
  /\ \A q \in Quitter : WF_allVars(phase # "over" /\ QuitStep(q))
  /\ \A c \in Caller :
       WF_allVars(phase # "over" /\ CallStep(c) /\ UNCHANGED consoleVars)
  /\ \A r \in RunId :
       /\ WF_allVars(phase # "over" /\ PostStep(r) /\ UNCHANGED consoleVars)
       /\ WF_allVars(Accept(r) /\ UNCHANGED <<chanVars, cancelVars, exited,
                                               callerVars, consoleVars>>)

FairConsoleSpec == ConsoleSpec /\ ConsoleFairness
----------------------------------------------------------------------------
(* Properties. *)

\* Type invariant of the console over a well-typed control.
ConsoleTypeOK ==
  /\ TypeOK
  /\ phase \in Phase
  /\ work \in Work
  /\ done \in Done
  /\ fail \in BOOLEAN
  /\ guard \in {"off", "armed", "expired"}
  /\ fired \in {"no", "started", "resuming"}
  /\ handler \in {"waiting", "cancel", "disarm", "quit"}
  /\ quit \in [Quitter -> QuitState]

\* A session that ends as "exited" or "kill" leaves no living target behind.
DoneTruthful == done \in {"exited", "kill"} => target = "exited"

\* The loop waits for a line with the guard armed and no callback at work.
Holding ==
  /\ guard = "armed" /\ fired = "no"
  /\ phase = "scan" /\ work = "none"
  /\ done = "" /\ conn = "open"

\* The loop never executes a command with the guard armed: the timer cannot
\* expire under a command and continue the target beneath it.
GuardQuietDuringCommand ==
  phase = "scan" /\ work # "none" => guard # "armed"

\* A session that ends with exit code 0 has released its target, or knows it
\* gone. (Of a script without --hold; the end of input in the loop breaks it,
\* see EofLeavesRunning.)
ExitZeroMeansReleased ==
  phase = "over" /\ ~fail /\ done # "interrupt" => done \in {"disconnect", "exited", "kill"}

\* The stop-hold guard has not continued the target yet.
GuardUnused == pc[Guard] = "idle" /\ answer[Guard] = NoAnswer

\* As long as the guard has not continued the target, a stop the target made
\* ends the very command that started it, in the script, in the loop and while a
\* Quit that failed has a continue of its own under way. (What a lost connection
\* makes up may come from any.)
CommandsEndWithOwnStop ==
  [][GuardUnused /\ Returns(Main, "RunToStop") /\ answer'[Main].run # NoRun
       => \/ answer'[Main].run = call[Main].mine
          \/ run[answer'[Main].run].reply = "lost"]_allVars

\* An armed guard over a silent user resumes the stopped target.
GuardReleases ==
  Holding /\ Budget
    ~> target # "stopped" \/ work # "none" \/ phase # "scan" \/ conn = "lost"

----------------------------------------------------------------------------
(* What comments and documents say and the code does not do. *)

\* control.go: "The console loop is the single reader" of the stops. The guard's
\* callback waits for one on the timer's goroutine.
SingleReader ==
  \A c, d \in Caller : pc[c] \in {"select", "poll"} /\ pc[d] \in {"select", "poll"} => c = d

\* README.md: "A breakpoint hit emits a `stop` event with the full context". Only
\* Main shows what it is answered; the callback discards it.
HitsReachConsole == \A c \in Caller \ {Main} : answer[c].kind # "breakpoint"

\* README.md: when the target is stopped and no command arrives, "it is
\* auto-resumed ..., so a dead agent cannot freeze a service".
NeverFrozen ==
  phase = "scan" /\ work = "none" /\ target = "stopped" /\ conn = "open" /\ Budget
    ~> target # "stopped" \/ work # "none" \/ phase # "scan" \/ conn = "lost" \/ ~Budget

\* README.md: "the target is paused until you continue/step".
PausedUntilCommand == Holding => ~Running

\* session.go: Quit leaves "a stopped service ... never ... frozen".
QuitLeavesRunning ==
  [][\A q \in Quitter : quit[q] = "close" /\ quit'[q] = "closed" => target' # "stopped"]_allVars

\* runner.go: "EOF with the target alive: detach so the service keeps serving".
EofLeavesRunning ==
  [][phase = "scan" /\ phase' = "over" => target' # "stopped"]_allVars

\* cli.go: SIGINT ends with "the target keeps running".
InterruptLeavesRunning ==
  [][done = "interrupt" /\ phase' = "over" /\ phase # "over" => target' # "stopped"]_allVars

\* README.md: the guard resumes the target when "no command arrives": a command
\* being carried out has arrived.
GuardSeesCommands == work \notin {"none", "polling"} => guard # "armed"

\* runner.go: Abort "marks the session interrupted (SIGINT): the loop exits and
\* blocking waits return". Once the handler is through, Main ends, or it waits
\* for a line (the loop blocked on its input is AbortEndsLoop's business).
AbortEndsWork ==
  quit["handler"] \in {"closed", "failed"} ~> phase = "over" \/ (phase = "scan" /\ work = "none")

\* The same for a loop that waits for a line.
AbortEndsLoop == handler = "quit" /\ phase = "scan" /\ work = "none" ~> phase = "over"

\* README.md: exit code "130 interrupted": Runner.done keeps the interrupt.
InterruptSticks == [][done = "interrupt" => done' = "interrupt"]_allVars

\* README.md: exit code 1 when "a wait timed out".
TimeoutFails ==
  [][Back("blocking") /\ answer[Main].kind = "timeout" /\ work' = "none" => fail']_allVars
=============================================================================
