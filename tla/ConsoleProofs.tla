--------------------------- MODULE ConsoleProofs ---------------------------
(***************************************************************************)
(* Theorems about the console (module Console): what the goroutines of the *)
(* client, the script, the loop, the guard and the signal handler, do to   *)
(* the control and to each other, for every set of executions and every    *)
(* combination of the command line's options.                              *)
(***************************************************************************)
EXTENDS Console, ControlProofs

USE NoRunAssumption, ControlAssumption, ConsoleAssumption

----------------------------------------------------------------------------
(* What the console does to the control. *)

\* The `go startRun()' of a Quit: a call no StartCall makes.
StartsRun(c) ==
  /\ pc[c] = "idle"
  /\ Enter(c, [NoCall EXCEPT !.op = "StartRun"], "check")
  /\ UNCHANGED <<serverVars, chanVars, cancelVars, exited>>

\* The Detach RPC of a kill, on a stopped or exited target.
Kills ==
  /\ ~Running
  /\ conn = "open"
  /\ conn' = "lost" /\ target' = "exited" /\ exited' = TRUE
  /\ UNCHANGED <<run, chanVars, cancelVars, callerVars>>

\* A connection that ends because this side ends it is one the server loses.
LEMMA ClosesConnection ==
  ASSUME LoseConnection, UNCHANGED <<chanVars, cancelVars, exited, callerVars>>
  PROVE  Next
BY DEF Next, Server, ServerNext

\* A call of Main or of the guard is one of the calls the control offers.
LEMMA CallsControl ==
  ASSUME NEW c \in {Main, Guard},
         \/ \E cmd \in Command, timed \in BOOLEAN : RunToStop(c, cmd, timed)
         \/ Interrupt(c) \/ HaltNow(c) \/ PollStop(c)
  PROVE  Next
BY DEF StartCall, Next

\* presentStop calls the control or leaves it alone.
LEMMA PresentControl ==
  ASSUME NEW kind, Present(kind)
  PROVE  [Next]_vars
BY CallsControl DEF Present, SaysGone

\* The end of the process closes the connection, if it is still open.
LEMMA LeaveControl ==
  ASSUME Leave
  PROVE  [Next]_vars
BY ClosesConnection DEF Leave, vars

\* Whatever Main does with an answer is a step of the control, none, or a kill.
LEMMA MainControl ==
  ASSUME MainStep
  PROVE  [Next]_vars \/ Kills
<1>1. CASE PresentStop
  BY <1>1, PresentControl DEF PresentStop
<1>2. CASE TraceHit
  BY <1>2, CallsControl DEF TraceHit, Command
<1>3. CASE Resolved
  BY <1>3, CallsControl DEF Resolved
<1>4. CASE OnceRemoved \/ Halted \/ Inspected \/ Asked \/ HaltedForKill \/ QuitDone
  BY <1>4 DEF OnceRemoved, Halted, Inspected, Asked, HaltedForKill, QuitDone, vars
<1>5. CASE Killed
  BY <1>5 DEF Killed, Kills, vars
<1>6. CASE ScriptEnds
  BY <1>6, LeaveControl DEF ScriptEnds
<1>7. CASE LoopTop
  BY <1>7, LeaveControl, CallsControl DEF LoopTop
<1>8. CASE Polled
  BY <1>8, PresentControl DEF Polled
<1> QED BY <1>1, <1>2, <1>3, <1>4, <1>5, <1>6, <1>7, <1>8 DEF MainStep

\* A command that comes from outside starts a call, leaves, or does neither.
LEMMA InputControl ==
  ASSUME Input
  PROVE  [Next]_vars
<1>1. ASSUME NEW cmd \in Command, CmdBlocking(cmd) PROVE [Next]_vars
  BY <1>1, CallsControl DEF CmdBlocking
<1>2. CASE CmdHalt \/ CmdInspect \/ CmdStatus \/ CmdKill
  BY <1>2, CallsControl DEF CmdHalt, CmdInspect, CmdStatus, CmdKill
<1>3. CASE CmdLocal \/ CmdQuit
  BY <1>3 DEF CmdLocal, CmdQuit
<1>4. CASE EndOfInput
  BY <1>4, LeaveControl DEF EndOfInput
<1> QED BY <1>1, <1>2, <1>3, <1>4 DEF Input

\* To the control and its server, a step of the console is one of their own
\* steps, none, the resume of a Quit, or a kill.
LEMMA ConsoleSteps ==
  ASSUME [ConsoleNext]_allVars
  PROVE  \/ [Next]_vars
         \/ \E q \in Quitter : StartsRun(ResumerOf(q))
         \/ Kills
<1>1. CASE MainStep \/ Input
  BY <1>1, MainControl, InputControl
<1>2. CASE ControlStep
  BY <1>2 DEF ControlStep, Next
<1>3. CASE GuardFires \/ GuardReturns \/ Interrupted \/ AbortGuard
  BY <1>3 DEF GuardFires, GuardReturns, Interrupted, AbortGuard
<1>4. CASE GuardResumes
  BY <1>4, CallsControl DEF GuardResumes, Command
<1>5. CASE AbortWaits
  BY <1>5 DEF AbortWaits, Next
<1>6. ASSUME NEW q \in Quitter, QuitStep(q)
      PROVE  [Next]_vars \/ StartsRun(ResumerOf(q))
  <2>1. CASE QuitProbe(q)
    BY <2>1 DEF QuitProbe, StartsRun, vars
  <2>2. CASE QuitPoll(q)
    BY <2>2 DEF QuitPoll
  <2>3. CASE QuitClose(q)
    BY <2>3, ClosesConnection DEF QuitClose, vars
  <2> QED BY <1>6, <2>1, <2>2, <2>3 DEF QuitStep
<1>7. CASE Server
  BY <1>7 DEF Next
<1>8. CASE UNCHANGED allVars
  BY <1>8 DEF allVars
<1> QED BY <1>1, <1>2, <1>3, <1>4, <1>5, <1>6, <1>7, <1>8
        DEF ConsoleNext, GuardStep, HandlerStep

----------------------------------------------------------------------------
(* The invariants of the control hold under its console, too. *)

ControlInv == TypeOK /\ ServerInv /\ CallInv /\ ReportedOnce /\ ExitNoteTruthful

\* A startRun on a goroutine of its own disturbs none of them.
LEMMA StartsRunInv ==
  ASSUME ControlInv, NEW c \in Caller, StartsRun(c)
  PROVE  ControlInv'
<1> USE DEF ControlInv, StartsRun, serverVars, chanVars, cancelVars
<1>1. [NoCall EXCEPT !.op = "StartRun"] \in Call /\ "check" \in Label
  BY DEF NoCall, Call, Op, Command, Label
<1>2. TypeOK'
  <2>1. pc' \in [Caller -> Label] /\ call' \in [Caller -> Call] /\ answer' \in [Caller -> Answer]
    BY <1>1, EnterType
  <2> QED BY <2>1 DEF TypeOK, ServerTypeOK
<1>3. ServerInv' /\ ExitNoteTruthful'
  BY DEF ServerInv, ExitNoteTruthful
<1>4. CallInv'
  <2>1. pc'[c] = "check" /\ call'[c].op = "StartRun"
    BY DEF Enter, TypeOK, NoCall
  <2>2. \A d \in Caller : d # c => pc'[d] = pc[d] /\ call'[d] = call[d]
    BY DEF Enter, TypeOK
  <2> QED BY <2>1, <2>2 DEF CallInv
<1>5. ReportedOnce'
  <2>1. \A d \in Caller : answer'[d].run = answer[d].run \/ answer'[d].run = NoRun
    BY DEF Enter, TypeOK, NoAnswer
  <2> QED BY <2>1 DEF ReportedOnce
<1> QED BY <1>2, <1>3, <1>4, <1>5

\* A kill finds no command executing and leaves an exited target behind.
LEMMA KillsInv ==
  ASSUME ControlInv, Kills
  PROVE  ControlInv'
<1> USE DEF ControlInv, Kills, chanVars, cancelVars, callerVars
<1>1. TypeOK'
  BY DEF TypeOK, ServerTypeOK, TargetState
<1>2. \A r \in RunId : run[r].st # "executing"
  BY DEF ServerInv, Running
<1> QED BY <1>1, <1>2 DEF ServerInv, CallInv, ReportedOnce, ExitNoteTruthful

\* No step of the console breaks the control's invariants.
LEMMA ControlInvStep ==
  ASSUME ControlInv, [ConsoleNext]_allVars
  PROVE  ControlInv'
<1>1. CASE [Next]_vars
  BY <1>1, NextType, ServerInvStep, CallInvStep, ReportedOnceStep, ExitNoteStep DEF ControlInv
<1>2. ASSUME NEW q \in Quitter, StartsRun(ResumerOf(q)) PROVE ControlInv'
  BY <1>2, StartsRunInv DEF Quitter, ResumerOf
<1> QED BY <1>1, <1>2, KillsInv, ConsoleSteps

\* They hold when the session starts.
LEMMA ControlInvInit == Init => ControlInv
<1> SUFFICES ASSUME Init PROVE ControlInv OBVIOUS
<1>1. TypeOK
  BY InitType
<1>2. \A r \in RunId : run[r].st \in {"unused", "issued"} /\ run[r].reply = "none"
                       /\ run[r].gen = 0
  <2>1. \A r \in RunId : run[r] \in {Unused, [Unused EXCEPT !.st = "issued"]}
    BY DEF Init
  <2>2. /\ Unused.st = "unused" /\ Unused.reply = "none" /\ Unused.gen = 0
        /\ [Unused EXCEPT !.st = "issued"].st = "issued"
        /\ [Unused EXCEPT !.st = "issued"].reply = "none"
        /\ [Unused EXCEPT !.st = "issued"].gen = 0
    BY DEF Unused
  <2> QED BY <2>1, <2>2
<1>3. ServerInv
  BY <1>2 DEF ServerInv
<1>4. CallInv
  BY <1>2 DEF CallInv, Init
<1>5. ReportedOnce
  BY <1>2 DEF ReportedOnce, Init, NoAnswer, Elems, NoRepeat
<1>6. ExitNoteTruthful
  BY <1>2 DEF ExitNoteTruthful, Init
<1> QED BY <1>1, <1>3, <1>4, <1>5, <1>6 DEF ControlInv

----------------------------------------------------------------------------
(* Type correctness of the console. *)

OwnTypeOK ==
  /\ phase \in Phase
  /\ work \in Work
  /\ done \in Done
  /\ fail \in BOOLEAN
  /\ guard \in {"off", "armed", "expired"}
  /\ fired \in {"no", "started", "resuming"}
  /\ handler \in {"waiting", "cancel", "disarm", "quit"}
  /\ quit \in [Quitter -> QuitState]

\* presentStop keeps the console well typed.
LEMMA PresentOwnType ==
  ASSUME OwnTypeOK, NEW kind, Present(kind), UNCHANGED <<fired, handler, quit>>
  PROVE  OwnTypeOK'
BY DEF OwnTypeOK, Present, SaysGone, Complete, Fails, ArmGuard, Phase, Work, Done

\* So does every other step of Main by itself.
LEMMA MainOwnType ==
  ASSUME OwnTypeOK, MainStep
  PROVE  OwnTypeOK'
<1> USE DEF Phase, Work, Done
<1>1. CASE PresentStop
  BY <1>1, PresentOwnType DEF PresentStop
<1>2. CASE Polled
  <2>1. CASE Present(answer[Main].kind)
    BY <1>2, <2>1, PresentOwnType DEF Polled
  <2> QED BY <1>2, <2>1 DEF Polled, OwnTypeOK
<1>3. CASE TraceHit \/ OnceRemoved \/ Halted \/ Resolved \/ Inspected \/ Asked
  <2> USE DEF OwnTypeOK, Complete, Fails, ArmGuard
  <2>1. CASE TraceHit
    <3>1. UNCHANGED <<work, phase>> \/ Complete
      BY <2>1, Zenon DEF TraceHit
    <3>2. phase' \in Phase /\ work' \in Work
      BY <3>1
    <3>3. done' = done /\ fail' = fail /\ guard' = guard /\ fired' = fired
          /\ handler' = handler /\ quit' = quit
      BY <2>1, Zenon DEF TraceHit
    <3> QED BY <3>2, <3>3
  <2>2. CASE OnceRemoved
    BY <2>2 DEF OnceRemoved
  <2>3. CASE Halted \/ Inspected \/ Asked
    BY <2>3 DEF Halted, Inspected, Asked
  <2>4. CASE Resolved
    BY <2>4 DEF Resolved
  <2> QED BY <1>3, <2>1, <2>2, <2>3, <2>4
<1>4. CASE HaltedForKill \/ Killed
  BY <1>4 DEF OwnTypeOK, HaltedForKill, Killed, Complete, Fails
<1>5. CASE QuitDone
  BY <1>5 DEF OwnTypeOK, QuitDone, QuitMode, Complete, Fails, Quitter, QuitState
<1>6. CASE ScriptEnds
  BY <1>6 DEF OwnTypeOK, ScriptEnds, BeginQuit, Leave, Quitter, QuitState
<1>7. CASE LoopTop
  BY <1>7 DEF OwnTypeOK, LoopTop, Leave
<1> QED BY <1>1, <1>2, <1>3, <1>4, <1>5, <1>6, <1>7 DEF MainStep

\* So does a command from outside.
LEMMA InputOwnType ==
  ASSUME OwnTypeOK, Input
  PROVE  OwnTypeOK'
<1> USE DEF Phase, Work, Done, OwnTypeOK, GuardAtLine
<1>1. ASSUME NEW cmd \in Command, CmdBlocking(cmd) PROVE OwnTypeOK'
  BY <1>1 DEF CmdBlocking, Complete, Fails
<1>2. CASE CmdHalt \/ CmdInspect \/ CmdStatus
  <2>1. CASE CmdHalt
    BY <2>1 DEF CmdHalt, Complete
  <2>2. CASE CmdInspect
    BY <2>2 DEF CmdInspect
  <2>3. CASE CmdStatus
    BY <2>3 DEF CmdStatus
  <2> QED BY <1>2, <2>1, <2>2, <2>3
<1>3. CASE CmdLocal \/ CmdKill
  BY <1>3 DEF CmdLocal, CmdKill, Complete, Fails
<1>4. CASE CmdQuit
  BY <1>4 DEF CmdQuit, BeginQuit, Quitter, QuitState
<1>5. CASE EndOfInput
  BY <1>5 DEF EndOfInput, Leave
<1> QED BY <1>1, <1>2, <1>3, <1>4, <1>5 DEF Input

\* So does every step of the client and its server.
LEMMA OwnTypeStep ==
  ASSUME OwnTypeOK, [ConsoleNext]_allVars
  PROVE  OwnTypeOK'
<1>1. CASE UNCHANGED consoleVars
  BY <1>1 DEF OwnTypeOK, consoleVars
<1>2. CASE GuardFires \/ GuardStep
  BY <1>2 DEF OwnTypeOK, GuardFires, GuardStep, GuardResumes, GuardReturns
<1>3. CASE HandlerStep
  BY <1>3 DEF OwnTypeOK, HandlerStep, Interrupted, AbortWaits, AbortGuard, Done, Quitter,
              QuitState
<1>4. ASSUME NEW q \in Quitter, QuitStep(q) PROVE OwnTypeOK'
  BY <1>4 DEF OwnTypeOK, QuitStep, QuitProbe, QuitPoll, QuitClose, QuitState
<1> QED BY <1>1, <1>2, <1>3, <1>4, MainOwnType, InputOwnType
        DEF ConsoleNext, ControlStep, allVars

\* The console starts well typed.
LEMMA OwnTypeInit == ConsoleInit => OwnTypeOK
BY DEF ConsoleInit, OwnTypeOK, Phase, Work, Done, QuitState

SoundInv == ControlInv /\ OwnTypeOK

\* The two together are inductive under the console's specification.
LEMMA ConsoleSound == ConsoleSpec => []SoundInv
<1>1. ConsoleInit => SoundInv
  BY ControlInvInit, OwnTypeInit DEF ConsoleInit, SoundInv
<1>2. SoundInv /\ [ConsoleNext]_allVars => SoundInv'
  BY ControlInvStep, OwnTypeStep DEF SoundInv
<1> QED BY <1>1, <1>2, PTL DEF ConsoleSpec

\* In every behaviour of the client, whichever options it was given, the state
\* of the console and of the control below it is well typed: in particular
\* Runner.done only takes the modes the code names and no goroutine is lost.
THEOREM ConsoleTypeCorrect == ConsoleSpec => []ConsoleTypeOK
<1>1. SoundInv => ConsoleTypeOK
  BY DEF SoundInv, ControlInv, OwnTypeOK, ConsoleTypeOK
<1> QED BY <1>1, ConsoleSound, PTL

\* No stop reaches two callers although the guard reads the same channel as the
\* loop, and startRun is called outside any operation.
THEOREM ConsoleReportsOnce == ConsoleSpec => []ReportedOnce
<1>1. SoundInv => ReportedOnce
  BY DEF SoundInv, ControlInv
<1> QED BY <1>1, ConsoleSound, PTL

\* Session.exited is set only for a target that is gone, and before any caller
\* reads the exit, also under a console that kills its target itself.
THEOREM ConsoleExitTruthful == ConsoleSpec => []ExitNoteTruthful
<1>1. SoundInv => ExitNoteTruthful
  BY DEF SoundInv, ControlInv
<1> QED BY <1>1, ConsoleSound, PTL

----------------------------------------------------------------------------
(* What the session says of its end. *)

\* A call is answered "exited" only for a target that is gone.
AnswerTruthful == \A c \in Caller : answer[c].kind = "exited" => target = "exited"

\* The server never brings an exited target back.
LEMMA ExitIsFinal ==
  ASSUME TypeOK, ServerInv, target = "exited", [Next]_vars
  PROVE  target' = "exited"
<1>1. CASE ServerNext
  BY <1>1 DEF ServerNext, Accept, Finish, OtherClient, LoseConnection, ServerInv
<1>2. CASE HaltTarget
  BY <1>2 DEF HaltTarget
<1>3. CASE UNCHANGED target
  BY <1>3
<1>4. ServerNext \/ HaltTarget \/ UNCHANGED target
  BY DEF Next, StartCall, RunToStop, Interrupt, HaltNow, PollStop, CallStep, RaiseGen,
         ProbeRunning, HaltRPC, Issue, CheckRunning, Spawn, Arm, Receive, TakeStop,
         TimerFires, WakeUp, Fn, Poll, PostStep, PostCheck, PostSend, PostClear, PostRetry,
         CancelWait, Server,
         vars, serverVars
<1> QED BY <1>1, <1>2, <1>3, <1>4

\* A fresh "exited" comes from a reply that says so, or from a Halt that found
\* the target gone over a connection that stands.
LEMMA FreshAnswer ==
  ASSUME SoundInv, NEW c \in Caller, StartCall(c) \/ CallStep(c),
         NEW d \in Caller, answer'[d].kind = "exited", answer'[d] # answer[d]
  PROVE  target = "exited"
<1>1. /\ TypeOK /\ ServerInv
      /\ answer \in [Caller -> Answer] /\ stopCh \in Seq(RunId) /\ target \in TargetState
  BY DEF SoundInv, ControlInv, TypeOK, ServerTypeOK
<1>2. ASSUME NEW kind, NEW r, Return(c, kind, r) PROVE kind = "exited"
  BY <1>1, <1>2 DEF Return
<1>3. ASSUME NEW op, NEW label, Enter(c, op, label) PROVE FALSE
  BY <1>1, <1>3 DEF Enter, NoAnswer
<1>4. ASSUME NEW label, Goto(c, label) PROVE FALSE
  BY <1>4 DEF Goto
<1>5. CASE StartCall(c)
  BY <1>2, <1>3, <1>5 DEF StartCall, RunToStop, Interrupt, HaltNow, PollStop
<1>6. ASSUME NEW halted, HaltDone(c, halted) PROVE FALSE
  BY <1>2, <1>4, <1>6 DEF HaltDone
<1>7. CASE RaiseGen(c) \/ ProbeRunning(c) \/ Issue(c) \/ Arm(c) \/ TimerFires(c)
  BY <1>4, <1>6, <1>7 DEF RaiseGen, ProbeRunning, Issue, Arm, TimerFires
<1>8. CASE HaltRPC(c)
  <2>1. HaltFailed(c) /\ (conn = "lost" \/ target = "exited")
    BY <1>6, <1>8 DEF HaltRPC
  <2>2. ErrorKind = "exited" => target = "exited"
    BY <2>1 DEF ErrorKind
  <2> QED BY <1>2, <2>1, <2>2 DEF HaltFailed
<1>9. CASE CheckRunning(c) \/ Spawn(c) \/ WakeUp(c) \/ Fn(c)
  BY <1>2, <1>4, <1>9 DEF CheckRunning, Spawn, Started, WakeUp, Fn
<1>10. CASE TakeStop(c)
  <2> DEFINE r == Head(stopCh)
  <2>1. r \in RunId
    BY <1>1, <1>10 DEF TakeStop
  <2>2. PICK stated \in BOOLEAN : Return(c, ClassifyStop(run[r].reply, run[r].cmd, stated), r)
    BY <1>4, <1>10 DEF TakeStop
  <2>3. ClassifyStop(run[r].reply, run[r].cmd, stated) = "exited"
    BY <1>2, <2>2
  <2>4. run[r].reply = "exited"
    BY <2>3 DEF ClassifyStop, PlainKind
  <2> QED BY <1>1, <2>1, <2>4 DEF ServerInv
<1>11. CASE Receive(c) \/ Poll(c)
  BY <1>2, <1>10, <1>11 DEF Receive, Poll
<1> QED BY <1>5, <1>7, <1>8, <1>9, <1>11 DEF CallStep

\* No step of the console answers "exited" untruthfully.
LEMMA AnswerTruthfulStep ==
  ASSUME SoundInv, AnswerTruthful, [ConsoleNext]_allVars
  PROVE  AnswerTruthful'
<1>1. TypeOK /\ ServerInv /\ answer \in [Caller -> Answer]
  BY DEF SoundInv, ControlInv, TypeOK
<1>2. CASE [Next]_vars
  <2>1. ASSUME NEW c \in Caller, StartCall(c) \/ CallStep(c) PROVE AnswerTruthful'
    BY <1>1, <1>2, <2>1, FreshAnswer, ExitIsFinal DEF AnswerTruthful
  <2>2. CASE UNCHANGED answer
    BY <1>1, <1>2, <2>2, ExitIsFinal DEF AnswerTruthful
  <2> QED BY <1>2, <2>1, <2>2 DEF Next, PostStep, PostCheck, PostSend, PostClear, PostRetry,
                                  CancelWait, Server,
                                  vars, callerVars
<1>3. ASSUME NEW q \in Quitter, StartsRun(ResumerOf(q)) PROVE AnswerTruthful'
  <2>1. ResumerOf(q) \in Caller
    BY DEF ResumerOf
  <2> QED BY <1>1, <1>3, <2>1 DEF StartsRun, Enter, NoAnswer, AnswerTruthful, serverVars
<1>4. CASE Kills
  BY <1>4 DEF Kills, AnswerTruthful
<1> QED BY <1>2, <1>3, <1>4, ConsoleSteps

\* An exited target stays exited, whoever ends the session.
LEMMA ExitIsFinalForAll ==
  ASSUME SoundInv, target = "exited", [ConsoleNext]_allVars
  PROVE  target' = "exited"
<1>1. TypeOK /\ ServerInv
  BY DEF SoundInv, ControlInv
<1> QED BY <1>1, ExitIsFinal, ConsoleSteps DEF StartsRun, Kills, serverVars

\* presentStop says "exited" only on an answer that does.
LEMMA PresentDone ==
  ASSUME NEW kind, Present(kind), done' # done
  PROVE  kind = "exited" /\ UNCHANGED vars
BY DEF Present, SaysGone

\* A mode that names an exit is only ever set on a target that is gone.
LEMMA DoneStep ==
  ASSUME SoundInv, AnswerTruthful, ConsoleNext, done' # done, done' \in {"exited", "kill"}
  PROVE  target' = "exited"
<1>1. (exited => target = "exited") /\ Main \in Caller
  BY DEF SoundInv, ControlInv, ExitNoteTruthful
<1>2. CASE PresentStop \/ Polled
  <2>1. answer[Main].kind = "exited" /\ UNCHANGED vars
    BY <1>2, PresentDone DEF PresentStop, Polled
  <2> QED BY <1>1, <2>1 DEF AnswerTruthful, vars, serverVars
<1>3. CASE BeginQuit /\ UNCHANGED vars
  BY <1>1, <1>3 DEF BeginQuit, vars, serverVars
<1>4. CASE Killed
  BY <1>4 DEF Killed
<1>5. CASE QuitDone
  BY <1>1, <1>5 DEF QuitDone, QuitMode, vars, serverVars
<1>6. CASE Interrupted
  BY <1>6 DEF Interrupted
<1>7. ASSUME ScriptEnds \/ LoopTop \/ EndOfInput
      PROVE  BeginQuit /\ UNCHANGED vars
  BY <1>7 DEF ScriptEnds, LoopTop, EndOfInput, Leave
<1>8. ASSUME MainStep
      PROVE  \/ PresentStop \/ Polled \/ Killed \/ QuitDone
             \/ BeginQuit /\ UNCHANGED vars
  BY <1>7, <1>8 DEF MainStep, TraceHit, OnceRemoved, Halted, Resolved, Inspected, Asked,
                    HaltedForKill
<1>9. ASSUME Input
      PROVE  BeginQuit /\ UNCHANGED vars
  BY <1>7, <1>9 DEF Input, CmdBlocking, CmdHalt, CmdInspect, CmdStatus, CmdLocal, CmdQuit,
                    CmdKill
<1>10. MainStep \/ Input \/ Interrupted
  BY DEF ConsoleNext, ControlStep, GuardFires, GuardStep, GuardResumes, GuardReturns,
         HandlerStep, AbortWaits, AbortGuard, QuitStep, QuitProbe, QuitPoll, QuitClose,
         consoleVars
<1> QED BY <1>2, <1>3, <1>4, <1>5, <1>6, <1>8, <1>9, <1>10

DoneInv == SoundInv /\ AnswerTruthful /\ DoneTruthful

\* A session that calls its end "exited" or "kill" leaves no living target
\* behind: presentStop believes a reply of the server, Quit the note of an exit,
\* a kill the Detach that has just succeeded, and none of them can be overtaken.
THEOREM EndsTruthfully == ConsoleSpec => []DoneTruthful
<1>1. ConsoleInit => DoneInv
  <2> SUFFICES ASSUME ConsoleInit PROVE DoneInv OBVIOUS
  <2>1. SoundInv
    BY ControlInvInit, OwnTypeInit DEF ConsoleInit, SoundInv
  <2>2. AnswerTruthful /\ DoneTruthful
    BY DEF ConsoleInit, Init, NoAnswer, AnswerTruthful, DoneTruthful
  <2> QED BY <2>1, <2>2 DEF DoneInv
<1>2. DoneInv /\ [ConsoleNext]_allVars => DoneInv'
  <2> SUFFICES ASSUME DoneInv, [ConsoleNext]_allVars PROVE DoneInv' OBVIOUS
  <2> USE DEF DoneInv
  <2>1. SoundInv' /\ AnswerTruthful'
    BY ControlInvStep, OwnTypeStep, AnswerTruthfulStep DEF SoundInv
  <2>2. ASSUME done' = done, done' \in {"exited", "kill"} PROVE target' = "exited"
    <3>1. target = "exited"
      BY <2>2 DEF DoneTruthful
    <3> QED BY <3>1, ExitIsFinalForAll
  <2>3. ASSUME done' # done, done' \in {"exited", "kill"} PROVE target' = "exited"
    <3>1. ConsoleNext
      BY <2>3 DEF allVars, consoleVars
    <3> QED BY <2>3, <3>1, DoneStep
  <2> QED BY <2>1, <2>2, <2>3 DEF DoneTruthful
<1>3. DoneInv => DoneTruthful
  BY DEF DoneInv
<1> QED BY <1>1, <1>2, <1>3, PTL DEF ConsoleSpec

----------------------------------------------------------------------------
(* The stop-hold guard and the commands of the loop. *)

\* presentStop arms the guard only as the command ends.
LEMMA PresentArms ==
  ASSUME NEW kind, Present(kind)
  PROVE  guard' = "off" \/ Complete
BY DEF Present, ArmGuard

\* No step starts a command of the loop under an armed guard, or arms the guard
\* under one.
LEMMA GuardQuietStep ==
  ASSUME OwnTypeOK, GuardQuietDuringCommand, [ConsoleNext]_allVars
  PROVE  GuardQuietDuringCommand'
<1> USE DEF GuardQuietDuringCommand
<1>1. CASE UNCHANGED <<phase, work, guard>> \/ guard' \in {"off", "expired"} \/ work' = "none"
  BY <1>1
<1>2. CASE UNCHANGED <<phase, guard>> /\ work # "none"
  BY <1>2
<1>3. CASE phase' # "scan"
  BY <1>3
<1>4. ASSUME AtPrompt, guard' = GuardAtLine
      PROVE  phase = "scan" => guard' = "off"
  BY <1>4 DEF GuardAtLine
<1>5. CASE PresentStop \/ (Polled /\ Present(answer[Main].kind))
  BY <1>1, <1>5, PresentArms DEF PresentStop, Complete
<1>6. CASE Polled
  BY <1>1, <1>5, <1>6 DEF Polled
<1>7. CASE TraceHit \/ OnceRemoved \/ Halted \/ Inspected \/ Asked \/ Killed \/ QuitDone
  BY <1>1, <1>7 DEF TraceHit, OnceRemoved, Halted, Inspected, Asked, Killed, QuitDone, Complete
<1>8. CASE Resolved
  BY <1>1, <1>2, <1>8 DEF Resolved, Complete, Back
<1>9. CASE HaltedForKill
  BY <1>1, <1>2, <1>9 DEF HaltedForKill, Complete, Back
<1>10. CASE ScriptEnds \/ LoopTop \/ EndOfInput
  BY <1>3, <1>10 DEF ScriptEnds, LoopTop, EndOfInput, Leave
<1>11. ASSUME NEW cmd \in Command, CmdBlocking(cmd) PROVE GuardQuietDuringCommand'
  BY <1>1, <1>4, <1>11 DEF CmdBlocking, AtPrompt, Complete
<1>12. CASE CmdHalt \/ CmdInspect \/ CmdStatus \/ CmdLocal \/ CmdKill
  BY <1>1, <1>4, <1>12 DEF CmdHalt, CmdInspect, CmdStatus, CmdLocal, CmdKill, AtPrompt, Complete
<1>13. CASE CmdQuit
  BY <1>1, <1>3, <1>4, <1>13 DEF CmdQuit, AtPrompt
<1>14. CASE GuardFires \/ GuardStep \/ HandlerStep
  BY <1>1, <1>14 DEF GuardFires, GuardStep, GuardResumes, GuardReturns, HandlerStep,
                     Interrupted, AbortWaits, AbortGuard
<1>15. ASSUME NEW q \in Quitter, QuitStep(q) PROVE GuardQuietDuringCommand'
  BY <1>1, <1>15 DEF QuitStep, QuitProbe, QuitPoll, QuitClose
<1>16. CASE UNCHANGED consoleVars
  BY <1>1, <1>16 DEF consoleVars
<1> QED BY <1>5, <1>6, <1>7, <1>8, <1>9, <1>10, <1>11, <1>12, <1>13, <1>14, <1>15, <1>16
        DEF ConsoleNext, MainStep, Input, ControlStep, allVars

\* The loop never carries a command out with the guard armed: Loop disarms it
\* before it dispatches a line, and only the stop that ends a command arms it.
THEOREM GuardIsQuiet == ConsoleSpec => []GuardQuietDuringCommand
<1>1. ConsoleInit => GuardQuietDuringCommand
  BY DEF ConsoleInit, GuardQuietDuringCommand
<1>2. SoundInv /\ GuardQuietDuringCommand /\ [ConsoleNext]_allVars => GuardQuietDuringCommand'
  BY GuardQuietStep DEF SoundInv
<1> QED BY <1>1, <1>2, ConsoleSound, PTL DEF ConsoleSpec

----------------------------------------------------------------------------
(* The end of a script. *)

\* Without --hold Main never polls or reads a line, and from the end of the
\* script on it carries out one Quit at most, which leaves a mode or an error.
ScriptInv ==
  /\ phase \in {"script", "end", "over"}
  /\ work # "polling"
  /\ phase = "end" => work \in {"none", "quitting"}
  /\ phase = "over" => work = "none"
  /\ phase # "script" /\ work = "none" => done # "" \/ fail

\* presentStop in a script.
LEMMA PresentScript ==
  ASSUME ScriptInv, phase = "script", NEW kind, Present(kind)
  PROVE  ScriptInv'
<1>1. phase' = "script" /\ work' \in {"none", "removing"}
  BY DEF Present, Complete
<1> QED BY <1>1 DEF ScriptInv

\* No step leads Main out of the script any other way.
LEMMA ScriptStep ==
  ASSUME ~Hold, OwnTypeOK, ScriptInv, [ConsoleNext]_allVars
  PROVE  ScriptInv'
<1> USE DEF ScriptInv
<1>1. CASE UNCHANGED <<phase, work, fail>> /\ (done' = done \/ done' # "")
  BY <1>1
<1>2. CASE phase = "script" /\ phase' = "script" /\ work' # "polling"
  BY <1>2
<1>3. CASE PresentStop
  <2>1. phase = "script"
    BY <1>3 DEF PresentStop, Back
  <2> QED BY <1>3, <2>1, PresentScript DEF PresentStop
<1>4. CASE TraceHit \/ OnceRemoved \/ Halted \/ Inspected \/ Asked
  <2>1. phase = "script" /\ phase' = "script" /\ work' \in {work, "none"}
    BY <1>4 DEF TraceHit, OnceRemoved, Halted, Inspected, Asked, Back, Complete
  <2> QED BY <1>2, <2>1
<1>5. CASE Resolved \/ HaltedForKill \/ Killed
  <2>1. phase = "script" /\ phase' = "script" /\ work' \in {"none", "inspecting", "detaching"}
    BY <1>5 DEF Resolved, HaltedForKill, Killed, Back, Complete
  <2> QED BY <1>2, <2>1
<1>6. CASE QuitDone
  <2>1. phase \in {"script", "end"} /\ phase' = phase /\ work' = "none"
    BY <1>6 DEF QuitDone, Complete
  <2>2. done' # "" \/ fail'
    BY <1>6 DEF QuitDone, QuitMode, Fails
  <2> QED BY <2>1, <2>2
<1>7. CASE ScriptEnds
  <2>1. CASE phase = "script"
    <3>1. phase' = "end" /\ BeginQuit /\ UNCHANGED fail /\ work = "none"
      BY <1>7, <2>1 DEF ScriptEnds
    <3>2. work' = "quitting" \/ (work' = "none" /\ done' # "")
      BY <3>1 DEF BeginQuit
    <3> QED BY <3>1, <3>2
  <2>2. CASE phase = "end" /\ Leave /\ work = "none"
    BY <2>2 DEF Leave
  <2> QED BY <1>7, <2>1, <2>2 DEF ScriptEnds
<1>8. ASSUME LoopTop \/ Polled \/ EndOfInput PROVE FALSE
  BY <1>8 DEF LoopTop, Polled, EndOfInput, Back
<1>9. ASSUME NEW cmd \in Command, CmdBlocking(cmd) PROVE ScriptInv'
  BY <1>2, <1>9 DEF CmdBlocking, AtPrompt, Complete
<1>10. CASE CmdHalt \/ CmdLocal \/ CmdKill
  BY <1>2, <1>10 DEF CmdHalt, CmdLocal, CmdKill, AtPrompt, Complete
<1>11. CASE CmdInspect \/ CmdStatus
  BY <1>2, <1>11 DEF CmdInspect, CmdStatus, AtPrompt
<1>12. CASE CmdQuit
  BY <1>2, <1>12 DEF CmdQuit, BeginQuit, AtPrompt
<1>13. CASE GuardFires \/ GuardStep \/ HandlerStep
  BY <1>1, <1>13 DEF GuardFires, GuardStep, GuardResumes, GuardReturns, HandlerStep,
                     Interrupted, AbortWaits, AbortGuard
<1>14. ASSUME NEW q \in Quitter, QuitStep(q) PROVE ScriptInv'
  BY <1>1, <1>14 DEF QuitStep, QuitProbe, QuitPoll, QuitClose
<1>15. CASE UNCHANGED consoleVars
  BY <1>1, <1>15 DEF consoleVars
<1> QED BY <1>3, <1>4, <1>5, <1>6, <1>7, <1>8, <1>9, <1>10, <1>11, <1>12, <1>13, <1>14, <1>15
        DEF ConsoleNext, MainStep, Input, ControlStep, allVars

\* A script without --hold that ends with exit code 0 has released its target or
\* knows it gone, also when SIGINT, the guard, a timeout or the end of the
\* connection came between its commands: RunScript leaves only after cmdQuit has
\* named a mode or counted an error.
THEOREM ScriptReleases ==
  ASSUME ~Hold
  PROVE  ConsoleSpec => []ExitZeroMeansReleased
<1>1. ConsoleInit => ScriptInv
  BY DEF ConsoleInit, ScriptInv
<1>2. SoundInv /\ ScriptInv /\ [ConsoleNext]_allVars => ScriptInv'
  BY ScriptStep DEF SoundInv
<1>3. SoundInv /\ ScriptInv => ExitZeroMeansReleased
  BY DEF SoundInv, OwnTypeOK, Done, ScriptInv, ExitZeroMeansReleased
<1> QED BY <1>1, <1>2, <1>3, ConsoleSound, PTL DEF ConsoleSpec

----------------------------------------------------------------------------
(* A command ends with its own stop: who is where. *)

\* Without SIGINT only Main, the guard and the resumer of Main's Quit call into
\* the control. The guard only continues; the resumer only starts an execution,
\* while Main waits in Quit or once the connection is gone.
OthersIdle == \A c \in Caller \ {Main, Guard, MainResumer} : pc[c] = "idle"

HandlerWaits == handler = "waiting" /\ quit["handler"] = "no"

MainPlaced ==
  /\ quit["main"] # "no" => work = "quitting"
  /\ work \in {"none", "quitting", "detaching"} => pc[Main] = "idle"

GuardPlaced == pc[Guard] # "idle" => call[Guard].op \in {"RunToStop", "Timeout"}

ResumerPlaced ==
  /\ pc[MainResumer] \in {"idle", "check", "spawn"}
  /\ pc[MainResumer] # "idle" => /\ call[MainResumer].op = "StartRun"
                                 /\ quit["main"] \in {"poll", "close"} \/ conn = "lost"

Placed == OthersIdle /\ HandlerWaits /\ MainPlaced /\ GuardPlaced /\ ResumerPlaced

\* Where an operation under way goes, and what it is.
LEMMA CallMoves ==
  ASSUME TypeOK, CallInv, NEW c \in Caller, CallStep(c)
  PROVE  /\ pc[c] # "idle"
         /\ pc'[c] # "idle" => call'[c].op \in {call[c].op, "Timeout"}
         /\ pc'[c] = "idle" => answer'[c].kind # "none" \/ call[c].op = "PollStop"
<1>1. /\ pc \in [Caller -> Label] /\ call \in [Caller -> Call] /\ answer \in [Caller -> Answer]
  BY DEF TypeOK
<1>2. ASSUME NEW label, Goto(c, label) PROVE pc'[c] = label
  BY <1>1, <1>2 DEF Goto
<1>3. ASSUME NEW kind, NEW r, Return(c, kind, r)
      PROVE  pc'[c] = "idle" /\ answer'[c].kind = kind
  BY <1>1, <1>3 DEF Return
<1>4. ASSUME NEW halted, HaltDone(c, halted) \/ HaltFailed(c)
      PROVE  /\ pc'[c] # "idle" => call'[c].op = call[c].op
             /\ pc'[c] = "idle" => answer'[c].kind # "none"
  BY <1>1, <1>2, <1>3, <1>4 DEF HaltDone, HaltFailed, ErrorKind, Call
<1>5. ASSUME NEW r, Started(c, r)
      PROVE  /\ pc'[c] # "idle" => call'[c].op = call[c].op
             /\ pc'[c] = "idle" => answer'[c].kind # "none"
  BY <1>1, <1>2, <1>3, <1>5 DEF Started, Call
<1>6. CASE RaiseGen(c) \/ ProbeRunning(c) \/ HaltRPC(c)
  BY <1>2, <1>4, <1>6 DEF RaiseGen, ProbeRunning, HaltRPC
<1>7. CASE Issue(c)
  BY <1>1, <1>2, <1>7 DEF Issue, Call
<1>8. CASE CheckRunning(c) \/ Spawn(c)
  BY <1>2, <1>5, <1>8 DEF CheckRunning, Spawn
<1>9. CASE Arm(c)
  BY <1>2, <1>9 DEF Arm
<1>10. CASE TimerFires(c)
  BY <1>1, <1>2, <1>10 DEF TimerFires, Call
<1>11. CASE WakeUp(c) \/ Fn(c)
  BY <1>2, <1>3, <1>11 DEF WakeUp, Fn
<1>12. ASSUME TakeStop(c), pc[c] # "idle"
       PROVE  /\ pc'[c] # "idle" => call'[c].op = call[c].op
              /\ pc'[c] = "idle" => answer'[c].kind # "none"
  <2>1. \A reply, cmd, stated : ClassifyStop(reply, cmd, stated) # "none"
    BY DEF ClassifyStop, PlainKind
  <2> QED BY <1>2, <1>3, <1>12, <2>1 DEF TakeStop
<1>13. CASE Receive(c) \/ Poll(c)
  BY <1>2, <1>3, <1>12, <1>13 DEF Receive, Poll, CallInv
<1> QED BY <1>6, <1>7, <1>8, <1>9, <1>10, <1>11, <1>13 DEF CallStep

\* A caller's own steps leave the answers of the others alone.
LEMMA AnswerFrame ==
  ASSUME TypeOK, NEW c \in Caller, StartCall(c) \/ CallStep(c),
         NEW d \in Caller, d # c
  PROVE  answer'[d] = answer[d]
<1> USE DEF TypeOK, Goto, Return, Enter
<1>1. CASE StartCall(c)
  BY <1>1 DEF StartCall, RunToStop, Interrupt, HaltNow, PollStop
<1>2. CASE RaiseGen(c) \/ Issue(c) \/ Arm(c) \/ TimerFires(c) \/ WakeUp(c) \/ Fn(c)
  BY <1>2 DEF RaiseGen, Issue, Arm, TimerFires, WakeUp, Fn
<1>3. CASE ProbeRunning(c) \/ HaltRPC(c)
  BY <1>3 DEF ProbeRunning, HaltRPC, HaltDone, HaltFailed
<1>4. CASE CheckRunning(c) \/ Spawn(c)
  BY <1>4 DEF CheckRunning, Spawn, Started
<1>5. CASE Receive(c) \/ Poll(c)
  BY <1>5 DEF Receive, Poll, TakeStop
<1> QED BY <1>1, <1>2, <1>3, <1>4, <1>5 DEF CallStep

\* A resumer's operation is over once it has started its execution, or has seen
\* the target run.
LEMMA ResumerMoves ==
  ASSUME TypeOK, NEW c \in Caller, CallStep(c), pc[c] \in {"check", "spawn"},
         call[c].op = "StartRun"
  PROVE  /\ pc'[c] \in {"idle", "spawn"}
         /\ pc'[c] = "spawn" => call'[c].op = "StartRun"
         /\ CheckRunning(c) \/ Spawn(c)
<1>1. /\ pc \in [Caller -> Label] /\ call \in [Caller -> Call]
  BY DEF TypeOK
<1>2. CheckRunning(c) \/ Spawn(c)
  BY DEF CallStep, RaiseGen, ProbeRunning, HaltRPC, Issue, Arm, Receive, TimerFires, WakeUp,
         Fn, Poll
<1>3. ASSUME NEW r, Started(c, r) PROVE pc'[c] = "idle"
  BY <1>1, <1>3 DEF Started, Return
<1> QED BY <1>1, <1>2, <1>3 DEF CheckRunning, Spawn, Goto

\* What Main does to the control: it starts a call, or leaves callers and
\* generation alone and every execution but those a closed connection ends.
MainCalls ==
  \/ StartCall(Main)
  \/ UNCHANGED <<callerVars, gen>> /\ (UNCHANGED run \/ LoseConnection)

\* presentStop does so.
LEMMA PresentCalls ==
  ASSUME NEW kind, Present(kind)
  PROVE  MainCalls
BY DEF Present, SaysGone, StartCall, MainCalls, vars, serverVars, chanVars

\* So does everything else Main does.
LEMMA MainOnlyCalls ==
  ASSUME MainStep \/ Input
  PROVE  MainCalls
<1> USE DEF MainCalls, StartCall, vars, serverVars, chanVars
<1>1. CASE PresentStop
  BY <1>1, PresentCalls DEF PresentStop
<1>2. CASE TraceHit
  BY <1>2 DEF TraceHit, Command
<1>3. CASE OnceRemoved \/ Halted \/ Resolved \/ Inspected \/ Asked \/ HaltedForKill \/ QuitDone
  BY <1>3 DEF OnceRemoved, Halted, Resolved, Inspected, Asked, HaltedForKill, QuitDone
<1>4. CASE Killed
  BY <1>4 DEF Killed
<1>5. CASE ScriptEnds \/ LoopTop \/ EndOfInput
  BY <1>5 DEF ScriptEnds, LoopTop, EndOfInput, Leave
<1>6. CASE Polled
  BY <1>6, PresentCalls DEF Polled
<1>7. ASSUME NEW cmd \in Command, CmdBlocking(cmd) PROVE MainCalls
  BY <1>7 DEF CmdBlocking
<1>8. CASE CmdHalt \/ CmdInspect \/ CmdStatus \/ CmdLocal \/ CmdQuit \/ CmdKill
  BY <1>8 DEF CmdHalt, CmdInspect, CmdStatus, CmdLocal, CmdQuit, CmdKill
<1> QED BY <1>1, <1>2, <1>3, <1>4, <1>5, <1>6, <1>7, <1>8 DEF MainStep, Input

\* Main's own steps and its Quit: it is in Quit only while its command is a quit,
\* and in the control only while its command is one that calls it.
LEMMA MainPlacedStep ==
  ASSUME SoundInv, MainPlaced, MainStep \/ Input
  PROVE  /\ MainPlaced'
         /\ handler' = handler /\ quit'["handler"] = quit["handler"]
         /\ quit'["main"] = "no" => quit["main"] \in {"no", "closed", "failed"}
         /\ quit'["main"] # "no" => quit'["main"] \in {quit["main"], "probe"}
         /\ quit'["main"] = "probe" => quit["main"] \in {"no", "probe"}
<1> DEFINE Result ==
  /\ MainPlaced'
  /\ handler' = handler /\ quit'["handler"] = quit["handler"]
  /\ quit'["main"] = "no" => quit["main"] \in {"no", "closed", "failed"}
  /\ quit'["main"] # "no" => quit'["main"] \in {quit["main"], "probe"}
  /\ quit'["main"] = "probe" => quit["main"] \in {"no", "probe"}
<1>1. quit \in [Quitter -> QuitState]
  BY DEF SoundInv, OwnTypeOK
\* The steps that leave Quit alone.
<1>2. ASSUME UNCHANGED <<handler, quit>>, work # "quitting",
             \/ work' \notin {"none", "quitting", "detaching"}
             \/ work' # "quitting" /\ pc[Main] = "idle" /\ UNCHANGED callerVars
      PROVE  Result
  BY <1>2 DEF MainPlaced, callerVars
<1>3. CASE PresentStop \/ Polled
  <2>1. ASSUME NEW kind, Present(kind)
        PROVE  work' = "removing" \/ (work' = "none" /\ UNCHANGED callerVars)
    BY <2>1 DEF Present, Complete, vars
  <2>2. \/ work' = "removing"
        \/ work' = "none" /\ UNCHANGED callerVars
    BY <1>3, <2>1 DEF PresentStop, Polled, vars
  <2>3. UNCHANGED <<handler, quit>> /\ work # "quitting" /\ pc[Main] = "idle"
    BY <1>3 DEF PresentStop, Polled, Back
  <2> QED BY <1>2, <2>2, <2>3
<1>4. CASE TraceHit \/ Resolved
  <2>1. \/ work' \in {"blocking", "inspecting"}
        \/ work' = "none" /\ UNCHANGED callerVars
    BY <1>4 DEF TraceHit, Resolved, Back, Complete, vars
  <2>2. UNCHANGED <<handler, quit>> /\ work # "quitting" /\ pc[Main] = "idle"
    BY <1>4 DEF TraceHit, Resolved, Back
  <2> QED BY <1>2, <2>1, <2>2
<1>5. CASE OnceRemoved \/ Halted \/ Inspected \/ Asked \/ HaltedForKill
  BY <1>2, <1>5 DEF OnceRemoved, Halted, Inspected, Asked, HaltedForKill, Back, Complete, vars
<1>6. CASE Killed
  BY <1>2, <1>6 DEF Killed, Complete, MainPlaced
<1>7. CASE QuitDone
  <2>1. quit["main"] \in {"closed", "failed"} /\ quit' = [quit EXCEPT !["main"] = "no"]
        /\ work = "quitting" /\ work' = "none" /\ UNCHANGED callerVars /\ UNCHANGED handler
    BY <1>7 DEF QuitDone, Complete, vars
  <2>2. quit'["main"] = "no" /\ quit'["handler"] = quit["handler"]
    BY <1>1, <2>1 DEF Quitter
  <2> QED BY <2>1, <2>2 DEF MainPlaced, callerVars
\* The beginning of a Quit.
<1>8. ASSUME BeginQuit, work = "none", UNCHANGED <<vars, handler>>
      PROVE  Result
  <2>1. quit["main"] = "no" /\ pc'[Main] = "idle"
    BY <1>8 DEF MainPlaced, vars, callerVars
  <2>2. CASE UNCHANGED <<work, quit>>
    BY <1>8, <2>1, <2>2 DEF MainPlaced
  <2>3. CASE quit' = [quit EXCEPT !["main"] = "probe"] /\ work' = "quitting"
    <3>1. quit'["main"] = "probe" /\ quit'["handler"] = quit["handler"]
      BY <1>1, <2>3 DEF Quitter
    <3> QED BY <1>8, <2>1, <2>3, <3>1 DEF MainPlaced
  <2> QED BY <1>8, <2>2, <2>3 DEF BeginQuit
<1>9. ASSUME Leave, work = "none" PROVE Result
  BY <1>2, <1>9 DEF Leave, MainPlaced
<1>10. CASE ScriptEnds
  <2>1. ASSUME Hold, UNCHANGED <<vars, handler, work, quit>>, work = "none" PROVE Result
    BY <1>2, <2>1 DEF MainPlaced, vars
  <2> QED BY <1>8, <1>9, <1>10, <2>1 DEF ScriptEnds
<1>11. CASE LoopTop
  BY <1>2, <1>9, <1>11 DEF LoopTop
<1>12. CASE EndOfInput
  BY <1>9, <1>12 DEF EndOfInput
<1>13. ASSUME NEW cmd \in Command, CmdBlocking(cmd) PROVE Result
  BY <1>2, <1>13 DEF CmdBlocking, AtPrompt, Complete, MainPlaced, vars
<1>14. CASE CmdHalt \/ CmdKill \/ CmdLocal
  BY <1>2, <1>14 DEF CmdHalt, CmdKill, CmdLocal, AtPrompt, Complete, MainPlaced, vars
<1>15. CASE CmdInspect \/ CmdStatus
  BY <1>2, <1>15 DEF CmdInspect, CmdStatus, AtPrompt
<1>16. CASE CmdQuit
  BY <1>8, <1>16 DEF CmdQuit, AtPrompt
<1> QED BY <1>3, <1>4, <1>5, <1>6, <1>7, <1>10, <1>11, <1>12, <1>13, <1>14, <1>15, <1>16
        DEF MainStep, Input

\* Without SIGINT the handler never moves, so the steps that are left are these.
LEMMA WhoMoves ==
  ASSUME ~Signal, Placed, [ConsoleNext]_allVars
  PROVE  \/ MainStep \/ Input
         \/ (\E c \in Caller : CallStep(c)) /\ UNCHANGED consoleVars
         \/ (\E r \in RunId : PostStep(r)) /\ UNCHANGED consoleVars
         \/ Server /\ UNCHANGED consoleVars
         \/ GuardFires \/ GuardStep
         \/ QuitStep("main")
         \/ UNCHANGED allVars
<1>1. ~HandlerStep /\ ~QuitStep("handler")
  BY DEF Placed, HandlerWaits, HandlerStep, Interrupted, AbortWaits, AbortGuard, QuitStep,
         QuitProbe, QuitPoll, QuitClose
<1> QED BY <1>1 DEF ConsoleNext, ControlStep, Quitter

\* A lost connection stays lost.
LEMMA LostIsFinal ==
  ASSUME conn = "lost", [ConsoleNext]_allVars
  PROVE  conn' = "lost"
<1>1. CASE [Next]_vars
  <2>1. CASE ServerNext
    BY <2>1 DEF ServerNext, Accept, Finish, OtherClient, LoseConnection
  <2>2. CASE HaltTarget
    BY <2>2 DEF HaltTarget
  <2>3. ASSUME NEW c \in Caller, Spawn(c) \/ TakeStop(c) PROVE conn' = conn
    BY <2>3 DEF Spawn, TakeStop
  <2>4. ASSUME NEW r \in RunId, PostStep(r) PROVE conn' = conn
    BY <2>4 DEF PostStep, PostCheck, PostSend, PostClear, PostRetry
  <2> QED BY <1>1, <2>1, <2>2, <2>3, <2>4, ServerSteps DEF serverVars
<1>2. CASE \E q \in Quitter : StartsRun(ResumerOf(q))
  BY <1>2 DEF StartsRun, serverVars
<1> QED BY <1>1, <1>2, ConsoleSteps DEF Kills

\* A step of a caller under way leaves everybody in place.
LEMMA CallPlaced ==
  ASSUME SoundInv, Placed, [ConsoleNext]_allVars,
         NEW c \in Caller, CallStep(c), UNCHANGED consoleVars
  PROVE  Placed'
<1> USE DEF Placed
<1>1. TypeOK /\ CallInv /\ pc \in [Caller -> Label]
  BY DEF SoundInv, ControlInv, TypeOK
<1>2. pc[c] # "idle" /\ \A d \in Caller : d # c => pc'[d] = pc[d] /\ call'[d] = call[d]
  BY <1>1, CallMoves, CallerFrame
<1>3. c \in {Main, Guard, MainResumer}
  BY <1>2 DEF OthersIdle
<1>4. OthersIdle' /\ HandlerWaits'
  BY <1>2, <1>3 DEF OthersIdle, HandlerWaits, consoleVars
<1>5. MainPlaced'
  BY <1>2 DEF MainPlaced, consoleVars
<1>6. GuardPlaced'
  BY <1>1, <1>2, CallMoves DEF GuardPlaced
<1>7. ResumerPlaced'
  <2>1. (quit["main"] \in {"poll", "close"} \/ conn = "lost")
          => (quit'["main"] \in {"poll", "close"} \/ conn' = "lost")
    BY LostIsFinal DEF consoleVars
  <2>2. CASE c = MainResumer
    <3>1. pc[c] \in {"check", "spawn"} /\ call[c].op = "StartRun"
      BY <1>2, <2>2 DEF ResumerPlaced
    <3> QED BY <1>1, <2>1, <2>2, <3>1, ResumerMoves DEF ResumerPlaced
  <2>3. CASE c # MainResumer
    BY <1>2, <2>1, <2>3 DEF ResumerPlaced
  <2> QED BY <2>2, <2>3
<1> QED BY <1>4, <1>5, <1>6, <1>7

\* A call Main starts leaves everybody else in place.
LEMMA StartPlaced ==
  ASSUME SoundInv, Placed, [ConsoleNext]_allVars, MainStep \/ Input
  PROVE  Placed'
<1> USE DEF Placed
<1>1. TypeOK /\ pc \in [Caller -> Label]
  BY DEF SoundInv, ControlInv, TypeOK
<1>2. \A d \in Caller : d # Main => pc'[d] = pc[d] /\ call'[d] = call[d]
  BY <1>1, MainOnlyCalls, CallerFrame DEF MainCalls, callerVars
<1>3. OthersIdle' /\ GuardPlaced'
  BY <1>2 DEF OthersIdle, GuardPlaced
<1>4. HandlerWaits' /\ MainPlaced'
  BY MainPlacedStep DEF HandlerWaits
<1>5. ResumerPlaced'
  <2>1. ASSUME quit["main"] \in {"poll", "close"} PROVE quit'["main"] \in {"poll", "close"}
    BY <2>1, MainPlacedStep
  <2> QED BY <1>2, <2>1, LostIsFinal DEF ResumerPlaced
<1> QED BY <1>3, <1>4, <1>5

\* So does a step of Main's Quit: the resumer starts when Quit polls, and what it
\* has not sent by the time Quit has closed the connection is lost.
LEMMA QuitPlaced ==
  ASSUME SoundInv, Placed, QuitStep("main")
  PROVE  Placed'
<1> USE DEF Placed
<1>1. /\ pc \in [Caller -> Label] /\ call \in [Caller -> Call] /\ conn \in {"open", "lost"}
      /\ quit \in [Quitter -> QuitState]
  BY DEF SoundInv, OwnTypeOK, ControlInv, TypeOK, ServerTypeOK
<1>2. quit["main"] # "no" /\ work = "quitting" /\ pc[Main] = "idle"
  BY DEF QuitStep, QuitProbe, QuitPoll, QuitClose, MainPlaced
<1>3. UNCHANGED <<work, handler>>
  BY DEF QuitStep, QuitProbe, QuitPoll, QuitClose
<1>4. ASSUME NEW q, quit' = [quit EXCEPT !["main"] = q]
      PROVE  quit'["main"] = q /\ quit'["handler"] = quit["handler"]
  BY <1>1, <1>4 DEF Quitter
<1>5. quit'["handler"] = quit["handler"]
  BY <1>4 DEF QuitStep, QuitProbe, QuitPoll, QuitClose
<1>6. CASE StartsRun(MainResumer) /\ quit'["main"] = "poll"
  <2>1. pc'[MainResumer] = "check" /\ call'[MainResumer].op = "StartRun"
    BY <1>1, <1>6 DEF StartsRun, Enter, NoCall
  <2>2. \A d \in Caller : d # MainResumer => pc'[d] = pc[d] /\ call'[d] = call[d]
    BY <1>1, <1>6 DEF StartsRun, Enter
  <2>3. OthersIdle' /\ GuardPlaced'
    BY <2>2 DEF OthersIdle, GuardPlaced
  <2>4. HandlerWaits' /\ MainPlaced'
    BY <1>2, <1>3, <1>5, <2>2 DEF HandlerWaits, MainPlaced
  <2> QED BY <1>6, <2>1, <2>3, <2>4 DEF ResumerPlaced
<1>7. CASE UNCHANGED <<pc, call>> /\ pc[MainResumer] = "idle"
  BY <1>2, <1>3, <1>5, <1>7 DEF OthersIdle, GuardPlaced, HandlerWaits, MainPlaced, ResumerPlaced
<1>8. CASE UNCHANGED <<pc, call>> /\ (quit'["main"] \in {"poll", "close"} \/ conn' = "lost")
  BY <1>2, <1>3, <1>5, <1>8 DEF OthersIdle, GuardPlaced, HandlerWaits, MainPlaced, ResumerPlaced
<1>9. CASE QuitProbe("main")
  <2>1. CASE StartsRun(MainResumer) /\ quit' = [quit EXCEPT !["main"] = "poll"]
    BY <1>4, <1>6, <2>1
  <2>2. CASE UNCHANGED callerVars /\ quit' = [quit EXCEPT !["main"] = "close"]
    BY <1>4, <1>8, <2>2 DEF callerVars
  <2> QED BY <1>9, <2>1, <2>2 DEF QuitProbe, StartsRun, ResumerOf
<1>10. CASE QuitPoll("main")
  BY <1>4, <1>8, <1>10 DEF QuitPoll, vars, callerVars
<1>11. CASE QuitClose("main")
  BY <1>8, <1>11 DEF QuitClose, LoseConnection, serverVars, callerVars
<1> QED BY <1>9, <1>10, <1>11 DEF QuitStep

\* The guard's timer and callback leave everybody else in place.
LEMMA GuardStepPlaced ==
  ASSUME SoundInv, Placed, [ConsoleNext]_allVars, GuardFires \/ GuardStep
  PROVE  Placed'
<1> USE DEF Placed
<1>1. TypeOK /\ pc \in [Caller -> Label] /\ call \in [Caller -> Call]
  BY DEF SoundInv, ControlInv, TypeOK
<1>2. UNCHANGED <<work, handler, quit>>
  BY DEF GuardFires, GuardStep, GuardResumes, GuardReturns
<1>3. CASE UNCHANGED vars
  BY <1>2, <1>3, LostIsFinal DEF OthersIdle, HandlerWaits, MainPlaced, GuardPlaced, ResumerPlaced,
                                 vars, callerVars
<1>4. CASE RunToStop(Guard, "continue", FALSE)
  <2>1. StartCall(Guard)
    BY <1>4 DEF StartCall, Command
  <2>2. \A d \in Caller : d # Guard => pc'[d] = pc[d] /\ call'[d] = call[d]
    BY <1>1, <2>1, CallerFrame
  <2>3. pc'[Guard] # "idle" => call'[Guard].op = "RunToStop"
    BY <1>1, <1>4 DEF RunToStop, Return, Enter, NoCall
  <2> QED BY <1>2, <2>2, <2>3, LostIsFinal
          DEF OthersIdle, HandlerWaits, MainPlaced, GuardPlaced, ResumerPlaced
<1> QED BY <1>3, <1>4 DEF GuardFires, GuardStep, GuardResumes, GuardReturns

\* Everybody stays in place.
LEMMA PlacedStep ==
  ASSUME ~Signal, SoundInv, Placed, [ConsoleNext]_allVars
  PROVE  Placed'
<1>1. ASSUME UNCHANGED <<pc, call, consoleVars>> PROVE Placed'
  BY <1>1, LostIsFinal DEF Placed, OthersIdle, HandlerWaits, MainPlaced, GuardPlaced,
                           ResumerPlaced, consoleVars
<1>2. ASSUME NEW r \in RunId, PostStep(r), UNCHANGED consoleVars PROVE Placed'
  BY <1>1, <1>2 DEF PostStep, PostCheck, PostSend, PostClear, PostRetry, callerVars
<1>3. CASE Server /\ UNCHANGED consoleVars
  BY <1>1, <1>3 DEF Server, callerVars
<1>4. CASE UNCHANGED allVars
  BY <1>1, <1>4 DEF allVars, vars, callerVars
<1> QED BY <1>2, <1>3, <1>4, WhoMoves, CallPlaced, StartPlaced, QuitPlaced, GuardStepPlaced

----------------------------------------------------------------------------
(* A command ends with its own stop: what may still answer. *)

\* An execution that can only answer that the connection is lost.
LostRun(r) == run[r].reply = "lost" \/ (run[r].st = "issued" /\ conn = "lost")

OnlyLostLive == \A r \in RunId : Live(r) => LostRun(r)

\* As long as the guard has not called: from Main's halt() to the start of its
\* next execution nothing but a lost execution is live, a waiting RunToStop of
\* Main compares with the current generation, and then only its own or a lost
\* one is.
MainInv ==
  /\ pc[Main] \in {"probe", "halt", "fn", "issue", "check", "spawn"} => OnlyLostLive
  /\ pc[Main] \in {"arm", "select"}
       => /\ call[Main].gen = gen
          /\ \A r \in RunId : Live(r) => r = call[Main].mine \/ LostRun(r)
  /\ pc[Main] \in {"check", "spawn"} /\ call[Main].op = "RunToStop" => call[Main].gen = gen

\* A lost execution stays one.
LEMMA LostStays ==
  ASSUME SoundInv, [ConsoleNext]_allVars, NEW r \in RunId, LostRun(r)
  PROVE  LostRun(r)'
<1> USE DEF LostRun
<1>1. /\ TypeOK /\ ServerInv /\ ReportedOnce
      /\ run \in [RunId -> Run] /\ conn \in {"open", "lost"}
  BY DEF SoundInv, ControlInv, TypeOK, ServerTypeOK
<1>2. run[r].st \in {"unused", "issued", "executing"} => run[r].reply = "none"
  BY <1>1 DEF ServerInv
<1>3. CASE UNCHANGED run
  BY <1>3, LostIsFinal
<1>4. ASSUME run'[r].st = run[r].st, run'[r].reply = run[r].reply PROVE LostRun(r)'
  BY <1>4, LostIsFinal
<1>5. ASSUME run'[r].reply = run[r].reply, run[r].st # "issued" PROVE LostRun(r)'
  BY <1>5
<1>6. CASE HaltTarget \/ LoseConnection
  <2>1. run[r].st # "executing"
    BY <1>2, <1>6 DEF HaltTarget, LoseConnection
  <2> QED BY <1>1, <1>4, <1>6, <2>1, HaltUpdate, LoseUpdate
<1>7. ASSUME NEW q \in RunId, Accept(q) PROVE LostRun(r)'
  <2>1. CASE q = r
    <3>1. conn = "lost" /\ run' = [run EXCEPT ![r].st = "returned", ![r].reply = "lost"]
      BY <1>2, <1>7, <2>1 DEF Accept
    <3> QED BY <1>1, <3>1, ReplyUpdate
  <2>2. CASE q # r
    <3>1. run'[r] = run[r]
      BY <1>1, <1>7, <2>2 DEF Accept
    <3> QED BY <1>4, <3>1
  <2> QED BY <2>1, <2>2
<1>8. ASSUME NEW q \in RunId, NEW why \in Reply, Finish(q, why) PROVE LostRun(r)'
  <2>1. q # r
    BY <1>2, <1>8 DEF Finish
  <2>2. run'[r] = run[r]
    BY <1>1, <1>8, <2>1 DEF Finish
  <2> QED BY <1>4, <2>2
<1>9. CASE OtherClient
  BY <1>3, <1>9 DEF OtherClient
<1>10. ASSUME NEW c \in Caller, Spawn(c) PROVE LostRun(r)'
  <2>1. PICK q \in Fresh :
          run' = [run EXCEPT ![q] = [st |-> "issued", cmd |-> call[c].cmd,
                                     gen |-> gen, reply |-> "none"]]
    BY <1>10 DEF Spawn
  <2>2. q # r
    BY <1>2 DEF Fresh
  <2> QED BY <1>1, <1>4, <2>1, <2>2
<1>11. ASSUME NEW c \in Caller, TakeStop(c) PROVE LostRun(r)'
  BY <1>1, <1>4, <1>5, <1>11, TakeStopUpdate
<1>12. ASSUME NEW q \in RunId, PostStep(q) PROVE LostRun(r)'
  <2>1. \/ run'[r].reply = run[r].reply /\ run[r].st # "issued"
        \/ run'[r].reply = run[r].reply /\ run'[r].st = run[r].st
        \/ run[r].st \in {"issued", "executing"}
    BY <1>1, <1>12, BackgroundStep
  <2>2. CASE run[r].st \in {"issued", "executing"}
    <3>1. CASE PostCheck(q)
      <4>1. q # r /\ \E s : run' = [run EXCEPT ![q].st = s]
        BY <2>2, <3>1 DEF PostCheck
      <4> QED BY <1>1, <1>4, <4>1, StUpdate
    <3>2. CASE Posts(q)
      <4>1. Clears(q) => run[Head(stopCh)].st = "queued"
        BY <1>1, HeadElem DEF Clears, ReportedOnce, TypeOK
      <4> QED BY <1>1, <1>4, <2>2, <3>2, <4>1, PostUpdate
    <3> QED BY <1>12, <3>1, <3>2 DEF PostStep, Posts
  <2> QED BY <1>4, <1>5, <2>1, <2>2
<1>13. CASE [Next]_vars
  BY <1>3, <1>6, <1>7, <1>8, <1>9, <1>10, <1>11, <1>12, <1>13, ServerSteps
     DEF ServerNext, serverVars
<1>14. ASSUME NEW q \in Quitter, StartsRun(ResumerOf(q)) PROVE LostRun(r)'
  BY <1>3, <1>14 DEF StartsRun, serverVars
<1> QED BY <1>3, <1>13, <1>14, ConsoleSteps DEF Kills

\* Only a Spawn makes an execution live.
LEMMA NoNewLive ==
  ASSUME SoundInv, [Next]_vars, UNCHANGED gen, \A c \in Caller : ~Spawn(c)
  PROVE  \A r \in RunId : Live(r)' => Live(r)
<1>1. /\ TypeOK /\ ServerInv /\ ReportedOnce
      /\ run \in [RunId -> Run] /\ gen \in Nat /\ \A r \in RunId : run[r].gen \in Nat
  BY DEF SoundInv, ControlInv, TypeOK, ServerTypeOK, Run
<1>2. CASE UNCHANGED serverVars
  BY <1>2 DEF Live, serverVars
<1>3. CASE HaltTarget
  BY <1>1, <1>3, HaltUpdate DEF Live
<1>4. CASE ServerNext \/ \E r \in RunId : PostStep(r)
  BY <1>1, <1>4, BackgroundStep DEF Live
<1>5. ASSUME NEW c \in Caller, TakeStop(c) PROVE \A r \in RunId : Live(r)' => Live(r)
  BY <1>1, <1>5, TakeStopUpdate DEF Live
<1> QED BY <1>2, <1>3, <1>4, <1>5, ServerSteps

\* Steps of anybody else that leave Main and the generation alone, and make at
\* most a lost execution live.
LEMMA MainInvFrame ==
  ASSUME SoundInv, MainInv, [ConsoleNext]_allVars,
         pc'[Main] = pc[Main], call'[Main] = call[Main], gen' = gen,
         \A r \in RunId : Live(r)' => Live(r) \/ LostRun(r)'
  PROVE  MainInv'
<1>1. \A r \in RunId : LostRun(r) => LostRun(r)'
  BY LostStays
<1> QED BY <1>1 DEF MainInv, OnlyLostLive

\* Main's own operations keep the generation discipline: nothing but lost
\* executions is live when it starts one.
LEMMA MainInvCall ==
  ASSUME SoundInv, MainInv, [ConsoleNext]_allVars, StartCall(Main) \/ CallStep(Main)
  PROVE  MainInv'
<1>1. /\ pc \in [Caller -> Label] /\ call \in [Caller -> Call] /\ gen \in Nat
      /\ run \in [RunId -> Run] /\ \A r \in RunId : run[r].gen \in Nat
      /\ TypeOK /\ CallInv /\ Main \in Caller
  BY DEF SoundInv, ControlInv, TypeOK, ServerTypeOK, Run
<1>2. [Next]_vars
  BY DEF Next
\* Main returns, or starts a call, or gets to a label of no consequence.
<1>3. ASSUME pc'[Main] \in {"idle", "raise", "poll"} PROVE MainInv'
  BY <1>3 DEF MainInv
\* Main gets to one of the labels where only lost executions are live.
<1>4. ASSUME UNCHANGED gen, \A c \in Caller : ~Spawn(c), OnlyLostLive,
             pc'[Main] \in {"probe", "halt", "fn", "issue", "check", "spawn"},
             pc'[Main] \in {"check", "spawn"} /\ call'[Main].op = "RunToStop"
               => call'[Main].gen = gen
      PROVE  MainInv'
  <2>1. OnlyLostLive'
    BY <1>2, <1>4, NoNewLive, LostStays DEF OnlyLostLive
  <2> QED BY <1>4, <2>1 DEF MainInv
\* Main gets to the wait, having started nothing.
<1>5. ASSUME UNCHANGED gen, \A c \in Caller : ~Spawn(c), pc'[Main] \in {"arm", "select"},
             call'[Main].gen = gen,
             \A r \in RunId : Live(r) => r = call'[Main].mine \/ LostRun(r)
      PROVE  MainInv'
  BY <1>2, <1>5, NoNewLive, LostStays DEF MainInv
<1>6. ASSUME NEW label, Goto(Main, label) PROVE pc'[Main] = label
  BY <1>1, <1>6 DEF Goto
<1>7. ASSUME NEW kind, NEW r, Return(Main, kind, r) PROVE pc'[Main] = "idle"
  BY <1>1, <1>7 DEF Return
<1>8. CASE StartCall(Main)
  <2>1. ASSUME NEW op, NEW label, Enter(Main, op, label) PROVE pc'[Main] = label
    BY <1>1, <2>1 DEF Enter
  <2>2. pc'[Main] \in {"idle", "raise", "poll"}
    BY <1>7, <1>8, <2>1 DEF StartCall, RunToStop, Interrupt, HaltNow, PollStop
  <2> QED BY <1>3, <2>2
<1>9. CASE RaiseGen(Main)
  <2>1. gen' = gen + 1 /\ UNCHANGED run /\ pc'[Main] = "probe"
    BY <1>6, <1>9 DEF RaiseGen, NextGen, serverVars
  <2>2. \A r \in RunId : ~Live(r)'
    BY <1>1, <2>1 DEF Live, CallInv
  <2> QED BY <2>1, <2>2 DEF MainInv, OnlyLostLive
\* Every other step but Spawn leaves the generation alone and starts nothing.
<1>10. ASSUME pc[Main] \notin {"idle", "spawn"} PROVE \A c \in Caller : ~Spawn(c)
  <2>1. ASSUME NEW c \in Caller, Spawn(c) PROVE c = Main
    <3>1. CallStep(c) /\ pc[c] = "spawn"
      BY <2>1 DEF CallStep, Spawn
    <3>2. CASE c # Main
      <4>1. pc'[c] = pc[c]
        BY <1>1, <1>10, <3>2, CallerFrame
      <4>2. pc'[c] # "spawn"
        <5>1. ASSUME NEW r, Started(c, r) PROVE pc'[c] \in {"arm", "idle"}
          BY <1>1, <5>1 DEF Started, Goto, Return
        <5> QED BY <2>1, <5>1 DEF Spawn
      <4> QED BY <3>1, <4>1, <4>2
    <3> QED BY <3>2
  <2> QED BY <1>10, <2>1 DEF Spawn
<1>11. ASSUME NEW halted, HaltDone(Main, halted)
       PROVE  pc'[Main] \in {"issue", "fn", "idle"}
  BY <1>6, <1>7, <1>11 DEF HaltDone
<1>12. CASE ProbeRunning(Main)
  <2>1. pc[Main] = "probe" /\ UNCHANGED gen
    BY <1>12 DEF ProbeRunning, chanVars
  <2>2. pc'[Main] \in {"halt", "issue", "fn", "idle"}
    BY <1>6, <1>11, <1>12 DEF ProbeRunning
  <2> QED BY <1>3, <1>4, <1>10, <2>1, <2>2 DEF MainInv
<1>13. CASE HaltRPC(Main)
  <2>1. pc[Main] = "halt" /\ UNCHANGED gen
    BY <1>13 DEF HaltRPC, chanVars
  <2>2. pc'[Main] \in {"issue", "fn", "idle"}
    BY <1>7, <1>11, <1>13 DEF HaltRPC, HaltFailed
  <2> QED BY <1>3, <1>4, <1>10, <2>1, <2>2 DEF MainInv
<1>14. CASE Issue(Main)
  <2>1. pc[Main] = "issue" /\ UNCHANGED gen
    BY <1>14 DEF Issue, chanVars
  <2>2. pc'[Main] \in {"check", "spawn"} /\ call'[Main].gen = gen
    BY <1>1, <1>6, <1>14 DEF Issue, ReadGen, Call
  <2> QED BY <1>4, <1>10, <2>1, <2>2 DEF MainInv
<1>15. CASE CheckRunning(Main)
  <2>1. pc[Main] = "check" /\ UNCHANGED gen /\ OnlyLostLive /\ \A c \in Caller : ~Spawn(c)
    BY <1>10, <1>15 DEF CheckRunning, chanVars, MainInv
  <2>2. CASE Goto(Main, "spawn") /\ UNCHANGED call
    <3>1. pc'[Main] = "spawn" /\ call'[Main] = call[Main]
      BY <1>6, <2>2
    <3> QED BY <1>4, <2>1, <3>1 DEF MainInv
  <2>3. CASE Return(Main, "ok", NoRun)
    BY <1>3, <1>7, <2>3
  <2>4. CASE /\ call[Main].op = "RunToStop" /\ Goto(Main, "arm")
             /\ call' = [call EXCEPT ![Main].mine = NoRun]
    <3>1. pc'[Main] = "arm" /\ call'[Main].gen = call[Main].gen
      BY <1>1, <1>6, <2>4 DEF Call
    <3>2. call[Main].gen = gen
      BY <2>1, <2>4 DEF MainInv
    <3> QED BY <1>5, <2>1, <3>1, <3>2 DEF OnlyLostLive
  <2> QED BY <1>15, <2>2, <2>3, <2>4 DEF CheckRunning, Started
<1>16. CASE Spawn(Main)
  <2>1. UNCHANGED gen /\ OnlyLostLive
    BY <1>16 DEF Spawn, chanVars, MainInv
  <2>2. PICK q \in Fresh : /\ run' = [run EXCEPT ![q] = [st |-> "issued", cmd |-> call[Main].cmd,
                                                       gen |-> gen, reply |-> "none"]]
                           /\ Started(Main, q)
    BY <1>16 DEF Spawn
  <2>3. ASSUME NEW r \in RunId, Live(r)', r # q PROVE LostRun(r)'
    <3>1. Live(r)
      BY <1>1, <2>1, <2>2, <2>3 DEF Live
    <3> QED BY <2>1, <3>1, LostStays DEF OnlyLostLive
  <2>4. CASE Return(Main, "ok", NoRun)
    BY <1>3, <1>7, <2>4
  <2>5. CASE /\ call[Main].op = "RunToStop" /\ Goto(Main, "arm")
             /\ call' = [call EXCEPT ![Main].mine = q]
    <3>1. pc'[Main] = "arm" /\ call'[Main].gen = call[Main].gen /\ call'[Main].mine = q
      BY <1>1, <1>6, <2>5 DEF Call
    <3>2. call[Main].gen = gen
      BY <1>16, <2>5 DEF Spawn, MainInv
    <3> QED BY <2>1, <2>3, <3>1, <3>2 DEF MainInv
  <2> QED BY <2>2, <2>4, <2>5 DEF Started
<1>17. CASE Arm(Main)
  <2>1. /\ pc[Main] = "arm" /\ pc'[Main] = "select" /\ UNCHANGED gen
        /\ call'[Main] = call[Main]
    BY <1>6, <1>17 DEF Arm, chanVars
  <2> QED BY <1>5, <1>10, <2>1 DEF MainInv
<1>18. CASE Receive(Main)
  <2>1. pc[Main] = "select" /\ UNCHANGED gen
    BY <1>18 DEF Receive, TakeStop
  <2>2. \/ pc'[Main] = "idle"
        \/ pc'[Main] = "select" /\ call'[Main] = call[Main]
    BY <1>6, <1>7, <1>18, <2>1 DEF Receive, TakeStop
  <2> QED BY <1>3, <1>5, <1>10, <2>1, <2>2 DEF MainInv
<1>19. CASE Poll(Main)
  <2>1. pc'[Main] \in {"idle", "poll"}
    BY <1>6, <1>7, <1>19 DEF Poll, TakeStop
  <2> QED BY <1>3, <2>1
<1>20. CASE TimerFires(Main)
  BY <1>3, <1>6, <1>20 DEF TimerFires
<1>21. CASE WakeUp(Main)
  BY <1>3, <1>7, <1>21 DEF WakeUp
<1>22. CASE Fn(Main)
  <2>1. pc[Main] = "fn" /\ UNCHANGED gen /\ call[Main].op = "Interrupt"
    BY <1>1, <1>22 DEF Fn, chanVars, CallInv
  <2>2. pc'[Main] = "idle" \/ (pc'[Main] = "check" /\ UNCHANGED call)
    BY <1>6, <1>7, <1>22 DEF Fn
  <2> QED BY <1>3, <1>4, <1>10, <2>1, <2>2 DEF MainInv
<1> QED BY <1>8, <1>9, <1>12, <1>13, <1>14, <1>15, <1>16, <1>17, <1>18, <1>19, <1>20, <1>21, <1>22
        DEF CallStep

\* Once the guard has called, it has called: its answers are never NoAnswer.
LEMMA GuardStays ==
  ASSUME ~Signal, SoundInv, Placed, [ConsoleNext]_allVars, GuardUnused'
  PROVE  GuardUnused /\ ~CallStep(Guard) /\ ~StartCall(Guard)
<1>1. /\ TypeOK /\ CallInv /\ pc \in [Caller -> Label] /\ answer \in [Caller -> Answer]
      /\ Guard \in Caller /\ MainResumer \in Caller /\ MainResumer # Guard
  BY DEF SoundInv, ControlInv, TypeOK
<1>2. ~CallStep(Guard)
  <2> SUFFICES ASSUME CallStep(Guard) PROVE FALSE OBVIOUS
  <2>1. pc[Guard] # "idle" /\ pc'[Guard] = "idle" /\ answer'[Guard].kind = "none"
    BY <1>1, CallMoves DEF GuardUnused, NoAnswer
  <2>2. call[Guard].op # "PollStop"
    BY <2>1 DEF Placed, GuardPlaced
  <2> QED BY <1>1, <2>1, <2>2, CallMoves
<1>3. ~StartCall(Guard)
  <2> SUFFICES ASSUME StartCall(Guard) PROVE FALSE OBVIOUS
  <2>1. ASSUME NEW kind \in {"halted", "failed"}, Return(Guard, kind, NoRun) PROVE FALSE
    BY <1>1, <2>1 DEF Return, GuardUnused, NoAnswer
  <2>2. ASSUME NEW op, NEW label \in {"raise", "poll"}, Enter(Guard, op, label) PROVE FALSE
    BY <1>1, <2>2 DEF Enter, GuardUnused
  <2> QED BY <2>1, <2>2 DEF StartCall, RunToStop, Interrupt, HaltNow, PollStop
<1>4. ASSUME NEW c \in Caller, StartCall(c) \/ CallStep(c) PROVE GuardUnused
  BY <1>1, <1>2, <1>3, <1>4, CallerFrame, AnswerFrame DEF GuardUnused
<1>5. ASSUME UNCHANGED callerVars PROVE GuardUnused
  BY <1>5 DEF callerVars, GuardUnused
<1>6. ASSUME StartsRun(MainResumer) PROVE GuardUnused
  BY <1>1, <1>6 DEF StartsRun, Enter, GuardUnused
<1>7. ASSUME MainStep \/ Input PROVE GuardUnused
  BY <1>4, <1>5, <1>7, MainOnlyCalls DEF MainCalls
<1>8. ASSUME GuardFires \/ GuardStep PROVE GuardUnused
  <2>1. UNCHANGED vars \/ RunToStop(Guard, "continue", FALSE)
    BY <1>8 DEF GuardFires, GuardStep, GuardResumes, GuardReturns
  <2> QED BY <1>3, <1>5, <2>1 DEF StartCall, Command, vars
<1>9. ASSUME QuitStep("main") PROVE GuardUnused
  BY <1>5, <1>6, <1>9 DEF QuitStep, QuitProbe, QuitPoll, QuitClose, StartsRun, ResumerOf, vars
<1>10. ASSUME (\E r \in RunId : PostStep(r)) \/ Server \/ UNCHANGED allVars
       PROVE  GuardUnused
  BY <1>5, <1>10 DEF PostStep, PostCheck, PostSend, PostClear, PostRetry, Server, allVars, vars
<1> QED BY <1>2, <1>3, <1>4, <1>7, <1>8, <1>9, <1>10, WhoMoves

OwnStopInv == Placed /\ (GuardUnused => MainInv)

\* Nobody's step breaks it: the others leave Main and the generation alone, and
\* the resumer's execution is lost whenever Main is in the control.
LEMMA OwnStopStep ==
  ASSUME ~Signal, SoundInv, OwnStopInv, [ConsoleNext]_allVars
  PROVE  OwnStopInv'
<1> USE DEF OwnStopInv
<1>1. Placed'
  BY PlacedStep
<1>2. SUFFICES ASSUME GuardUnused' PROVE MainInv'
  BY <1>1
<1>3. GuardUnused /\ MainInv /\ ~CallStep(Guard) /\ ~StartCall(Guard)
  BY <1>2, GuardStays
<1>4. /\ TypeOK /\ CallInv /\ pc \in [Caller -> Label] /\ run \in [RunId -> Run]
      /\ Guard \in Caller /\ MainResumer \in Caller /\ MainResumer # Main
  BY DEF SoundInv, ControlInv, TypeOK, ServerTypeOK
\* Steps that start nothing and leave Main and the generation alone.
<1>5. ASSUME [Next]_vars, UNCHANGED <<gen, pc, call>>, \A c \in Caller : ~Spawn(c)
      PROVE  MainInv'
  BY <1>3, <1>5, NoNewLive, MainInvFrame
<1>6. ASSUME UNCHANGED run, UNCHANGED gen, pc'[Main] = pc[Main], call'[Main] = call[Main]
      PROVE  MainInv'
  <2>1. \A r \in RunId : Live(r)' => Live(r)
    BY <1>6 DEF Live
  <2> QED BY <1>3, <1>6, <2>1, MainInvFrame
<1>7. ASSUME LoseConnection, UNCHANGED <<gen, callerVars>> PROVE MainInv'
  <2>1. \A r \in RunId : Live(r)' => Live(r)
    BY <1>4, <1>7, LoseUpdate DEF Live
  <2> QED BY <1>3, <1>7, <2>1, MainInvFrame DEF callerVars
<1>8. CASE MainStep \/ Input
  BY <1>3, <1>6, <1>7, <1>8, MainOnlyCalls, MainInvCall DEF MainCalls, callerVars
<1>9. ASSUME NEW c \in Caller, CallStep(c) PROVE MainInv'
  <2>1. pc[c] # "idle"
    BY <1>4, <1>9, CallMoves
  <2>2. c \in {Main, MainResumer}
    BY <1>3, <1>9, <2>1 DEF Placed, OthersIdle
  <2>3. CASE c = Main
    BY <1>3, <1>9, <2>3, MainInvCall
  <2>4. CASE c = MainResumer
    <3>1. pc'[Main] = pc[Main] /\ call'[Main] = call[Main]
      BY <1>4, <1>9, <2>4, CallerFrame
    <3>2. /\ call[c].op = "StartRun" /\ pc[c] \in {"check", "spawn"}
          /\ quit["main"] \in {"poll", "close"} \/ conn = "lost"
      BY <2>1, <2>4 DEF Placed, ResumerPlaced
    <3>3. CASE CheckRunning(c)
      BY <1>6, <3>1, <3>3 DEF CheckRunning, serverVars, chanVars
    <3>4. CASE Spawn(c)
      <4>1. PICK q \in Fresh :
              run' = [run EXCEPT ![q] = [st |-> "issued", cmd |-> call[c].cmd,
                                         gen |-> gen, reply |-> "none"]]
        BY <3>4 DEF Spawn
      <4>2. UNCHANGED <<gen, conn>>
        BY <3>4 DEF Spawn, chanVars
      <4>3. \A r \in RunId : r # q => run'[r] = run[r]
        BY <1>4, <4>1
      <4>4. \A r \in RunId : Live(r)' => Live(r) \/ r = q
        BY <4>2, <4>3 DEF Live
      <4>5. CASE conn = "lost"
        <5>1. LostRun(q)'
          BY <1>4, <4>1, <4>2, <4>5 DEF LostRun, Fresh
        <5> QED BY <1>3, <3>1, <4>2, <4>4, <5>1, MainInvFrame
      <4>6. CASE quit["main"] \in {"poll", "close"}
        <5>1. pc'[Main] = "idle"
          BY <3>1, <4>6 DEF Placed, MainPlaced
        <5> QED BY <5>1 DEF MainInv
      <4> QED BY <3>2, <4>5, <4>6
    <3> QED BY <1>4, <1>9, <2>4, <3>2, <3>3, <3>4, ResumerMoves
  <2> QED BY <2>2, <2>3, <2>4
\* The background goroutines and the server.
<1>10. ASSUME ServerNext \/ \E r \in RunId : PostStep(r), UNCHANGED <<gen, pc, call>>
       PROVE  MainInv'
  <2>1. TypeOK /\ ServerInv /\ ReportedOnce /\ gen \in Nat /\ \A r \in RunId : run[r].gen \in Nat
    BY DEF SoundInv, ControlInv, TypeOK, ServerTypeOK, Run
  <2>2. \A r \in RunId : Live(r)' => Live(r)
    BY <1>10, <2>1, BackgroundStep DEF Live
  <2> QED BY <1>3, <1>10, <2>2, MainInvFrame
<1>11. ASSUME NEW r \in RunId, PostStep(r) PROVE MainInv'
  <2>1. UNCHANGED <<gen, pc, call>>
    BY <1>11 DEF PostStep, PostCheck, PostSend, PostClear, PostRetry, chanVars, callerVars
  <2> QED BY <1>10, <1>11, <2>1
<1>12. CASE Server
  BY <1>10, <1>12 DEF Server, chanVars, callerVars
<1>13. CASE GuardFires \/ GuardStep
  <2>1. UNCHANGED vars
    BY <1>3, <1>13 DEF GuardFires, GuardStep, GuardResumes, GuardReturns, StartCall, Command
  <2> QED BY <1>6, <2>1 DEF vars, serverVars, chanVars, callerVars
<1>14. CASE QuitStep("main")
  <2>1. CASE StartsRun(MainResumer)
    <3>1. pc'[Main] = pc[Main] /\ call'[Main] = call[Main]
      BY <1>4, <2>1 DEF StartsRun, Enter, TypeOK
    <3> QED BY <1>6, <2>1, <3>1 DEF StartsRun, serverVars, chanVars
  <2>2. CASE UNCHANGED <<callerVars, run, gen>>
    BY <1>6, <2>2 DEF callerVars
  <2>3. CASE LoseConnection /\ UNCHANGED <<callerVars, gen>>
    BY <1>7, <2>3
  <2> QED BY <1>14, <2>1, <2>2, <2>3
          DEF QuitStep, QuitProbe, QuitPoll, QuitClose, StartsRun, ResumerOf, vars, serverVars,
              chanVars
<1>15. CASE UNCHANGED allVars
  BY <1>6, <1>15 DEF allVars, vars, serverVars, chanVars, callerVars
<1> QED BY <1>8, <1>9, <1>11, <1>12, <1>13, <1>14, <1>15, WhoMoves

\* The session starts with everybody in place.
LEMMA OwnStopInit ==
  ASSUME ConsoleInit
  PROVE  OwnStopInv
<1>1. \A c \in Caller : pc[c] = "idle"
  BY DEF ConsoleInit, Init
<1>2. OthersIdle /\ GuardPlaced /\ ResumerPlaced
  BY <1>1 DEF OthersIdle, GuardPlaced, ResumerPlaced
<1>3. HandlerWaits /\ MainPlaced
  BY <1>1 DEF HandlerWaits, MainPlaced, ConsoleInit, Quitter
<1>4. MainInv
  BY <1>1 DEF MainInv
<1> QED BY <1>2, <1>3, <1>4 DEF OwnStopInv, Placed

\* Without SIGINT, and until the guard continues the target by itself, every
\* stop the target makes ends the very command that started it: what an earlier
\* command, a wait that timed out or a Quit that failed has left under way never
\* answers a later command. (A SIGINT's Quit resumes the target while Main may
\* be starting an execution of its own, and the guard reads the same channel.)
THEOREM CommandsGetOwnStop ==
  ASSUME ~Signal
  PROVE  ConsoleSpec => CommandsEndWithOwnStop
<1> DEFINE Own == GuardUnused /\ Returns(Main, "RunToStop") /\ answer'[Main].run # NoRun
                    => \/ answer'[Main].run = call[Main].mine
                       \/ run[answer'[Main].run].reply = "lost"
<1>1. ConsoleInit => OwnStopInv
  BY OwnStopInit
<1>2. SoundInv /\ OwnStopInv /\ [ConsoleNext]_allVars => OwnStopInv'
  BY OwnStopStep
<1>3. ASSUME SoundInv, OwnStopInv, [ConsoleNext]_allVars PROVE Own
  <2>1. SUFFICES ASSUME GuardUnused, Returns(Main, "RunToStop"), answer'[Main].run # NoRun
                 PROVE  \/ answer'[Main].run = call[Main].mine
                        \/ run[answer'[Main].run].reply = "lost"
    OBVIOUS
  <2> DEFINE r == Head(stopCh)
  <2>2. TypeOK /\ CallInv /\ ReportedOnce /\ Main \in Caller /\ pc \in [Caller -> Label]
        /\ MainResumer # Main
    BY <1>3 DEF SoundInv, ControlInv, TypeOK
  <2>3. [Next]_vars
    <3>1. pc'[Main] # pc[Main]
      BY <2>1 DEF Returns
    <3>2. ~Kills
      BY <3>1 DEF Kills, callerVars
    <3>3. ASSUME NEW q \in Quitter PROVE ~StartsRun(ResumerOf(q))
      BY <2>2, <3>1 DEF StartsRun, Enter, ResumerOf
    <3> QED BY <1>3, <3>2, <3>3, ConsoleSteps
  <2>4. pc[Main] = "select" /\ TakeStop(Main) /\ answer'[Main].run = r
        /\ run[r].gen >= call[Main].gen
    BY <2>1, <2>2, <2>3, AnswerIsReceived
  <2>5. r \in RunId /\ run[r].st = "queued"
    BY <2>2, <2>4, TakeStopUpdate
  <2>6. /\ call[Main].gen = gen
        /\ \A q \in RunId : Live(q) => q = call[Main].mine \/ LostRun(q)
    BY <1>3, <2>1, <2>4 DEF OwnStopInv, MainInv
  <2>7. Live(r)
    BY <2>4, <2>5, <2>6 DEF Live
  <2> QED BY <2>4, <2>5, <2>6, <2>7 DEF LostRun
<1>4. SoundInv /\ OwnStopInv /\ [ConsoleNext]_allVars => [Own]_allVars
  BY <1>3
<1> QED BY <1>1, <1>2, <1>4, ConsoleSound, PTL DEF ConsoleSpec, CommandsEndWithOwnStop
=============================================================================
