------------------------------ MODULE Control ------------------------------
(***************************************************************************)
(* Execution control of a debug session (internal/delvez/control.go).      *)
(*                                                                         *)
(* Callers (the console goroutine, the stop-hold guard's timer goroutine)  *)
(* call RunToStop, Interrupt, HaltNow and PollStop; background goroutines  *)
(* carry the execution commands to the server and post the stops they      *)
(* produce on stopCh, tagged with a generation; a signal handler may call  *)
(* cancelWait at any time. Every lock section, channel operation and RPC   *)
(* is a step of its own, so all of them interleave.                        *)
(***************************************************************************)
EXTENDS Delve, Sequences, FiniteSets

CONSTANTS
  Caller,    \* goroutines that call into the control
  NoCaller,
  Cap,       \* capacity of stopCh (8 in the code)
  MaxGen     \* bound: no call starts once the generation has reached it

ASSUME ControlAssumption ==
  /\ NoCaller \notin Caller
  /\ Cap \in Nat \ {0}
  /\ MaxGen \in Nat

VARIABLES
  gen,       \* control.gen
  stopCh,    \* control.stopCh: the runs whose stop is queued, oldest first
  waitCh,    \* control.waitCh: the caller whose wait cancelWait would end
  woken,     \* woken[c]: the channel caller c waits on has been closed
  cancel,    \* control.cancel
  exited,    \* Session.exited
  pc,        \* pc[c]: where caller c is
  call,      \* call[c]: the operation it executes and its local variables
  answer     \* answer[c]: what its last operation returned

chanVars   == <<gen, stopCh>>
cancelVars == <<waitCh, woken, cancel>>
callerVars == <<pc, call, answer>>
vars == <<serverVars, chanVars, cancelVars, exited, callerVars>>

\* "Timeout" is a RunToStop whose timer has fired and which halts the target;
\* "StartRun" is startRun on a goroutine of its own, as Session.Quit calls it.
Op == {"none", "RunToStop", "Timeout", "Interrupt", "HaltNow", "PollStop", "StartRun"}

Label == {"idle", "raise", "probe", "halt", "issue", "check", "spawn", "arm",
          "select", "fn", "poll"}

StopKind == {"breakpoint", "step", "halted", "exited", "timeout", "unknown"}

\* gen: the generation the operation read; halted: what halt() returned;
\* mine: the execution it started.
Call == [op : Op, cmd : Command, timed : BOOLEAN, gen : Nat, halted : BOOLEAN,
         mine : RunId \cup {NoRun}]

NoCall == [op |-> "none", cmd |-> "continue", timed |-> FALSE, gen |-> 0,
           halted |-> FALSE, mine |-> NoRun]

Answer == [kind : StopKind \cup {"none", "ok", "failed"}, run : RunId \cup {NoRun}]

NoAnswer == [kind |-> "none", run |-> NoRun]

Fresh == {r \in RunId : run[r].st = "unused"}
Busy  == {c \in Caller : pc[c] # "idle"}

\* Bound: a call starts only when an execution is left for every busy caller.
Budget == gen < MaxGen /\ Cardinality(Fresh) > Cardinality(Busy)

----------------------------------------------------------------------------

Goto(c, label) == pc' = [pc EXCEPT ![c] = label] /\ UNCHANGED answer

\* The operation returns; its locals go out of scope.
Return(c, kind, r) ==
  /\ pc' = [pc EXCEPT ![c] = "idle"]
  /\ call' = [call EXCEPT ![c] = NoCall]
  /\ answer' = [answer EXCEPT ![c] = [kind |-> kind, run |-> r]]

\* The operation starts; the previous answer is forgotten.
Enter(c, op, label) ==
  /\ pc' = [pc EXCEPT ![c] = label]
  /\ call' = [call EXCEPT ![c] = op]
  /\ answer' = [answer EXCEPT ![c] = NoAnswer]

\* What a state reads as that tells of no exit and no breakpoint.
PlainKind(cmd) == IF cmd = "step" THEN "step" ELSE "halted"

\* A classifyStop that leaves the kind of an RPC error unset.
FaultyClassifyStop(reply, cmd, stated) ==
  CASE reply = "exited"           -> "exited"
    [] reply = "breakpoint"       -> "breakpoint"
    [] reply = "lost" /\ ~stated  -> ""
    [] OTHER                      -> PlainKind(cmd)

\* classifyStop, on the reply of an execution command `cmd'. It looks at the
\* error only if there is no state: whether a failed RPC comes with an empty
\* one, which then reads as a stop, is up to the client library.
ClassifyStop(reply, cmd, stated) ==
  CASE reply = "exited"           -> "exited"
    [] reply = "breakpoint"       -> "breakpoint"
    [] reply = "lost" /\ ~stated  -> "unknown"
    [] OTHER                      -> PlainKind(cmd)

\* What an execution command that cannot be sent is taken for: isProcessExited
\* tells a dead process from a dead connection.
ErrorKind == IF conn = "lost" THEN "unknown" ELSE "exited"

----------------------------------------------------------------------------
(* Calls. *)

\* RunToStop: a cancelled session answers at once, otherwise halt() first.
RunToStop(c, cmd, timed) ==
  /\ pc[c] = "idle"
  /\ \/ cancel /\ Return(c, "halted", NoRun)
     \/ /\ ~cancel /\ Budget
        /\ Enter(c, [NoCall EXCEPT !.op = "RunToStop", !.cmd = cmd, !.timed = timed], "raise")
  /\ UNCHANGED <<serverVars, chanVars, cancelVars, exited>>

\* Interrupt: a cancelled session refuses, otherwise halt() first.
Interrupt(c) ==
  /\ pc[c] = "idle"
  /\ \/ cancel /\ Return(c, "failed", NoRun)
     \/ /\ ~cancel /\ Budget
        /\ Enter(c, [NoCall EXCEPT !.op = "Interrupt"], "raise")
  /\ UNCHANGED <<serverVars, chanVars, cancelVars, exited>>

\* HaltNow: halt() with nothing after it.
HaltNow(c) ==
  /\ pc[c] = "idle" /\ Budget
  /\ Enter(c, [NoCall EXCEPT !.op = "HaltNow"], "raise")
  /\ UNCHANGED <<serverVars, chanVars, cancelVars, exited>>

\* PollStop: the generation is read once, before the channel is drained.
PollStop(c) ==
  /\ pc[c] = "idle"
  /\ Enter(c, [NoCall EXCEPT !.op = "PollStop", !.gen = gen], "poll")
  /\ UNCHANGED <<serverVars, chanVars, cancelVars, exited>>

----------------------------------------------------------------------------
(* halt(): raise the generation, ask whether the target runs, stop it. *)

\* A halt() that leaves the generation as it is, and one that raises it for a
\* running target only.
FaultyNextGen == gen
LateNextGen   == IF Running THEN gen + 1 ELSE gen

NextGen == gen + 1

RaiseGen(c) ==
  /\ pc[c] = "raise"
  /\ gen' = NextGen
  /\ Goto(c, "probe")
  /\ UNCHANGED <<serverVars, stopCh, cancelVars, exited, call>>

\* halt() has returned (halted, nil).
HaltDone(c, halted) ==
  \/ /\ call[c].op = "RunToStop"
     /\ Goto(c, "issue")
     /\ UNCHANGED call
  \/ /\ call[c].op = "Interrupt"
     /\ Goto(c, "fn")
     /\ call' = [call EXCEPT ![c].halted = halted]
  \/ call[c].op = "HaltNow" /\ Return(c, "ok", NoRun)
  \/ call[c].op = "Timeout" /\ Return(c, "timeout", NoRun)

\* halt() has returned (true, err): only a timed-out wait ignores the error.
HaltFailed(c) ==
  \/ /\ call[c].op = "RunToStop"
     /\ Return(c, ErrorKind, NoRun)
  \/ call[c].op \in {"Interrupt", "HaltNow"} /\ Return(c, "failed", NoRun)
  \/ call[c].op = "Timeout" /\ Return(c, "timeout", NoRun)

ProbeRunning(c) ==
  /\ pc[c] = "probe"
  /\ \/ Running  /\ Goto(c, "halt") /\ UNCHANGED call
     \/ ~Running /\ HaltDone(c, FALSE)
  /\ UNCHANGED <<serverVars, chanVars, cancelVars, exited>>

\* The target may have stopped or exited since it was probed.
HaltRPC(c) ==
  /\ pc[c] = "halt"
  /\ \/ HaltTarget /\ HaltDone(c, TRUE)
     \/ /\ conn = "lost" \/ target = "exited"
        /\ HaltFailed(c)
        /\ UNCHANGED serverVars
  /\ UNCHANGED <<chanVars, cancelVars, exited>>

----------------------------------------------------------------------------
(* Starting an execution in the background: startRun and runStep. *)

\* A RunToStop that compares with generation 0 whatever the current one is.
FaultyReadGen == 0

\* RunToStop reads the generation its waitStop will compare with.
ReadGen == gen

Issue(c) ==
  /\ pc[c] = "issue"
  /\ call' = [call EXCEPT ![c].gen = ReadGen]
  /\ Goto(c, IF call[c].cmd = "continue" THEN "check" ELSE "spawn")
  /\ UNCHANGED <<serverVars, chanVars, cancelVars, exited>>

\* startRun or runStep has returned, having started execution r or none.
Started(c, r) ==
  \/ /\ call[c].op = "RunToStop"
     /\ Goto(c, "arm")
     /\ call' = [call EXCEPT ![c].mine = r]
  \/ call[c].op \in {"Interrupt", "StartRun"} /\ Return(c, "ok", NoRun)

\* startRun does nothing on a running target.
CheckRunning(c) ==
  /\ pc[c] = "check"
  /\ \/ Running  /\ Started(c, NoRun)
     \/ ~Running /\ Goto(c, "spawn") /\ UNCHANGED call
  /\ UNCHANGED <<serverVars, chanVars, cancelVars, exited>>

\* The goroutine is created under the generation current at that moment.
Spawn(c) ==
  /\ pc[c] = "spawn"
  /\ \E r \in Fresh :
       /\ run' = [run EXCEPT ![r] = [st |-> "issued", cmd |-> call[c].cmd,
                                     gen |-> gen, reply |-> "none"]]
       /\ Started(c, r)
  /\ UNCHANGED <<target, conn, chanVars, cancelVars, exited>>

----------------------------------------------------------------------------
(* waitStop. *)

Arm(c) ==
  /\ pc[c] = "arm"
  /\ waitCh' = c
  /\ woken' = [woken EXCEPT ![c] = FALSE]
  /\ Goto(c, "select")
  /\ UNCHANGED <<serverVars, chanVars, cancel, exited, call>>

\* A reader that takes whatever is on the channel.
FaultyStale(r, c) == FALSE

\* A stop of an older generation than the operation's.
Stale(r, c) == run[r].gen < call[c].gen

\* Takes the oldest stop off the channel: a stale one is dropped, any other
\* is what the operation returns. Shared by waitStop and PollStop.
TakeStop(c) ==
  /\ stopCh # <<>>
  /\ stopCh' = Tail(stopCh)
  /\ LET r == Head(stopCh) IN
       \/ /\ Stale(r, c)
          /\ run' = [run EXCEPT ![r].st = "dropped"]
          /\ Goto(c, pc[c])
          /\ UNCHANGED call
       \/ /\ ~Stale(r, c)
          /\ run' = [run EXCEPT ![r].st = "reported"]
          /\ \E stated \in BOOLEAN :
               Return(c, ClassifyStop(run[r].reply, run[r].cmd, stated), r)
  /\ UNCHANGED <<target, conn, gen, cancelVars, exited>>

Receive(c) == pc[c] = "select" /\ TakeStop(c)

\* A timer that is armed when there is no timeout and not when there is one.
FaultyHasTimer(c) == ~call[c].timed

HasTimer(c) == call[c].timed

\* The timer may win the select even when a stop is waiting in the channel.
TimerFires(c) ==
  /\ pc[c] = "select"
  /\ HasTimer(c)
  /\ call' = [call EXCEPT ![c].op = "Timeout"]
  /\ Goto(c, "raise")
  /\ UNCHANGED <<serverVars, chanVars, cancelVars, exited>>

WakeUp(c) ==
  /\ pc[c] = "select"
  /\ woken[c]
  /\ Return(c, "halted", NoRun)
  /\ UNCHANGED <<serverVars, chanVars, cancelVars, exited>>

----------------------------------------------------------------------------
(* The rest of Interrupt and PollStop. *)

\* fn is an RPC on a quiesced target: the server holds it back while the
\* target executes. It may fail (unknown breakpoint, unresolvable location or
\* expression), and then Interrupt returns there and then.
Fn(c) ==
  /\ pc[c] = "fn"
  /\ ~Running
  /\ \/ Return(c, "failed", NoRun)
     \/ conn = "open" /\ call[c].halted  /\ Goto(c, "check") /\ UNCHANGED call
     \/ conn = "open" /\ ~call[c].halted /\ Return(c, "ok", NoRun)
  /\ UNCHANGED <<serverVars, chanVars, cancelVars, exited>>

Poll(c) ==
  /\ pc[c] = "poll"
  /\ \/ TakeStop(c)
     \/ /\ stopCh = <<>>
        /\ Return(c, "none", NoRun)
        /\ UNCHANGED <<serverVars, chanVars, cancelVars, exited>>

----------------------------------------------------------------------------
(* The background goroutines: post. *)

\* A post that drops the stops of the current generation as well.
FaultyOutdated(r) == run[r].gen <= gen

Outdated(r) == run[r].gen < gen

\* A post that takes a closed connection for an exit.
HastySaysExited(r) == run[r].reply \in {"exited", "lost"}

SaysExited(r) == run[r].reply = "exited"

\* post drops a stop of an older generation; an exit is noted on the session.
PostCheck(r) ==
  /\ run[r].st = "returned"
  /\ \/ /\ Outdated(r)
        /\ run' = [run EXCEPT ![r].st = "dropped"]
        /\ UNCHANGED exited
     \/ /\ ~Outdated(r)
        /\ run' = [run EXCEPT ![r].st = "posting"]
        /\ exited' = (exited \/ SaysExited(r))
  /\ UNCHANGED <<target, conn, chanVars, cancelVars, callerVars>>

\* A post that sends again after its first send has succeeded.
FaultySent(r) == stopCh \o <<r, r>>

Sent(r) == Append(stopCh, r)

\* A send that does not block.
TrySend(r, refused) ==
  \/ /\ Len(stopCh) < Cap
     /\ stopCh' = Sent(r)
     /\ run' = [run EXCEPT ![r].st = "queued"]
  \/ /\ Len(stopCh) >= Cap
     /\ run' = [run EXCEPT ![r].st = refused]
     /\ UNCHANGED stopCh

PostSend(r) ==
  /\ run[r].st = "posting"
  /\ TrySend(r, "full")
  /\ UNCHANGED <<target, conn, gen, cancelVars, exited, callerVars>>

\* A post that found the channel full clears its oldest entry, unless the
\* readers have emptied it in the meantime.
PostClear(r) ==
  /\ run[r].st = "full"
  /\ \/ /\ stopCh # <<>>
        /\ stopCh' = Tail(stopCh)
        /\ run' = [run EXCEPT ![r].st = "retrying", ![Head(stopCh)].st = "evicted"]
     \/ /\ stopCh = <<>>
        /\ run' = [run EXCEPT ![r].st = "retrying"]
        /\ UNCHANGED stopCh
  /\ UNCHANGED <<target, conn, gen, cancelVars, exited, callerVars>>

\* Another post may have taken the slot: then the new stop is the one that goes.
PostRetry(r) ==
  /\ run[r].st = "retrying"
  /\ TrySend(r, "evicted")
  /\ UNCHANGED <<target, conn, gen, cancelVars, exited, callerVars>>

----------------------------------------------------------------------------

\* cancelWait, on the signal handler's goroutine.
CancelWait ==
  /\ ~cancel
  /\ cancel' = TRUE
  /\ waitCh' = NoCaller
  /\ woken' = [c \in Caller |-> woken[c] \/ c = waitCh]
  /\ UNCHANGED <<serverVars, chanVars, exited, callerVars>>

----------------------------------------------------------------------------

\* Connect has just returned: it left the target as it found it, or, when the
\* target sat at its entry point, started its execution in the background.
Init ==
  /\ target \in TargetState
  /\ conn = "open"
  /\ \/ run = [r \in RunId |-> Unused]
     \/ /\ target = "stopped"
        /\ \E q \in RunId :
             run = [r \in RunId |-> IF r = q THEN [Unused EXCEPT !.st = "issued"] ELSE Unused]
  /\ gen = 0
  /\ stopCh = <<>>
  /\ waitCh = NoCaller
  /\ woken = [c \in Caller |-> FALSE]
  /\ cancel = FALSE
  /\ exited = FALSE
  /\ pc = [c \in Caller |-> "idle"]
  /\ call = [c \in Caller |-> NoCall]
  /\ answer = [c \in Caller |-> NoAnswer]

\* The operations a caller may start, and the steps of one it has started.
StartCall(c) ==
  \/ \E cmd \in Command, timed \in BOOLEAN : RunToStop(c, cmd, timed)
  \/ Interrupt(c)
  \/ HaltNow(c)
  \/ PollStop(c)

CallStep(c) ==
  \/ RaiseGen(c)
  \/ ProbeRunning(c)
  \/ HaltRPC(c)
  \/ Issue(c)
  \/ CheckRunning(c)
  \/ Spawn(c)
  \/ Arm(c)
  \/ Receive(c)
  \/ TimerFires(c)
  \/ WakeUp(c)
  \/ Fn(c)
  \/ Poll(c)

PostStep(r) == PostCheck(r) \/ PostSend(r) \/ PostClear(r) \/ PostRetry(r)

Server == ServerNext /\ UNCHANGED <<chanVars, cancelVars, exited, callerVars>>

Next ==
  \/ \E c \in Caller : StartCall(c) \/ CallStep(c)
  \/ \E r \in RunId : PostStep(r)
  \/ CancelWait
  \/ Server

Spec == Init /\ [][Next]_vars

\* Goroutines are scheduled, timers fire and the server takes up what it is
\* sent; nothing makes a caller start a call or the target stop.
Fairness ==
  /\ \A c \in Caller : WF_vars(CallStep(c))
  /\ \A r \in RunId : WF_vars(PostStep(r))
  /\ \A r \in RunId :
       WF_vars(Accept(r) /\ UNCHANGED <<chanVars, cancelVars, exited, callerVars>>)

FairSpec == Spec /\ Fairness
----------------------------------------------------------------------------
(* Properties. *)

\* Type invariant of the control's state and of the server it drives.
TypeOK ==
  /\ ServerTypeOK
  /\ gen \in Nat
  /\ stopCh \in Seq(RunId)
  /\ waitCh \in Caller \cup {NoCaller}
  /\ woken \in [Caller -> BOOLEAN]
  /\ cancel \in BOOLEAN
  /\ exited \in BOOLEAN
  /\ pc \in [Caller -> Label]
  /\ call \in [Caller -> Call]
  /\ answer \in [Caller -> Answer]

\* Caller c returns from operation op with this step.
Returns(c, op) == pc[c] # "idle" /\ pc'[c] = "idle" /\ call[c].op = op

\* "A breakpoint is only ever reported ... by the continue that actually hit
\* it": what RunToStop returns is the stop of the execution that very call
\* started, whatever older executions are still posting.
AnswersWithOwnStop ==
  [][\A c \in Caller : Returns(c, "RunToStop") /\ answer'[c].run # NoRun
       => answer'[c].run = call[c].mine]_vars

\* The stop of an execution that halt() itself cut short is never handed to a
\* caller as if the target had stopped by itself.
InterruptedNeverReported ==
  \A r \in RunId : run[r].reply = "manual" => run[r].st # "reported"

\* An execution of the current generation that may still produce an answer.
Live(r) ==
  /\ run[r].st \in {"issued", "executing", "returned", "posting", "full", "retrying", "queued"}
  /\ run[r].gen >= gen

\* At most one execution is live at a time: two would answer the same wait.
OneLiveExecution == \A r, q \in RunId : Live(r) /\ Live(q) => r = q

\* The session calls the target exited only when it is, and has noted the exit
\* before any caller can read it off the channel.
ExitNoteTruthful ==
  /\ exited => target = "exited"
  /\ \A r \in RunId :
       (/\ run[r].reply = "exited"
        /\ run[r].st \in {"posting", "full", "retrying", "queued", "reported"})
         => exited

Elems(s)    == {s[i] : i \in 1..Len(s)}
NoRepeat(s) == \A i, j \in 1..Len(s) : s[i] = s[j] => i = j

\* No stop reaches two callers, and one on the channel has reached none.
ReportedOnce ==
  /\ \A c, d \in Caller : answer[c].run = answer[d].run /\ answer[c].run # NoRun => c = d
  /\ \A c \in Caller : answer[c].run # NoRun => run[answer[c].run].st = "reported"
  /\ \A r \in RunId : r \in Elems(stopCh) <=> run[r].st = "queued"
  /\ NoRepeat(stopCh)

\* Strengthenings that make the invariants above inductive.

\* The server executes for one goroutine at most and an exit is final.
ServerInv ==
  /\ \A r \in RunId : run[r].st = "executing" => conn = "open" /\ target = "running"
  /\ \A r, q \in RunId : run[r].st = "executing" /\ run[q].st = "executing" => r = q
  /\ \A r \in RunId : run[r].reply = "exited" => target = "exited"
  /\ \A r \in RunId : run[r].st \in {"unused", "issued", "executing"} => run[r].reply = "none"

\* Generations only grow, and operations are where their code has them.
CallInv ==
  /\ \A r \in RunId : run[r].gen <= gen
  /\ \A c \in Caller :
       /\ pc[c] \in {"issue", "arm", "select"} => call[c].op = "RunToStop"
       /\ pc[c] \in {"check", "spawn"} => call[c].op \in {"RunToStop", "Interrupt", "StartRun"}
       /\ pc[c] = "fn" => call[c].op = "Interrupt"
       /\ pc[c] = "poll" => call[c].op = "PollStop"

\* With a single reader: from halt() to the start of its next execution no
\* execution is live, a waiting RunToStop compares with the current generation
\* and can only be answered by the execution it started, and what halt() cut
\* short belongs to an older generation.
ReaderInv ==
  /\ OneLiveExecution
  /\ \A c \in Caller : pc[c] \in {"probe", "halt", "fn", "issue", "check", "spawn"}
                          => \A r \in RunId : ~Live(r)
  /\ \A c \in Caller : pc[c] \in {"arm", "select"}
                          => /\ call[c].gen = gen
                             /\ \A r \in RunId : Live(r) => r = call[c].mine
  /\ \A c \in Caller : pc[c] \in {"check", "spawn"} /\ call[c].op = "RunToStop"
                          => call[c].gen = gen
  /\ \A r \in RunId : run[r].reply = "manual"
                          => run[r].st \in {"returned", "dropped"} /\ run[r].gen < gen

\* The abstract delivery the control implements for a single reader: current is
\* the live execution, a raised generation abandons it.
CurrentRun == IF \E r \in RunId : Live(r) THEN CHOOSE r \in RunId : Live(r) ELSE NoRun

Delivery == INSTANCE StopDelivery WITH
  current   <- CurrentRun,
  started   <- {r \in RunId : run[r].st # "unused"},
  delivered <- {r \in RunId : run[r].st = "reported"}

\* Every step of the control, its server and its stragglers is a step of
\* StopDelivery or leaves it alone: what reaches the reader is the stop of the
\* one current execution, and never again.
DeliversCurrent == Delivery!Spec

\* A wait that has timed out leaves nothing behind that could answer the next
\* one: the stop that arrived as the timer fired, or a continue the server had
\* not taken up, is out of date before the caller hears of the timeout.
TimedOutIsSettled ==
  \A c \in Caller : pc[c] = "idle" /\ answer[c].kind = "timeout" => \A r \in RunId : ~Live(r)

\* A RunToStop with a timeout always returns.
TimedRunReturns ==
  \A c \in Caller : call[c].timed ~> call[c].op = "none"

\* Once the server has answered the execution a caller waits for, the caller
\* returns: neither the staleness tests nor the channel lose the stop on its
\* way. (More than Cap executions posting at once can evict or refuse it.)
OwnStopAnswers ==
  \A c \in Caller, r \in RunId :
    pc[c] = "select" /\ call[c].mine = r /\ run[r].st = "returned"
      ~> call[c].op = "none"

----------------------------------------------------------------------------
(* What the comments of the code say and the code does not do: each is        *)
(* checked by a run that finds it violated.                                   *)

\* session.go: Interrupt "resumes it if it was running": it does not when fn
\* fails.
InterruptResumes ==
  [][\A c \in Caller :
       Returns(c, "Interrupt") /\ call[c].halted /\ conn = "open" /\ target # "exited"
         => Running' \/ \E r \in RunId : run[r].st = "unused" /\ run'[r].st = "issued"]_vars

\* control.go: a dropped stop "comes from an execution we interrupted ourselves".
DroppedWasInterrupted ==
  \A r \in RunId : run[r].st = "dropped" => run[r].reply \in {"manual", "lost"}

\* control.go: post, on a full channel, means to "clear one stale slot".
EvictedWasStale == \A r \in RunId : run[r].st = "evicted" => run[r].gen < gen

\* session.go: Exited "reports whether the target process has exited": a stop
\* that says so and is dropped as stale leaves no note of it.
DroppedExitNoted ==
  \A r \in RunId : run[r].st = "dropped" /\ run[r].reply = "exited" => exited

\* control.go: RunToStop "issues the command in the background, then waits for
\* the stop it produces": a caller that waits has an execution to wait for.
WaiterHasExecution ==
  \A c \in Caller : pc[c] = "select" => \E r \in RunId : Live(r)

\* control.go: "a timed-out wait must never leave an unowned continue running
\* on the server".
TimeoutLeavesNoRun ==
  \A c \in Caller : pc[c] = "idle" /\ answer[c].kind = "timeout"
                      => \A r \in RunId : run[r].st # "executing"

\* session.go: cancelWait "interrupts any blocking RunToStop ... Subsequent
\* waits return immediately".
CancelEndsWait ==
  \A c \in Caller : cancel /\ pc[c] = "select" => woken[c]

\* control.go: Interrupt "runs fn while it is stopped".
FnOnStoppedTarget ==
  \A c \in Caller : pc[c] = "fn" => ~Running
=============================================================================
