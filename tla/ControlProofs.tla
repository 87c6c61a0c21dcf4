--------------------------- MODULE ControlProofs ---------------------------
(***************************************************************************)
(* Theorems about execution control (module Control), for every set of     *)
(* callers and executions, channel capacity and generation bound.          *)
(***************************************************************************)
EXTENDS Control, TLAPS

USE NoRunAssumption, ControlAssumption

----------------------------------------------------------------------------
(* Type correctness. *)

\* What the helpers that move a caller on leave well typed.
LEMMA GotoType ==
  ASSUME TypeOK, NEW c \in Caller, NEW label \in Label, Goto(c, label)
  PROVE  /\ pc' \in [Caller -> Label]
         /\ answer' \in [Caller -> Answer]
BY DEF TypeOK, Goto

\* An operation that returns leaves its caller well typed.
LEMMA ReturnType ==
  ASSUME TypeOK, NEW c \in Caller,
         NEW kind \in StopKind \cup {"none", "ok", "failed"},
         NEW r \in RunId \cup {NoRun}, Return(c, kind, r)
  PROVE  /\ pc' \in [Caller -> Label]
         /\ call' \in [Caller -> Call]
         /\ answer' \in [Caller -> Answer]
<1>1. NoCall \in Call
  BY DEF NoCall, Call, Op, Command
<1>2. [kind |-> kind, run |-> r] \in Answer
  BY DEF Answer
<1> QED BY <1>1, <1>2 DEF TypeOK, Return, Label

\* So does an operation that starts.
LEMMA EnterType ==
  ASSUME TypeOK, NEW c \in Caller, NEW label \in Label, NEW op \in Call,
         Enter(c, op, label)
  PROVE  /\ pc' \in [Caller -> Label]
         /\ call' \in [Caller -> Call]
         /\ answer' \in [Caller -> Answer]
<1>1. NoAnswer \in Answer
  BY DEF NoAnswer, Answer
<1> QED BY <1>1 DEF TypeOK, Enter

\* The initial states are well typed.
LEMMA InitType == Init => TypeOK
<1> SUFFICES ASSUME Init PROVE TypeOK OBVIOUS
<1>1. ServerTypeOK
  <2>1. Unused \in Run /\ [Unused EXCEPT !.st = "issued"] \in Run
    BY DEF Unused, Run, RunState, Command, Reply
  <2>2. run \in [RunId -> Run]
    BY <2>1 DEF Init
  <2> QED BY <2>2 DEF Init, ServerTypeOK
<1>2. NoCall \in Call /\ NoAnswer \in Answer
  BY DEF NoCall, Call, Op, Command, NoAnswer, Answer
<1>3. gen \in Nat /\ stopCh \in Seq(RunId) /\ waitCh \in Caller \cup {NoCaller}
  BY DEF Init
<1>4. woken \in [Caller -> BOOLEAN] /\ cancel \in BOOLEAN /\ exited \in BOOLEAN
  BY DEF Init
<1>5. /\ pc \in [Caller -> Label]
      /\ call \in [Caller -> Call]
      /\ answer \in [Caller -> Answer]
  BY <1>2 DEF Init, Label
<1> QED BY <1>1, <1>3, <1>4, <1>5 DEF TypeOK

\* Execution records stay well typed under the updates the actions make.
LEMMA RunStType ==
  ASSUME run \in [RunId -> Run], NEW r \in RunId, NEW s \in RunState
  PROVE  [run EXCEPT ![r].st = s] \in [RunId -> Run]
BY DEF Run

\* The same for an execution that returns with a reply.
LEMMA RunReplyType ==
  ASSUME run \in [RunId -> Run], NEW r \in RunId, NEW why \in Reply
  PROVE  [run EXCEPT ![r].st = "returned", ![r].reply = why] \in [RunId -> Run]
BY DEF Run, RunState

\* Every executing run returning at once (a Halt, the end of the connection).
LEMMA RunAllReplyType ==
  ASSUME run \in [RunId -> Run], NEW why \in Reply
  PROVE  [r \in RunId |-> IF run[r].st = "executing"
                          THEN [run[r] EXCEPT !.st = "returned", !.reply = why]
                          ELSE run[r]] \in [RunId -> Run]
BY DEF Run, RunState

\* A Halt RPC keeps the server well typed.
LEMMA HaltTargetType ==
  ASSUME ServerTypeOK, HaltTarget
  PROVE  ServerTypeOK'
BY RunAllReplyType DEF ServerTypeOK, HaltTarget, Reply, TargetState

\* So does every step of the server by itself.
LEMMA ServerType ==
  ASSUME ServerTypeOK, ServerNext
  PROVE  ServerTypeOK'
<1> USE DEF ServerTypeOK, TargetState
<1>1. ASSUME NEW r \in RunId, Accept(r) PROVE ServerTypeOK'
  <2>1. "executing" \in RunState /\ "exited" \in Reply /\ "lost" \in Reply
    BY DEF RunState, Reply
  <2>2. /\ [run EXCEPT ![r].st = "executing"] \in [RunId -> Run]
        /\ [run EXCEPT ![r].st = "returned", ![r].reply = "exited"] \in [RunId -> Run]
        /\ [run EXCEPT ![r].st = "returned", ![r].reply = "lost"] \in [RunId -> Run]
    BY <2>1, RunStType, RunReplyType
  <2>3. run' \in [RunId -> Run]
    BY <1>1, <2>2 DEF Accept
  <2> QED BY <1>1, <2>3 DEF Accept
<1>2. ASSUME NEW r \in RunId, NEW why \in Reply, Finish(r, why) PROVE ServerTypeOK'
  BY <1>2, RunReplyType DEF Finish
<1>3. CASE OtherClient
  BY <1>3 DEF OtherClient
<1>4. CASE LoseConnection
  BY <1>4, RunAllReplyType DEF LoseConnection, Reply
<1> QED BY <1>1, <1>2, <1>3, <1>4 DEF ServerNext

----------------------------------------------------------------------------

\* Starting an operation keeps the control well typed.
LEMMA StartCallType ==
  ASSUME TypeOK, NEW c \in Caller, StartCall(c)
  PROVE  TypeOK'
<1> USE DEF ServerTypeOK, serverVars, chanVars, cancelVars
<1>1. ASSUME NEW cmd \in Command, NEW timed \in BOOLEAN, RunToStop(c, cmd, timed)
      PROVE TypeOK'
  <2>1. [NoCall EXCEPT !.op = "RunToStop", !.cmd = cmd, !.timed = timed] \in Call
    BY DEF NoCall, Call, Op, Command
  <2>2. "raise" \in Label /\ "halted" \in StopKind
    BY DEF Label, StopKind
  <2>3. /\ pc' \in [Caller -> Label]
        /\ call' \in [Caller -> Call]
        /\ answer' \in [Caller -> Answer]
    BY <1>1, <2>1, <2>2, ReturnType, EnterType DEF RunToStop
  <2> QED BY <1>1, <2>3 DEF RunToStop, TypeOK
<1>2. CASE Interrupt(c)
  <2>1. [NoCall EXCEPT !.op = "Interrupt"] \in Call
    BY DEF NoCall, Call, Op, Command
  <2>2. "raise" \in Label
    BY DEF Label
  <2>3. /\ pc' \in [Caller -> Label]
        /\ call' \in [Caller -> Call]
        /\ answer' \in [Caller -> Answer]
    BY <1>2, <2>1, <2>2, ReturnType, EnterType DEF Interrupt
  <2> QED BY <1>2, <2>3 DEF Interrupt, TypeOK
<1>3. CASE HaltNow(c)
  <2>1. [NoCall EXCEPT !.op = "HaltNow"] \in Call
    BY DEF NoCall, Call, Op, Command
  <2>2. "raise" \in Label
    BY DEF Label
  <2>3. /\ pc' \in [Caller -> Label]
        /\ call' \in [Caller -> Call]
        /\ answer' \in [Caller -> Answer]
    BY <1>3, <2>1, <2>2, EnterType DEF HaltNow
  <2> QED BY <1>3, <2>3 DEF HaltNow, TypeOK
<1>4. CASE PollStop(c)
  <2>1. [NoCall EXCEPT !.op = "PollStop", !.gen = gen] \in Call
    BY DEF TypeOK, NoCall, Call, Op, Command
  <2>2. "poll" \in Label
    BY DEF Label
  <2>3. /\ pc' \in [Caller -> Label]
        /\ call' \in [Caller -> Call]
        /\ answer' \in [Caller -> Answer]
    BY <1>4, <2>1, <2>2, EnterType DEF PollStop
  <2> QED BY <1>4, <2>3 DEF PollStop, TypeOK
<1> QED BY <1>1, <1>2, <1>3, <1>4 DEF StartCall

\* halt() returning, with or without an error.
LEMMA HaltReturnType ==
  ASSUME TypeOK, NEW c \in Caller, NEW halted \in BOOLEAN,
         HaltDone(c, halted) \/ HaltFailed(c)
  PROVE  /\ pc' \in [Caller -> Label]
         /\ call' \in [Caller -> Call]
         /\ answer' \in [Caller -> Answer]
<1>1. "issue" \in Label /\ "fn" \in Label
  BY DEF Label
<1>2. [call EXCEPT ![c].halted = halted] \in [Caller -> Call]
  BY DEF TypeOK, Call
<1>3. CASE HaltDone(c, halted)
  <2>1. CASE Goto(c, "issue") /\ UNCHANGED call
    BY <1>1, <2>1, GotoType DEF TypeOK
  <2>2. CASE Goto(c, "fn") /\ call' = [call EXCEPT ![c].halted = halted]
    BY <1>1, <1>2, <2>2, GotoType DEF TypeOK
  <2>3. CASE Return(c, "ok", NoRun)
    BY <2>3, ReturnType
  <2>4. CASE Return(c, "timeout", NoRun)
    BY <2>4, ReturnType DEF StopKind
  <2> QED BY <1>3, <2>1, <2>2, <2>3, <2>4 DEF HaltDone
<1>4. CASE HaltFailed(c)
  BY <1>4, ReturnType DEF HaltFailed, ErrorKind, StopKind
<1> QED BY <1>3, <1>4

\* startRun or runStep returning leaves its caller well typed.
LEMMA StartedType ==
  ASSUME TypeOK, NEW c \in Caller, NEW r \in RunId \cup {NoRun}, Started(c, r)
  PROVE  /\ pc' \in [Caller -> Label]
         /\ call' \in [Caller -> Call]
         /\ answer' \in [Caller -> Answer]
<1>1. [call EXCEPT ![c].mine = r] \in [Caller -> Call]
  BY DEF TypeOK, Call
<1>2. CASE Goto(c, "arm") /\ call' = [call EXCEPT ![c].mine = r]
  BY <1>1, <1>2, GotoType DEF Label
<1>3. CASE Return(c, "ok", NoRun)
  BY <1>3, ReturnType
<1> QED BY <1>2, <1>3 DEF Started

\* Taking a stop off the channel keeps the control well typed.
LEMMA TakeStopType ==
  ASSUME TypeOK, NEW c \in Caller, TakeStop(c)
  PROVE  TypeOK'
<1> DEFINE r == Head(stopCh)
<1>1. r \in RunId /\ Tail(stopCh) \in Seq(RunId)
  BY DEF TypeOK, TakeStop, Stale
<1>2. run' \in [RunId -> Run]
  <2>1. "dropped" \in RunState /\ "reported" \in RunState
    BY DEF RunState
  <2>2. /\ [run EXCEPT ![r].st = "dropped"] \in [RunId -> Run]
        /\ [run EXCEPT ![r].st = "reported"] \in [RunId -> Run]
    BY <1>1, <2>1, RunStType DEF TypeOK, ServerTypeOK
  <2> QED BY <2>2 DEF TakeStop, Stale
<1>3. /\ pc' \in [Caller -> Label]
      /\ call' \in [Caller -> Call]
      /\ answer' \in [Caller -> Answer]
  <2>1. CASE Goto(c, pc[c]) /\ UNCHANGED call
    BY <2>1, GotoType DEF TypeOK
  <2>2. ASSUME NEW stated \in BOOLEAN,
               Return(c, ClassifyStop(run[r].reply, run[r].cmd, stated), r)
        PROVE  /\ pc' \in [Caller -> Label]
               /\ call' \in [Caller -> Call]
               /\ answer' \in [Caller -> Answer]
    <3>1. ClassifyStop(run[r].reply, run[r].cmd, stated) \in StopKind
      BY DEF ClassifyStop, PlainKind, StopKind
    <3> HIDE DEF r
    <3> QED BY <1>1, <2>2, <3>1, ReturnType
  <2> QED BY <2>1, <2>2 DEF TakeStop, Stale
<1> QED BY <1>1, <1>2, <1>3 DEF TypeOK, ServerTypeOK, TakeStop, Stale, cancelVars

\* So does every step of an operation.
LEMMA CallStepType ==
  ASSUME TypeOK, NEW c \in Caller, CallStep(c)
  PROVE  TypeOK'
<1> USE DEF serverVars, chanVars, cancelVars, ServerTypeOK
<1>1. CASE RaiseGen(c)
  BY <1>1, GotoType DEF RaiseGen, NextGen, TypeOK, Label
<1>2. CASE ProbeRunning(c)
  <2>1. /\ pc' \in [Caller -> Label]
        /\ call' \in [Caller -> Call]
        /\ answer' \in [Caller -> Answer]
    BY <1>2, GotoType, HaltReturnType DEF ProbeRunning, TypeOK, Label
  <2> QED BY <1>2, <2>1 DEF ProbeRunning, TypeOK
<1>3. CASE HaltRPC(c)
  <2>1. /\ pc' \in [Caller -> Label]
        /\ call' \in [Caller -> Call]
        /\ answer' \in [Caller -> Answer]
    BY <1>3, HaltReturnType DEF HaltRPC
  <2>2. ServerTypeOK'
    BY <1>3, HaltTargetType DEF HaltRPC, TypeOK
  <2> QED BY <1>3, <2>1, <2>2 DEF HaltRPC, TypeOK
<1>4. CASE Issue(c)
  <2>1. call' \in [Caller -> Call]
    BY <1>4 DEF Issue, ReadGen, TypeOK, Call
  <2>2. pc' \in [Caller -> Label] /\ answer' \in [Caller -> Answer]
    BY <1>4, GotoType DEF Issue, ReadGen, Label
  <2> QED BY <1>4, <2>1, <2>2 DEF Issue, ReadGen, TypeOK
<1>5. CASE CheckRunning(c)
  <2>1. /\ pc' \in [Caller -> Label]
        /\ call' \in [Caller -> Call]
        /\ answer' \in [Caller -> Answer]
    BY <1>5, GotoType, StartedType DEF CheckRunning, TypeOK, Label
  <2> QED BY <1>5, <2>1 DEF CheckRunning, TypeOK
<1>6. CASE Spawn(c)
  <2>1. PICK r \in RunId :
          /\ run' = [run EXCEPT ![r] = [st |-> "issued", cmd |-> call[c].cmd,
                                        gen |-> gen, reply |-> "none"]]
          /\ Started(c, r)
    BY <1>6 DEF Spawn, Fresh
  <2>2. [st |-> "issued", cmd |-> call[c].cmd, gen |-> gen, reply |-> "none"] \in Run
    BY DEF TypeOK, Call, Run, RunState
  <2>3. run' \in [RunId -> Run]
    BY <2>1, <2>2 DEF TypeOK
  <2>4. /\ pc' \in [Caller -> Label]
        /\ call' \in [Caller -> Call]
        /\ answer' \in [Caller -> Answer]
    BY <2>1, StartedType
  <2> QED BY <1>6, <2>3, <2>4 DEF Spawn, TypeOK
<1>7. CASE Arm(c)
  BY <1>7, GotoType DEF Arm, TypeOK, Label
<1>8. CASE Receive(c)
  BY <1>8, TakeStopType DEF Receive
<1>9. CASE TimerFires(c)
  <2>1. call' \in [Caller -> Call]
    BY <1>9 DEF TimerFires, HasTimer, TypeOK, Call, Op
  <2>2. pc' \in [Caller -> Label] /\ answer' \in [Caller -> Answer]
    BY <1>9, GotoType DEF TimerFires, HasTimer, Label
  <2> QED BY <1>9, <2>1, <2>2 DEF TimerFires, HasTimer, TypeOK
<1>10. CASE WakeUp(c)
  <2>1. /\ pc' \in [Caller -> Label]
        /\ call' \in [Caller -> Call]
        /\ answer' \in [Caller -> Answer]
    BY <1>10, ReturnType DEF WakeUp, StopKind
  <2> QED BY <1>10, <2>1 DEF WakeUp, TypeOK
<1>11. CASE Fn(c)
  <2>1. /\ pc' \in [Caller -> Label]
        /\ call' \in [Caller -> Call]
        /\ answer' \in [Caller -> Answer]
    BY <1>11, GotoType, ReturnType DEF Fn, TypeOK, Label
  <2> QED BY <1>11, <2>1 DEF Fn, TypeOK
<1>12. CASE Poll(c)
  <2>1. CASE TakeStop(c)
    BY <2>1, TakeStopType
  <2>2. CASE Return(c, "none", NoRun) /\ UNCHANGED <<serverVars, chanVars, cancelVars, exited>>
    <3>1. /\ pc' \in [Caller -> Label]
          /\ call' \in [Caller -> Call]
          /\ answer' \in [Caller -> Answer]
      BY <2>2, ReturnType
    <3> QED BY <2>2, <3>1 DEF TypeOK
  <2> QED BY <1>12, <2>1, <2>2 DEF Poll
<1> QED BY <1>1, <1>2, <1>3, <1>4, <1>5, <1>6, <1>7, <1>8, <1>9, <1>10, <1>11, <1>12
        DEF CallStep

\* What a background goroutine does once its stop has passed the staleness test.
Posts(r) == PostSend(r) \/ PostClear(r) \/ PostRetry(r)

\* It queues its stop,
Queues(r) ==
  /\ run[r].st \in {"posting", "retrying"}
  /\ stopCh' = Append(stopCh, r)
  /\ run' = [run EXCEPT ![r].st = "queued"]

\* or it leaves the channel as it is,
Waits(r, s) ==
  /\ run[r].st \in {"posting", "full", "retrying"}
  /\ s \in {"full", "retrying", "evicted"}
  /\ run' = [run EXCEPT ![r].st = s]
  /\ UNCHANGED stopCh

\* or it clears the oldest entry.
Clears(r) ==
  /\ run[r].st = "full"
  /\ stopCh # <<>>
  /\ stopCh' = Tail(stopCh)
  /\ run' = [run EXCEPT ![r].st = "retrying", ![Head(stopCh)].st = "evicted"]

\* These are all.
LEMMA PostShapes ==
  ASSUME NEW r \in RunId, Posts(r)
  PROVE  /\ UNCHANGED <<target, conn, gen, cancelVars, exited, callerVars>>
         /\ Queues(r) \/ Clears(r) \/ \E s : Waits(r, s)
<1>1. CASE PostSend(r)
  <2>1. TrySend(r, "full") => Queues(r) \/ Waits(r, "full")
    BY <1>1 DEF PostSend, TrySend, Sent, Queues, Waits
  <2> QED BY <1>1, <2>1 DEF PostSend
<1>2. CASE PostClear(r)
  <2>1. Clears(r) \/ Waits(r, "retrying")
    BY <1>2 DEF PostClear, Clears, Waits
  <2> QED BY <1>2, <2>1 DEF PostClear
<1>3. CASE PostRetry(r)
  <2>1. TrySend(r, "evicted") => Queues(r) \/ Waits(r, "evicted")
    BY <1>3 DEF PostRetry, TrySend, Sent, Queues, Waits
  <2> QED BY <1>3, <2>1 DEF PostRetry
<1> QED BY <1>1, <1>2, <1>3 DEF Posts

\* So does a background goroutine that posts its stop.
LEMMA PostStepType ==
  ASSUME TypeOK, NEW r \in RunId, PostStep(r)
  PROVE  TypeOK'
<1> USE DEF ServerTypeOK, chanVars, cancelVars, callerVars
<1>1. CASE PostCheck(r)
  <2>1. /\ [run EXCEPT ![r].st = "dropped"] \in [RunId -> Run]
        /\ [run EXCEPT ![r].st = "posting"] \in [RunId -> Run]
    BY RunStType DEF TypeOK, RunState
  <2>2. run' \in [RunId -> Run]
    BY <1>1, <2>1 DEF PostCheck, Outdated, SaysExited
  <2>3. exited' \in BOOLEAN
    BY <1>1 DEF PostCheck, Outdated, SaysExited, TypeOK
  <2> QED BY <1>1, <2>2, <2>3 DEF PostCheck, Outdated, SaysExited, TypeOK
<1>2. CASE Posts(r)
  <2>1. run' \in [RunId -> Run]
    <3>1. CASE Queues(r)
      BY <3>1, RunStType DEF Queues, TypeOK, RunState
    <3>2. ASSUME NEW s, Waits(r, s) PROVE run' \in [RunId -> Run]
      BY <3>2, RunStType DEF Waits, TypeOK, RunState
    <3>3. CASE Clears(r)
      <4> DEFINE h == Head(stopCh)
                 retrying == [run EXCEPT ![r].st = "retrying"]
      <4>1. h \in RunId
        BY <3>3 DEF Clears, TypeOK
      <4>2. retrying \in [RunId -> Run]
        BY RunStType DEF TypeOK, RunState
      <4>3. run' = [retrying EXCEPT ![h].st = "evicted"]
        BY <3>3 DEF Clears
      <4> HIDE DEF h, retrying
      <4> QED BY <4>1, <4>2, <4>3 DEF Run, RunState
    <3> QED BY <1>2, <3>1, <3>2, <3>3, PostShapes
  <2>2. stopCh' \in Seq(RunId)
    <3>1. CASE Queues(r)
      BY <3>1 DEF Queues, TypeOK
    <3>2. ASSUME NEW s, Waits(r, s) PROVE stopCh' \in Seq(RunId)
      BY <3>2 DEF Waits, TypeOK
    <3>3. CASE Clears(r)
      BY <3>3 DEF Clears, TypeOK
    <3> QED BY <1>2, <3>1, <3>2, <3>3, PostShapes
  <2>3. UNCHANGED <<target, conn, gen, cancelVars, exited, callerVars>>
    BY <1>2, PostShapes
  <2> QED BY <2>1, <2>2, <2>3 DEF TypeOK
<1> QED BY <1>1, <1>2 DEF PostStep, Posts

\* So does cancelWait.
LEMMA CancelWaitType ==
  ASSUME TypeOK, CancelWait
  PROVE  TypeOK'
BY DEF CancelWait, TypeOK, ServerTypeOK, serverVars, chanVars, callerVars

\* Every step of the control keeps its state well typed.
LEMMA NextType ==
  ASSUME TypeOK, [Next]_vars
  PROVE  TypeOK'
<1>1. CASE Server
  BY <1>1, ServerType DEF Server, TypeOK, chanVars, cancelVars, callerVars
<1>2. CASE UNCHANGED vars
  BY <1>2 DEF TypeOK, ServerTypeOK, vars, serverVars, chanVars, cancelVars, callerVars
<1> QED BY <1>1, <1>2, StartCallType, CallStepType, PostStepType, CancelWaitType DEF Next

\* In every behaviour, with any number of callers and executions, the state of
\* the control and of the server it drives is well typed; in particular no
\* label, generation or channel entry is ever out of range.
THEOREM TypeCorrect == Spec => []TypeOK
<1>1. Init => TypeOK
  BY InitType
<1>2. TypeOK /\ [Next]_vars => TypeOK'
  BY NextType
<1> QED BY <1>1, <1>2, PTL DEF Spec

----------------------------------------------------------------------------
(* The server executes for one goroutine at most, and an exit is final. *)

\* An executing run that is answered while the others are left as they are.
LEMMA HaltUpdate ==
  ASSUME TypeOK, HaltTarget
  PROVE  \A r \in RunId :
           \/ /\ run[r].st = "executing"
              /\ run'[r].st = "returned"
              /\ run'[r].gen = run[r].gen
              /\ run'[r].reply = "manual"
           \/ run[r].st # "executing" /\ run'[r] = run[r]
<1>1. run \in [RunId -> Run]
  BY DEF TypeOK, ServerTypeOK
<1>2. run' = [r \in RunId |-> IF run[r].st = "executing"
                              THEN [run[r] EXCEPT !.st = "returned", !.reply = "manual"]
                              ELSE run[r]]
  BY DEF HaltTarget
<1>3. TAKE r \in RunId
<1>4. run[r] \in Run
  BY <1>1
<1>5. CASE run[r].st = "executing"
  <2>1. run'[r] = [run[r] EXCEPT !.st = "returned", !.reply = "manual"]
    BY <1>2, <1>5
  <2> QED BY <1>4, <1>5, <2>1 DEF Run
<1>6. CASE run[r].st # "executing"
  BY <1>2, <1>6
<1> QED BY <1>5, <1>6

\* The end of the connection, execution by execution.
LEMMA LoseUpdate ==
  ASSUME TypeOK, LoseConnection
  PROVE  \A r \in RunId :
           \/ /\ run[r].st = "executing"
              /\ run'[r].st = "returned"
              /\ run'[r].gen = run[r].gen
              /\ run'[r].reply = "lost"
           \/ run[r].st # "executing" /\ run'[r] = run[r]
<1>1. run \in [RunId -> Run]
  BY DEF TypeOK, ServerTypeOK
<1>2. run' = [r \in RunId |-> IF run[r].st = "executing"
                              THEN [run[r] EXCEPT !.st = "returned", !.reply = "lost"]
                              ELSE run[r]]
  BY DEF LoseConnection
<1>3. TAKE r \in RunId
<1>4. run[r] \in Run
  BY <1>1
<1>5. CASE run[r].st = "executing"
  <2>1. run'[r] = [run[r] EXCEPT !.st = "returned", !.reply = "lost"]
    BY <1>2, <1>5
  <2> QED BY <1>4, <1>5, <2>1 DEF Run
<1>6. CASE run[r].st # "executing"
  BY <1>2, <1>6
<1> QED BY <1>5, <1>6

\* The steps that change what the server or an execution is doing.
LEMMA ServerSteps ==
  ASSUME [Next]_vars
  PROVE  \/ UNCHANGED serverVars
         \/ HaltTarget
         \/ ServerNext
         \/ \E c \in Caller : Spawn(c) \/ TakeStop(c)
         \/ \E r \in RunId : PostStep(r)
<1> USE DEF vars, serverVars
<1>1. ASSUME NEW c \in Caller, StartCall(c) PROVE UNCHANGED serverVars
  BY <1>1 DEF StartCall, RunToStop, Interrupt, HaltNow, PollStop
<1>2. ASSUME NEW c \in Caller, CallStep(c)
      PROVE UNCHANGED serverVars \/ HaltTarget \/ Spawn(c) \/ TakeStop(c)
  BY <1>2 DEF CallStep, RaiseGen, NextGen, ProbeRunning, HaltRPC, Issue, ReadGen, CheckRunning,
              Arm,
              Receive, TimerFires, HasTimer, WakeUp, Fn, Poll
<1>3. CancelWait => UNCHANGED serverVars
  BY DEF CancelWait
<1> QED BY <1>1, <1>2, <1>3 DEF Next, Server

\* What the three forms of update to an execution record change, field by field.
LEMMA StUpdate ==
  ASSUME run \in [RunId -> Run], NEW r \in RunId, NEW s,
         run' = [run EXCEPT ![r].st = s]
  PROVE  /\ run'[r].st = s
         /\ run'[r].cmd = run[r].cmd
         /\ run'[r].gen = run[r].gen
         /\ run'[r].reply = run[r].reply
         /\ \A q \in RunId : q # r => run'[q] = run[q]
BY DEF Run

\* The update that answers an execution, field by field.
LEMMA ReplyUpdate ==
  ASSUME run \in [RunId -> Run], NEW r \in RunId, NEW why,
         run' = [run EXCEPT ![r].st = "returned", ![r].reply = why]
  PROVE  /\ run'[r].st = "returned"
         /\ run'[r].cmd = run[r].cmd
         /\ run'[r].gen = run[r].gen
         /\ run'[r].reply = why
         /\ \A q \in RunId : q # r => run'[q] = run[q]
<1>1. run[r] \in Run
  OBVIOUS
<1>2. run' = [run EXCEPT ![r] = [run[r] EXCEPT !.st = "returned", !.reply = why]]
  OBVIOUS
<1> QED BY <1>1, <1>2 DEF Run

\* What clearing a slot changes.
LEMMA ClearUpdate ==
  ASSUME TypeOK, NEW r \in RunId, Clears(r)
  PROVE  /\ Head(stopCh) \in RunId
         /\ \A q \in RunId :
              /\ run'[q].cmd = run[q].cmd
              /\ run'[q].gen = run[q].gen
              /\ run'[q].reply = run[q].reply
              /\ run'[q].st = IF q = Head(stopCh) THEN "evicted"
                              ELSE IF q = r THEN "retrying" ELSE run[q].st
<1> DEFINE h == Head(stopCh)
           retrying == [run EXCEPT ![r].st = "retrying"]
<1>1. run \in [RunId -> Run] /\ h \in RunId
  BY DEF TypeOK, ServerTypeOK, Clears
<1>2. /\ retrying \in [RunId -> Run]
      /\ \A q \in RunId :
           /\ retrying[q].cmd = run[q].cmd
           /\ retrying[q].gen = run[q].gen
           /\ retrying[q].reply = run[q].reply
           /\ retrying[q].st = IF q = r THEN "retrying" ELSE run[q].st
  BY <1>1 DEF Run, RunState
<1>3. run' = [retrying EXCEPT ![h].st = "evicted"]
  BY DEF Clears
<1> HIDE DEF h, retrying
<1>4. \A q \in RunId :
        /\ run'[q].cmd = retrying[q].cmd
        /\ run'[q].gen = retrying[q].gen
        /\ run'[q].reply = retrying[q].reply
        /\ run'[q].st = IF q = h THEN "evicted" ELSE retrying[q].st
  BY <1>1, <1>2, <1>3 DEF Run
<1> QED BY <1>1, <1>2, <1>4 DEF h

\* What a post changes: its own execution's place, and that of the oldest entry
\* of the channel if it clears it.
LEMMA PostUpdate ==
  ASSUME TypeOK, NEW r \in RunId, Posts(r)
  PROVE  \A q \in RunId :
           /\ run'[q].cmd = run[q].cmd
           /\ run'[q].gen = run[q].gen
           /\ run'[q].reply = run[q].reply
           /\ \/ run'[q].st = run[q].st
              \/ /\ q = r
                 /\ run[q].st \in {"posting", "full", "retrying"}
                 /\ run'[q].st \in {"full", "retrying", "queued", "evicted"}
              \/ Clears(r) /\ q = Head(stopCh) /\ run'[q].st = "evicted"
<1>1. run \in [RunId -> Run]
  BY DEF TypeOK, ServerTypeOK
<1>2. ASSUME NEW s \in {"full", "retrying", "queued", "evicted"},
             run[r].st \in {"posting", "full", "retrying"}, run' = [run EXCEPT ![r].st = s]
      PROVE  \A q \in RunId :
               /\ run'[q].cmd = run[q].cmd
               /\ run'[q].gen = run[q].gen
               /\ run'[q].reply = run[q].reply
               /\ \/ run'[q].st = run[q].st
                  \/ /\ q = r
                     /\ run[q].st \in {"posting", "full", "retrying"}
                     /\ run'[q].st \in {"full", "retrying", "queued", "evicted"}
  BY <1>1, <1>2, StUpdate
<1>3. CASE Queues(r)
  BY <1>2, <1>3 DEF Queues
<1>4. ASSUME NEW s, Waits(r, s)
      PROVE  \A q \in RunId :
               /\ run'[q].cmd = run[q].cmd
               /\ run'[q].gen = run[q].gen
               /\ run'[q].reply = run[q].reply
               /\ \/ run'[q].st = run[q].st
                  \/ /\ q = r
                     /\ run[q].st \in {"posting", "full", "retrying"}
                     /\ run'[q].st \in {"full", "retrying", "queued", "evicted"}
  BY <1>2, <1>4 DEF Waits
<1>5. CASE Clears(r)
  BY <1>5, ClearUpdate DEF Clears
<1> QED BY <1>3, <1>4, <1>5, PostShapes

\* No step lets the server execute for two goroutines or undo an exit.
LEMMA ServerInvStep ==
  ASSUME TypeOK, ServerInv, [Next]_vars
  PROVE  ServerInv'
<1> USE DEF ServerInv, TypeOK, ServerTypeOK
<1>1. CASE UNCHANGED serverVars
  BY <1>1 DEF serverVars
<1>2. CASE HaltTarget
  BY <1>2, HaltUpdate DEF HaltTarget
<1>3. CASE ServerNext
  <2>1. ASSUME NEW r \in RunId, Accept(r) PROVE ServerInv'
    <3>1. CASE target = "stopped" /\ target' = "running" /\ conn = "open"
               /\ run' = [run EXCEPT ![r].st = "executing"]
      BY <2>1, <3>1, StUpdate DEF Accept
    <3>2. CASE /\ target = "exited" /\ UNCHANGED target
               /\ run' = [run EXCEPT ![r].st = "returned", ![r].reply = "exited"]
      BY <2>1, <3>2, ReplyUpdate DEF Accept
    <3>3. CASE /\ conn = "lost" /\ UNCHANGED target
               /\ run' = [run EXCEPT ![r].st = "returned", ![r].reply = "lost"]
      BY <2>1, <3>3, ReplyUpdate DEF Accept
    <3> QED BY <2>1, <3>1, <3>2, <3>3 DEF Accept
  <2>2. ASSUME NEW r \in RunId, NEW why \in Reply, Finish(r, why) PROVE ServerInv'
    <3>1. /\ run'[r].st = "returned"
          /\ run'[r].reply = why
          /\ \A q \in RunId : q # r => run'[q] = run[q]
      BY <2>2, ReplyUpdate DEF Finish
    <3>2. \A q \in RunId : q # r => run[q].st # "executing"
      BY <2>2 DEF Finish
    <3> QED BY <2>2, <3>1, <3>2 DEF Finish
  <2>3. CASE OtherClient
    BY <2>3 DEF OtherClient
  <2>4. CASE LoseConnection
    BY <2>4, LoseUpdate DEF LoseConnection
  <2> QED BY <1>3, <2>1, <2>2, <2>3, <2>4 DEF ServerNext
<1>4. ASSUME NEW c \in Caller, Spawn(c) PROVE ServerInv'
  BY <1>4 DEF Spawn, Fresh, Run
<1>5. ASSUME NEW c \in Caller, TakeStop(c) PROVE ServerInv'
  <2>1. Head(stopCh) \in RunId
    BY <1>5 DEF TakeStop, Stale
  <2>2. PICK s \in {"dropped", "reported"} : run' = [run EXCEPT ![Head(stopCh)].st = s]
    BY <1>5 DEF TakeStop, Stale
  <2> QED BY <1>5, <2>1, <2>2, StUpdate DEF TakeStop, Stale
<1>6. ASSUME NEW r \in RunId, PostCheck(r) PROVE ServerInv'
  <2>1. PICK s \in {"dropped", "posting"} : run' = [run EXCEPT ![r].st = s]
    BY <1>6 DEF PostCheck, Outdated, SaysExited
  <2> QED BY <1>6, <2>1, StUpdate DEF PostCheck, Outdated, SaysExited
<1>7. ASSUME NEW r \in RunId, Posts(r) PROVE ServerInv'
  <2>1. UNCHANGED <<target, conn>>
    BY <1>7, PostShapes
  <2>2. \A q \in RunId :
          /\ run'[q].reply = run[q].reply
          /\ run'[q].st \in {"unused", "issued", "executing"} => run'[q].st = run[q].st
    BY <1>7, PostUpdate
  <2> QED BY <2>1, <2>2
<1> QED BY ServerSteps, <1>1, <1>2, <1>3, <1>4, <1>5, <1>6, <1>7 DEF PostStep, Posts

\* What the theorems below rely on of the environment, by the server's own actions
\* and whatever the client does: it executes one command at a time, only while
\* the target runs, and what it replies of an exit is true.
LEMMA ServerSafe == Spec => []ServerInv
<1>1. Init => ServerInv
  BY DEF Init, ServerInv, Unused
<1>2. TypeOK /\ ServerInv /\ [Next]_vars => ServerInv'
  BY ServerInvStep
<1> QED BY <1>1, <1>2, TypeCorrect, PTL DEF Spec

----------------------------------------------------------------------------
(* Each stop is on the channel or with one caller, never both. *)

\* The head of a channel is one of its entries.
LEMMA HeadElem ==
  ASSUME NEW s \in Seq(RunId), s # <<>>
  PROVE  Head(s) \in RunId /\ Head(s) \in Elems(s)
<1>1. 1 \in 1..Len(s) /\ Head(s) = s[1] /\ s[1] \in RunId
  OBVIOUS
<1> QED BY <1>1 DEF Elems

\* Receiving removes the head and nothing else.
LEMMA TailElems ==
  ASSUME NEW s \in Seq(RunId), s # <<>>, NoRepeat(s)
  PROVE  /\ NoRepeat(Tail(s))
         /\ Elems(Tail(s)) = Elems(s) \ {Head(s)}
<1>1. /\ Tail(s) \in Seq(RunId)
      /\ Len(s) \in Nat \ {0}
      /\ Len(Tail(s)) = Len(s) - 1
      /\ Head(s) = s[1]
      /\ \A i \in 1..(Len(s) - 1) : Tail(s)[i] = s[i + 1]
  OBVIOUS
<1>2. NoRepeat(Tail(s))
  BY <1>1 DEF NoRepeat
<1>3. ASSUME NEW q \in Elems(Tail(s)) PROVE q \in Elems(s) \ {Head(s)}
  <2>1. PICK i \in 1..(Len(s) - 1) : q = s[i + 1]
    BY <1>1, <1>3 DEF Elems
  <2>2. i + 1 \in 1..Len(s) /\ 1 \in 1..Len(s) /\ i + 1 # 1
    BY <1>1
  <2> QED BY <1>1, <2>1, <2>2 DEF Elems, NoRepeat
<1>4. ASSUME NEW q \in Elems(s) \ {Head(s)} PROVE q \in Elems(Tail(s))
  <2>1. PICK i \in 1..Len(s) : q = s[i]
    BY <1>4 DEF Elems
  <2>2. i # 1
    BY <1>1, <1>4, <2>1
  <2>3. i - 1 \in 1..(Len(s) - 1) /\ Tail(s)[i - 1] = q
    BY <1>1, <2>1, <2>2
  <2> QED BY <1>1, <2>3 DEF Elems
<1> QED BY <1>2, <1>3, <1>4

\* Sending a stop that is not on the channel adds it, once.
LEMMA AppendElems ==
  ASSUME NEW s \in Seq(RunId), NEW r \in RunId, NoRepeat(s), r \notin Elems(s)
  PROVE  /\ NoRepeat(Append(s, r))
         /\ Elems(Append(s, r)) = Elems(s) \cup {r}
<1> DEFINE t == Append(s, r)
<1>1. /\ t \in Seq(RunId)
      /\ Len(s) \in Nat
      /\ Len(t) = Len(s) + 1
      /\ \A i \in 1..Len(s) : t[i] = s[i]
      /\ t[Len(s) + 1] = r
  OBVIOUS
<1> HIDE DEF t
<1>2. \A i \in 1..Len(s) : s[i] # r
  BY DEF Elems
<1>3. NoRepeat(t)
  <2>1. SUFFICES ASSUME NEW i \in 1..Len(t), NEW j \in 1..Len(t), t[i] = t[j]
                 PROVE  i = j
    BY DEF NoRepeat
  <2>2. i \in 1..Len(s) \/ i = Len(s) + 1
    BY <1>1
  <2>3. j \in 1..Len(s) \/ j = Len(s) + 1
    BY <1>1
  <2> QED BY <1>1, <1>2, <2>1, <2>2, <2>3 DEF NoRepeat
<1>4. ASSUME NEW q \in Elems(t) PROVE q \in Elems(s) \cup {r}
  <2>1. PICK i \in 1..Len(t) : q = t[i]
    BY <1>4 DEF Elems
  <2>2. i \in 1..Len(s) \/ i = Len(s) + 1
    BY <1>1
  <2> QED BY <1>1, <2>1, <2>2 DEF Elems
<1>5. ASSUME NEW q \in Elems(s) \cup {r} PROVE q \in Elems(t)
  <2>1. CASE q = r
    BY <1>1, <2>1 DEF Elems
  <2>2. CASE q \in Elems(s)
    <3>1. PICK i \in 1..Len(s) : q = s[i]
      BY <2>2 DEF Elems
    <3>2. i \in 1..Len(t) /\ t[i] = q
      BY <1>1, <3>1
    <3> QED BY <3>2 DEF Elems
  <2> QED BY <1>5, <2>1, <2>2
<1> QED BY <1>3, <1>4, <1>5 DEF t

\* The steps that change the channel, or which executions are on it or were
\* reported.
LEMMA ChannelSteps ==
  ASSUME TypeOK, ServerInv, [Next]_vars
  PROVE  \/ \E c \in Caller : TakeStop(c)
         \/ \E r \in RunId : Posts(r)
         \/ /\ UNCHANGED stopCh
            /\ \A r \in RunId :
                 run'[r].st # run[r].st => /\ run[r].st \notin {"queued", "reported"}
                                           /\ run'[r].st \notin {"queued", "reported"}
            /\ \A c \in Caller : answer'[c].run \in {answer[c].run, NoRun}
<1> DEFINE Quiet == /\ UNCHANGED stopCh
                    /\ \A r \in RunId :
                         run'[r].st # run[r].st => /\ run[r].st \notin {"queued", "reported"}
                                                   /\ run'[r].st \notin {"queued", "reported"}
                    /\ \A c \in Caller : answer'[c].run \in {answer[c].run, NoRun}
<1>1. run \in [RunId -> Run] /\ answer \in [Caller -> Answer]
  BY DEF TypeOK, ServerTypeOK
<1>2. ASSUME NEW c \in Caller, NEW label, Goto(c, label)
      PROVE  \A d \in Caller : answer'[d].run \in {answer[d].run, NoRun}
  BY <1>2 DEF Goto
<1>3. ASSUME NEW c \in Caller, NEW kind, Return(c, kind, NoRun)
      PROVE  \A d \in Caller : answer'[d].run \in {answer[d].run, NoRun}
  BY <1>1, <1>3 DEF Return
<1>4. ASSUME NEW c \in Caller, NEW op, NEW label, Enter(c, op, label)
      PROVE  \A d \in Caller : answer'[d].run \in {answer[d].run, NoRun}
  BY <1>1, <1>4 DEF Enter, NoAnswer
<1>5. ASSUME NEW c \in Caller, StartCall(c) PROVE Quiet
  <2>1. UNCHANGED <<stopCh, run>>
    BY <1>5 DEF StartCall, RunToStop, Interrupt, HaltNow, PollStop, serverVars, chanVars
  <2>2. \A d \in Caller : answer'[d].run \in {answer[d].run, NoRun}
    BY <1>3, <1>4, <1>5 DEF StartCall, RunToStop, Interrupt, HaltNow, PollStop
  <2> QED BY <2>1, <2>2
<1>6. ASSUME NEW c \in Caller, CallStep(c) PROVE Quiet \/ TakeStop(c)
  <2>1. ASSUME NEW halted, HaltDone(c, halted) \/ HaltFailed(c)
        PROVE  \A d \in Caller : answer'[d].run \in {answer[d].run, NoRun}
    BY <1>2, <1>3, <2>1 DEF HaltDone, HaltFailed, ErrorKind
  <2>2. ASSUME NEW r, Started(c, r)
        PROVE  \A d \in Caller : answer'[d].run \in {answer[d].run, NoRun}
    BY <1>2, <1>3, <2>2 DEF Started
  <2>3. CASE HaltRPC(c)
    <3>1. UNCHANGED stopCh /\ \A d \in Caller : answer'[d].run \in {answer[d].run, NoRun}
      BY <2>1, <2>3 DEF HaltRPC, chanVars
    <3> QED BY <2>3, <3>1, HaltUpdate DEF HaltRPC, serverVars
  <2>4. CASE Spawn(c)
    <3>1. UNCHANGED stopCh /\ \A d \in Caller : answer'[d].run \in {answer[d].run, NoRun}
      BY <2>2, <2>4 DEF Spawn, chanVars
    <3> QED BY <1>1, <2>4, <3>1 DEF Spawn, Fresh
  <2>5. CASE Receive(c) \/ Poll(c)
    BY <1>3, <2>5 DEF Receive, Poll, serverVars, chanVars
  <2>6. CASE RaiseGen(c) \/ ProbeRunning(c) \/ Issue(c) \/ CheckRunning(c) \/ Arm(c)
             \/ TimerFires(c) \/ WakeUp(c) \/ Fn(c)
    <3>1. UNCHANGED <<stopCh, run>>
      BY <2>6 DEF RaiseGen, NextGen, ProbeRunning, Issue, ReadGen, CheckRunning, Arm,
                  TimerFires, HasTimer, WakeUp,
                  Fn, serverVars, chanVars
    <3>2. \A d \in Caller : answer'[d].run \in {answer[d].run, NoRun}
      BY <1>2, <1>3, <2>1, <2>2, <2>6
         DEF RaiseGen, NextGen, ProbeRunning, Issue, ReadGen, CheckRunning, Arm, TimerFires,
             HasTimer, WakeUp, Fn
    <3> QED BY <3>1, <3>2
  <2> QED BY <1>6, <2>3, <2>4, <2>5, <2>6 DEF CallStep
<1>7. ASSUME NEW r \in RunId, PostCheck(r) PROVE Quiet
  <2>1. PICK s \in {"dropped", "posting"} : run' = [run EXCEPT ![r].st = s]
    BY <1>7 DEF PostCheck, Outdated, SaysExited
  <2> QED BY <1>1, <1>7, <2>1, StUpdate DEF PostCheck, Outdated, SaysExited, chanVars, callerVars
<1>8. CASE CancelWait
  BY <1>8 DEF CancelWait, serverVars, chanVars, callerVars
<1>9. CASE Server
  <2>1. UNCHANGED <<stopCh, answer>>
    BY <1>9 DEF Server, chanVars, callerVars
  <2>2. ASSUME NEW r \in RunId, Accept(r) PROVE Quiet
    <3>1. CASE run' = [run EXCEPT ![r].st = "executing"]
      BY <1>1, <2>1, <2>2, <3>1, StUpdate DEF Accept
    <3>2. CASE run' = [run EXCEPT ![r].st = "returned", ![r].reply = "exited"]
      BY <1>1, <2>1, <2>2, <3>2, ReplyUpdate DEF Accept
    <3>3. CASE run' = [run EXCEPT ![r].st = "returned", ![r].reply = "lost"]
      BY <1>1, <2>1, <2>2, <3>3, ReplyUpdate DEF Accept
    <3> QED BY <2>2, <3>1, <3>2, <3>3 DEF Accept
  <2>3. ASSUME NEW r \in RunId, NEW why \in Reply, Finish(r, why) PROVE Quiet
    BY <1>1, <2>1, <2>3, ReplyUpdate DEF Finish
  <2>4. CASE OtherClient
    BY <2>1, <2>4 DEF OtherClient
  <2>5. CASE LoseConnection
    BY <2>1, <2>5, LoseUpdate
  <2> QED BY <1>9, <2>2, <2>3, <2>4, <2>5 DEF Server, ServerNext
<1>10. CASE UNCHANGED vars
  BY <1>10 DEF vars, serverVars, chanVars, callerVars
<1> QED BY <1>5, <1>6, <1>7, <1>8, <1>9, <1>10 DEF Next, PostStep, Posts

\* No step puts a reported stop back or hands one stop to two callers.
LEMMA ReportedOnceStep ==
  ASSUME TypeOK, ServerInv, ReportedOnce, [Next]_vars
  PROVE  ReportedOnce'
<1>1. run \in [RunId -> Run] /\ answer \in [Caller -> Answer] /\ stopCh \in Seq(RunId)
  BY DEF TypeOK, ServerTypeOK
<1>2. ASSUME NEW c \in Caller, TakeStop(c) PROVE ReportedOnce'
  <2> DEFINE r == Head(stopCh)
  <2>1. r \in RunId /\ r \in Elems(stopCh) /\ stopCh # <<>> /\ stopCh' = Tail(stopCh)
    BY <1>1, <1>2 DEF TakeStop, Stale, Elems
  <2>2. NoRepeat(stopCh') /\ Elems(stopCh') = Elems(stopCh) \ {r}
    BY <1>1, <2>1, TailElems DEF ReportedOnce
  <2>3. run[r].st = "queued"
    BY <2>1 DEF ReportedOnce
  <2> HIDE DEF r
  <2>4. PICK s \in {"dropped", "reported"} : run' = [run EXCEPT ![r].st = s]
    BY <1>2 DEF TakeStop, Stale, r
  <2>5. \A q \in RunId : q \in Elems(stopCh') <=> run'[q].st = "queued"
    BY <1>1, <2>1, <2>2, <2>4, StUpdate DEF ReportedOnce
  <2>6. \A d \in Caller : answer[d].run # NoRun => answer[d].run \in RunId \ {r}
    BY <1>1, <2>3 DEF ReportedOnce, Answer
  <2>7. CASE UNCHANGED answer
    <3>1. \A d \in Caller : answer'[d].run # NoRun => run'[answer'[d].run].st = "reported"
      BY <1>1, <2>1, <2>4, <2>6, <2>7, StUpdate DEF ReportedOnce
    <3> QED BY <2>2, <2>5, <2>7, <3>1 DEF ReportedOnce
  <2>8. CASE s = "reported" /\ \E kind : Return(c, kind, r)
    <3>1. answer'[c].run = r /\ \A d \in Caller : d # c => answer'[d] = answer[d]
      BY <1>1, <2>8 DEF Return
    <3>2. \A d \in Caller : answer'[d].run # NoRun => run'[answer'[d].run].st = "reported"
      BY <1>1, <2>1, <2>4, <2>6, <2>8, <3>1, StUpdate DEF ReportedOnce
    <3>3. \A d, e \in Caller : answer'[d].run = answer'[e].run /\ answer'[d].run # NoRun => d = e
      BY <2>6, <3>1 DEF ReportedOnce
    <3> QED BY <2>2, <2>5, <3>2, <3>3 DEF ReportedOnce
  <2>9. \/ UNCHANGED answer
        \/ run' = [run EXCEPT ![r].st = "reported"] /\ \E kind : Return(c, kind, r)
    BY <1>2 DEF TakeStop, Stale, Goto, r
  <2>10. run' = [run EXCEPT ![r].st = "reported"] => s = "reported"
    <3> SUFFICES ASSUME run' = [run EXCEPT ![r].st = "reported"] PROVE s = "reported"
      OBVIOUS
    <3>1. run'[r].st = s
      BY <1>1, <2>1, <2>4, StUpdate
    <3>2. run'[r].st = "reported"
      BY <1>1, <2>1, StUpdate
    <3> QED BY <3>1, <3>2
  <2> QED BY <2>7, <2>8, <2>9, <2>10
<1>3. ASSUME NEW r \in RunId, Posts(r) PROVE ReportedOnce'
  <2>1. UNCHANGED answer
    BY <1>3, PostShapes DEF callerVars
  <2>2. \A d \in Caller : answer[d].run # NoRun => answer[d].run \in RunId
    BY <1>1 DEF Answer
  <2>3. CASE Queues(r)
    <3>1. r \notin Elems(stopCh) /\ run[r].st # "reported" /\ stopCh' = Append(stopCh, r)
      BY <2>3 DEF Queues, ReportedOnce
    <3>2. NoRepeat(stopCh') /\ Elems(stopCh') = Elems(stopCh) \cup {r}
      BY <1>1, <3>1, AppendElems DEF ReportedOnce
    <3>3. \A q \in RunId : run'[q].st = IF q = r THEN "queued" ELSE run[q].st
      BY <1>1, <2>3, StUpdate DEF Queues
    <3> QED BY <2>1, <2>2, <3>1, <3>2, <3>3 DEF ReportedOnce
  <2>4. ASSUME NEW s, Waits(r, s) PROVE ReportedOnce'
    <3>1. UNCHANGED stopCh /\ run[r].st \notin {"queued", "reported"} /\ s # "queued"
      BY <2>4 DEF Waits
    <3>2. \A q \in RunId : run'[q].st = IF q = r THEN s ELSE run[q].st
      BY <1>1, <2>4, StUpdate DEF Waits
    <3> QED BY <2>1, <2>2, <3>1, <3>2 DEF ReportedOnce
  <2>5. CASE Clears(r)
    <3> DEFINE h == Head(stopCh)
    <3>1. /\ run[r].st = "full"
          /\ stopCh # <<>> /\ stopCh' = Tail(stopCh)
          /\ h \in RunId /\ h \in Elems(stopCh)
      BY <1>1, <2>5, HeadElem DEF Clears
    <3>2. NoRepeat(stopCh') /\ Elems(stopCh') = Elems(stopCh) \ {h}
      BY <1>1, <3>1, TailElems DEF ReportedOnce
    <3>3. \A q \in RunId : run'[q].st = IF q = h THEN "evicted"
                                         ELSE IF q = r THEN "retrying" ELSE run[q].st
      BY <2>5, ClearUpdate
    <3>4. run[h].st = "queued"
      BY <3>1 DEF ReportedOnce
    <3> HIDE DEF h
    <3> QED BY <2>1, <2>2, <3>1, <3>2, <3>3, <3>4 DEF ReportedOnce
  <2> QED BY <1>3, <2>3, <2>4, <2>5, PostShapes
<1>4. CASE /\ UNCHANGED stopCh
           /\ \A r \in RunId :
                 run'[r].st # run[r].st => /\ run[r].st \notin {"queued", "reported"}
                                           /\ run'[r].st \notin {"queued", "reported"}
           /\ \A c \in Caller : answer'[c].run \in {answer[c].run, NoRun}
  <2>1. \A d \in Caller : answer[d].run # NoRun => answer[d].run \in RunId
    BY <1>1 DEF Answer
  <2> QED BY <1>4, <2>1 DEF ReportedOnce
<1> QED BY <1>2, <1>3, <1>4, ChannelSteps

\* With any number of concurrent readers of the channel, each stop is handed to
\* one of them at most, and what a caller holds is no longer on the channel.
THEOREM DeliveredOnce == Spec => []ReportedOnce
<1>1. Init => ReportedOnce
  BY DEF Init, ReportedOnce, Unused, NoAnswer, Elems, NoRepeat
<1>2. TypeOK /\ ServerInv /\ ReportedOnce /\ [Next]_vars => ReportedOnce'
  BY ReportedOnceStep
<1> QED BY <1>1, <1>2, TypeCorrect, ServerSafe, PTL DEF Spec

----------------------------------------------------------------------------
(* The session's note of an exit. *)

\* No step notes an exit that did not happen, or posts one it did not note.
LEMMA ExitNoteStep ==
  ASSUME TypeOK, ServerInv, ReportedOnce, ExitNoteTruthful, [Next]_vars
  PROVE  ExitNoteTruthful'
<1>1. run \in [RunId -> Run] /\ stopCh \in Seq(RunId)
  BY DEF TypeOK, ServerTypeOK
<1>2. (\E r \in RunId : PostCheck(r)) \/ UNCHANGED exited
  BY DEF Next, StartCall, RunToStop, Interrupt, HaltNow, PollStop, CallStep, RaiseGen, NextGen,
         ProbeRunning, HaltRPC, Issue, ReadGen, CheckRunning, Spawn, Arm, Receive, TakeStop,
         Stale,
         TimerFires, HasTimer, WakeUp, Fn, Poll, PostStep, PostSend, PostClear, PostRetry,
         CancelWait, Server,
         vars
<1>3. CASE UNCHANGED serverVars /\ UNCHANGED exited
  BY <1>3 DEF serverVars, ExitNoteTruthful
<1>4. CASE HaltTarget /\ UNCHANGED exited
  BY <1>4, HaltUpdate DEF HaltTarget, ExitNoteTruthful
<1>5. CASE ServerNext /\ UNCHANGED exited
  <2>1. target = "exited" => UNCHANGED target
    BY <1>5 DEF ServerNext, Accept, Finish, OtherClient, LoseConnection, ServerInv
  <2> DEFINE Kept == \A r \in RunId :
                       \/ run'[r].st \in {"executing", "returned"}
                       \/ run'[r].st = run[r].st /\ run'[r].reply = run[r].reply
  <2>2. ASSUME NEW q \in RunId, Accept(q) PROVE Kept
    <3>1. CASE run' = [run EXCEPT ![q].st = "executing"]
      BY <1>1, <3>1, StUpdate
    <3>2. CASE run' = [run EXCEPT ![q].st = "returned", ![q].reply = "exited"]
      BY <1>1, <3>2, ReplyUpdate
    <3>3. CASE run' = [run EXCEPT ![q].st = "returned", ![q].reply = "lost"]
      BY <1>1, <3>3, ReplyUpdate
    <3> QED BY <2>2, <3>1, <3>2, <3>3 DEF Accept
  <2>3. ASSUME NEW q \in RunId, NEW why \in Reply, Finish(q, why) PROVE Kept
    BY <1>1, <2>3, ReplyUpdate DEF Finish
  <2>4. OtherClient => Kept
    BY DEF OtherClient
  <2>5. LoseConnection => Kept
    BY LoseUpdate
  <2>6. Kept
    BY <1>5, <2>2, <2>3, <2>4, <2>5 DEF ServerNext
  <2> QED BY <1>5, <2>1, <2>6 DEF ExitNoteTruthful
<1>6. ASSUME NEW c \in Caller, Spawn(c), UNCHANGED exited PROVE ExitNoteTruthful'
  BY <1>1, <1>6 DEF Spawn, Fresh, ExitNoteTruthful
<1>7. ASSUME NEW c \in Caller, TakeStop(c), UNCHANGED exited PROVE ExitNoteTruthful'
  <2> DEFINE r == Head(stopCh)
  <2>1. r \in RunId /\ run[r].st = "queued"
    BY <1>1, <1>7, HeadElem DEF TakeStop, Stale, ReportedOnce
  <2>2. PICK s \in {"dropped", "reported"} : run' = [run EXCEPT ![r].st = s]
    BY <1>7 DEF TakeStop, Stale
  <2>3. UNCHANGED target
    BY <1>7 DEF TakeStop, Stale
  <2> HIDE DEF r
  <2> QED BY <1>1, <1>7, <2>1, <2>2, <2>3, StUpdate DEF ExitNoteTruthful
<1>8. ASSUME NEW r \in RunId, PostCheck(r) PROVE ExitNoteTruthful'
  <2>1. CASE run' = [run EXCEPT ![r].st = "dropped"] /\ UNCHANGED exited
    BY <1>1, <1>8, <2>1, StUpdate DEF PostCheck, Outdated, SaysExited, ExitNoteTruthful
  <2>2. CASE /\ run' = [run EXCEPT ![r].st = "posting"]
             /\ exited' = (exited \/ run[r].reply = "exited")
    BY <1>1, <1>8, <2>2, StUpdate DEF PostCheck, Outdated, SaysExited, ExitNoteTruthful, ServerInv
  <2> QED BY <1>8, <2>1, <2>2 DEF PostCheck, Outdated, SaysExited
<1>9. ASSUME NEW r \in RunId, Posts(r), UNCHANGED exited PROVE ExitNoteTruthful'
  <2>1. UNCHANGED target
    BY <1>9, PostShapes
  <2> QED BY <1>9, <2>1, PostUpdate DEF ExitNoteTruthful
<1> QED BY ServerSteps, <1>2, <1>3, <1>4, <1>5, <1>6, <1>7, <1>8, <1>9 DEF PostStep, Posts

\* The session never claims an exit that did not happen, and by the time any
\* caller can read an exit off the channel the session has noted it.
THEOREM ExitTruthful == Spec => []ExitNoteTruthful
<1>1. Init => ExitNoteTruthful
  BY DEF Init, ExitNoteTruthful, Unused
<1>2. TypeOK /\ ServerInv /\ ReportedOnce /\ ExitNoteTruthful /\ [Next]_vars
        => ExitNoteTruthful'
  BY ExitNoteStep
<1> QED BY <1>1, <1>2, TypeCorrect, ServerSafe, DeliveredOnce, PTL DEF Spec

----------------------------------------------------------------------------
(* Generations and the shape of the operations. *)

\* Steps that leave the callers and the generation alone never make an
\* execution live, nor do they give it a "manual" reply.
LEMMA BackgroundStep ==
  ASSUME TypeOK, ServerInv, ReportedOnce,
         ServerNext \/ \E r \in RunId : PostStep(r)
  PROVE  \A r \in RunId :
           /\ run'[r].gen = run[r].gen
           /\ \/ /\ run[r].st \in {"issued", "executing"}
                 /\ run'[r].st \in {"executing", "returned"}
                 /\ run'[r].reply # "manual"
              \/ /\ run[r].st = "returned" /\ run[r].gen < gen
                 /\ run'[r].st = "dropped"
                 /\ run'[r].reply = run[r].reply
              \/ /\ run[r].st = "returned" /\ run[r].gen >= gen
                 /\ run'[r].st = "posting"
                 /\ run'[r].reply = run[r].reply
              \/ /\ run[r].st \in {"posting", "full", "retrying", "queued"}
                 /\ run'[r].st \in {"full", "retrying", "queued", "evicted"}
                 /\ run'[r].reply = run[r].reply
              \/ run'[r].st = run[r].st /\ run'[r].reply = run[r].reply
<1> USE DEF ServerInv
<1>1. run \in [RunId -> Run] /\ stopCh \in Seq(RunId) /\ Len(stopCh) \in Nat
  BY DEF TypeOK, ServerTypeOK
<1>2. ASSUME NEW q \in RunId, Accept(q)
      PROVE  \A r \in RunId :
               /\ run'[r].gen = run[r].gen
               /\ \/ /\ run[r].st = "issued"
                     /\ run'[r].st \in {"executing", "returned"}
                     /\ run'[r].reply # "manual"
                  \/ run'[r].st = run[r].st /\ run'[r].reply = run[r].reply
  <2> run[q].st = "issued"
    BY <1>2 DEF Accept
  <2>1. CASE run' = [run EXCEPT ![q].st = "executing"]
    BY <1>1, <2>1, StUpdate
  <2>2. CASE run' = [run EXCEPT ![q].st = "returned", ![q].reply = "exited"]
    BY <1>1, <2>2, ReplyUpdate
  <2>3. CASE run' = [run EXCEPT ![q].st = "returned", ![q].reply = "lost"]
    <3>1. /\ run'[q].st = "returned" /\ run'[q].gen = run[q].gen /\ run'[q].reply = "lost"
          /\ \A r \in RunId : r # q => run'[r] = run[r]
      BY <1>1, <2>3, ReplyUpdate
    <3> QED BY <3>1
  <2> QED BY <1>2, <2>1, <2>2, <2>3 DEF Accept
<1>3. ASSUME NEW q \in RunId, NEW why \in Reply, Finish(q, why)
      PROVE  \A r \in RunId :
               /\ run'[r].gen = run[r].gen
               /\ \/ /\ run[r].st = "executing"
                     /\ run'[r].st = "returned"
                     /\ run'[r].reply # "manual"
                  \/ run'[r].st = run[r].st /\ run'[r].reply = run[r].reply
  BY <1>1, <1>3, ReplyUpdate DEF Finish
<1>4. CASE OtherClient
  BY <1>4 DEF OtherClient
<1>5. CASE LoseConnection
  BY <1>5, LoseUpdate
<1>6. ASSUME NEW q \in RunId, PostCheck(q)
      PROVE  \A r \in RunId :
               /\ run'[r].gen = run[r].gen
               /\ run'[r].reply = run[r].reply
               /\ \/ run[r].st = "returned" /\ run[r].gen < gen /\ run'[r].st = "dropped"
                  \/ run[r].st = "returned" /\ run[r].gen >= gen /\ run'[r].st = "posting"
                  \/ run'[r].st = run[r].st
  <2>1. CASE run[q].gen < gen /\ run' = [run EXCEPT ![q].st = "dropped"]
    BY <1>1, <1>6, <2>1, StUpdate DEF PostCheck, Outdated, SaysExited
  <2>2. CASE run[q].gen >= gen /\ run' = [run EXCEPT ![q].st = "posting"]
    BY <1>1, <1>6, <2>2, StUpdate DEF PostCheck, Outdated, SaysExited
  <2>3. run[q].gen < gen \/ run[q].gen >= gen
    BY <1>1 DEF TypeOK, Run
  <2> QED BY <1>6, <2>1, <2>2, <2>3 DEF PostCheck, Outdated
<1>7. ASSUME NEW q \in RunId, Posts(q)
      PROVE  \A r \in RunId :
               /\ run'[r].gen = run[r].gen
               /\ run'[r].reply = run[r].reply
               /\ \/ /\ run[r].st \in {"posting", "full", "retrying", "queued"}
                     /\ run'[r].st \in {"full", "retrying", "queued", "evicted"}
                  \/ run'[r].st = run[r].st
  <2>1. Clears(q) => run[Head(stopCh)].st = "queued"
    BY <1>1, HeadElem DEF Clears, ReportedOnce
  <2> QED BY <1>7, <2>1, PostUpdate
<1> QED BY <1>2, <1>3, <1>4, <1>5, <1>6, <1>7 DEF ServerNext, PostStep, Posts

\* The same for a caller taking a stop off the channel.
LEMMA TakeStopUpdate ==
  ASSUME TypeOK, ReportedOnce, NEW c \in Caller, TakeStop(c)
  PROVE  /\ Head(stopCh) \in RunId
         /\ run[Head(stopCh)].st = "queued"
         /\ \A r \in RunId :
              /\ run'[r].gen = run[r].gen
              /\ run'[r].reply = run[r].reply
              /\ \/ /\ r = Head(stopCh)
                    /\ run'[r].st \in {"dropped", "reported"}
                 \/ run'[r].st = run[r].st
<1>1. run \in [RunId -> Run] /\ stopCh \in Seq(RunId) /\ stopCh # <<>>
  BY DEF TypeOK, ServerTypeOK, TakeStop, Stale
<1>2. Head(stopCh) \in RunId /\ run[Head(stopCh)].st = "queued"
  BY <1>1, HeadElem DEF ReportedOnce
<1>3. PICK s \in {"dropped", "reported"} : run' = [run EXCEPT ![Head(stopCh)].st = s]
  BY DEF TakeStop, Stale
<1> QED BY <1>1, <1>2, <1>3, StUpdate

\* A caller's own steps leave the other callers where they are.
LEMMA CallerFrame ==
  ASSUME TypeOK, NEW c \in Caller, StartCall(c) \/ CallStep(c),
         NEW d \in Caller, d # c
  PROVE  pc'[d] = pc[d] /\ call'[d] = call[d]
<1> USE DEF TypeOK, Goto, Return, Enter
<1>1. CASE StartCall(c)
  BY <1>1 DEF StartCall, RunToStop, Interrupt, HaltNow, PollStop
<1>2. CASE RaiseGen(c) \/ Issue(c) \/ Arm(c) \/ TimerFires(c) \/ WakeUp(c) \/ Fn(c)
  BY <1>2 DEF RaiseGen, NextGen, Issue, ReadGen, Arm, TimerFires, HasTimer, WakeUp, Fn
<1>3. CASE ProbeRunning(c) \/ HaltRPC(c)
  BY <1>3 DEF ProbeRunning, HaltRPC, HaltDone, HaltFailed, ErrorKind
<1>4. CASE CheckRunning(c) \/ Spawn(c)
  BY <1>4 DEF CheckRunning, Spawn, Started
<1>5. CASE Receive(c) \/ Poll(c)
  BY <1>5 DEF Receive, Poll, TakeStop, Stale
<1> QED BY <1>1, <1>2, <1>3, <1>4, <1>5 DEF CallStep

\* Where the step of a caller's own operation takes it.
OwnShape(c) ==
  /\ pc[c] \in {"issue", "arm", "select"} => call[c].op = "RunToStop"
  /\ pc[c] \in {"check", "spawn"} => call[c].op \in {"RunToStop", "Interrupt", "StartRun"}
  /\ pc[c] = "fn" => call[c].op = "Interrupt"
  /\ pc[c] = "poll" => call[c].op = "PollStop"

\* An operation only ever moves on along its own code.
LEMMA OwnShapeStep ==
  ASSUME TypeOK, NEW c \in Caller, OwnShape(c), StartCall(c) \/ CallStep(c)
  PROVE  OwnShape(c)'
<1> USE DEF OwnShape
<1>1. pc \in [Caller -> Label] /\ call \in [Caller -> Call]
  BY DEF TypeOK
<1>2. ASSUME NEW label, Goto(c, label) PROVE pc'[c] = label
  BY <1>1, <1>2 DEF Goto
<1>3. ASSUME NEW kind, NEW r, Return(c, kind, r) PROVE OwnShape(c)'
  BY <1>1, <1>3 DEF Return
<1>4. CASE StartCall(c)
  <2>1. ASSUME NEW op, NEW label \in {"raise", "poll"}, Enter(c, op, label)
        PROVE pc'[c] = label /\ call'[c] = op
    BY <1>1, <2>1 DEF Enter
  <2>2. CASE PollStop(c)
    <3>1. [NoCall EXCEPT !.op = "PollStop", !.gen = gen].op = "PollStop"
      BY DEF NoCall
    <3>2. pc'[c] = "poll" /\ call'[c].op = "PollStop"
      BY <2>1, <2>2, <3>1 DEF PollStop
    <3> QED BY <3>2
  <2>3. CASE ~PollStop(c)
    BY <1>3, <1>4, <2>1, <2>3 DEF StartCall, RunToStop, Interrupt, HaltNow
  <2> QED BY <2>2, <2>3
<1>5. CASE RaiseGen(c)
  BY <1>2, <1>5 DEF RaiseGen, NextGen
<1>6. ASSUME NEW halted, HaltDone(c, halted) \/ HaltFailed(c) PROVE OwnShape(c)'
  <2>1. CASE Goto(c, "issue") /\ UNCHANGED call /\ call[c].op = "RunToStop"
    BY <1>2, <2>1
  <2>2. CASE /\ Goto(c, "fn") /\ call[c].op = "Interrupt"
             /\ call' = [call EXCEPT ![c].halted = halted]
    BY <1>1, <1>2, <2>2 DEF Call
  <2> QED BY <1>3, <1>6, <2>1, <2>2 DEF HaltDone, HaltFailed, ErrorKind
<1>7. CASE ProbeRunning(c)
  BY <1>2, <1>6, <1>7 DEF ProbeRunning
<1>8. CASE HaltRPC(c)
  BY <1>6, <1>8 DEF HaltRPC
<1>9. CASE Issue(c)
  <2>1. call'[c].op = call[c].op
    BY <1>1, <1>9 DEF Issue, ReadGen, Call
  <2> QED BY <1>2, <1>9, <2>1 DEF Issue, ReadGen
<1>10. ASSUME NEW r, Started(c, r) PROVE OwnShape(c)'
  <2>1. CASE /\ Goto(c, "arm") /\ call[c].op = "RunToStop"
             /\ call' = [call EXCEPT ![c].mine = r]
    BY <1>1, <1>2, <2>1 DEF Call
  <2> QED BY <1>3, <1>10, <2>1 DEF Started
<1>11. CASE CheckRunning(c)
  BY <1>2, <1>10, <1>11 DEF CheckRunning
<1>12. CASE Spawn(c)
  BY <1>10, <1>12 DEF Spawn
<1>13. CASE Arm(c)
  BY <1>2, <1>13 DEF Arm
<1>14. CASE Receive(c) \/ Poll(c)
  <2>1. CASE Goto(c, pc[c]) /\ UNCHANGED call
    BY <1>2, <2>1
  <2> QED BY <1>3, <1>14, <2>1 DEF Receive, Poll, TakeStop, Stale
<1>15. CASE TimerFires(c)
  BY <1>2, <1>15 DEF TimerFires, HasTimer
<1>16. CASE WakeUp(c)
  BY <1>3, <1>16 DEF WakeUp
<1>17. CASE Fn(c)
  BY <1>2, <1>3, <1>17 DEF Fn
<1> QED BY <1>4, <1>5, <1>7, <1>8, <1>9, <1>11, <1>12, <1>13, <1>14, <1>15, <1>16, <1>17
        DEF CallStep

\* No step takes an operation where its code has no such step.
LEMMA CallInvStep ==
  ASSUME TypeOK, ServerInv, ReportedOnce, CallInv, [Next]_vars
  PROVE  CallInv'
<1>1. \A c \in Caller : OwnShape(c)
  BY DEF CallInv, OwnShape
<1>2. \A c \in Caller : OwnShape(c)'
  <2>1. ASSUME NEW c \in Caller, StartCall(c) \/ CallStep(c), NEW d \in Caller
        PROVE OwnShape(d)'
    BY <1>1, <2>1, CallerFrame, OwnShapeStep DEF OwnShape
  <2>2. CASE UNCHANGED <<pc, call>>
    BY <1>1, <2>2 DEF OwnShape
  <2> QED BY <2>1, <2>2 DEF Next, PostStep, PostCheck, Outdated, SaysExited, PostSend,
                            PostClear, PostRetry,
                            CancelWait, Server,
                            vars, callerVars
<1>3. gen \in Nat /\ run \in [RunId -> Run] /\ \A r \in RunId : run[r].gen \in Nat
  BY DEF TypeOK, ServerTypeOK, Run
<1>4. gen' = gen \/ gen' = gen + 1
  BY DEF Next, StartCall, RunToStop, Interrupt, HaltNow, PollStop, CallStep, RaiseGen, NextGen,
         ProbeRunning, HaltRPC, Issue, ReadGen, CheckRunning, Spawn, Arm, Receive, TakeStop,
         Stale,
         TimerFires, HasTimer, WakeUp, Fn, Poll, PostStep, PostCheck, Outdated, SaysExited,
         PostSend, PostClear, PostRetry, CancelWait, Server,
         vars, chanVars
<1>5. \A r \in RunId : run'[r].gen <= gen
  <2>1. CASE UNCHANGED serverVars
    BY <2>1 DEF serverVars, CallInv
  <2>2. CASE HaltTarget
    BY <2>2, HaltUpdate DEF CallInv
  <2>3. CASE ServerNext \/ \E r \in RunId : PostStep(r)
    BY <2>3, BackgroundStep DEF CallInv
  <2>4. ASSUME NEW c \in Caller, Spawn(c) PROVE <1>5
    BY <1>3, <2>4 DEF Spawn, Fresh, CallInv
  <2>5. ASSUME NEW c \in Caller, TakeStop(c) PROVE <1>5
    BY <2>5, TakeStopUpdate DEF CallInv
  <2> QED BY ServerSteps, <2>1, <2>2, <2>3, <2>4, <2>5
<1>6. \A r \in RunId : run'[r].gen <= gen'
  <2>1. \A r \in RunId : run'[r].gen \in Nat
    BY NextType DEF TypeOK, ServerTypeOK, Run
  <2> QED BY <1>3, <1>4, <1>5, <2>1
<1> QED BY <1>2, <1>6 DEF CallInv, OwnShape

\* Whatever the interleaving of callers, generations only grow and each operation
\* is at a point its code has: the first half of the argument that no stale stop
\* passes for a current one.
THEOREM CallsWellFormed == Spec => []CallInv
<1>1. Init => CallInv
  BY DEF Init, CallInv, Unused
<1>2. TypeOK /\ ServerInv /\ ReportedOnce /\ CallInv /\ [Next]_vars => CallInv'
  BY CallInvStep
<1> QED BY <1>1, <1>2, TypeCorrect, ServerSafe, DeliveredOnce, PTL DEF Spec

----------------------------------------------------------------------------
(* A single reader. *)

\* control.go: "The console loop is the single reader".
OneCaller == \A c, d \in Caller : c = d

\* Steps that only let executions advance, with the caller where it was.
LEMMA LiveShrinks ==
  ASSUME TypeOK, ReaderInv, gen' = gen, UNCHANGED <<pc, call>>,
         \A r \in RunId :
           /\ Live(r)' => Live(r)
           /\ run'[r].reply = "manual" => /\ run'[r].st \in {"returned", "dropped"}
                                          /\ run'[r].gen < gen
  PROVE  ReaderInv'
BY DEF ReaderInv, OneLiveExecution

\* With one reader, its own steps keep the generation discipline.
LEMMA ReaderInvCall ==
  ASSUME TypeOK, ServerInv, ReportedOnce, CallInv, ReaderInv, OneCaller,
         NEW c \in Caller, StartCall(c) \/ CallStep(c)
  PROVE  ReaderInv'
<1>1. /\ pc \in [Caller -> Label] /\ call \in [Caller -> Call] /\ gen \in Nat
      /\ run \in [RunId -> Run] /\ \A r \in RunId : run[r].gen \in Nat
  BY DEF TypeOK, ServerTypeOK, Run
<1>2. \A d \in Caller : d = c
  BY DEF OneCaller
\* The caller returns, or starts a call, or gets to a label of no consequence.
<1>3. ASSUME UNCHANGED gen, \A r \in RunId : Live(r)' => Live(r),
             \A r \in RunId : run'[r].reply = "manual" =>
                 run'[r].st \in {"returned", "dropped"} /\ run'[r].gen < gen,
             pc'[c] \in {"idle", "raise", "poll"}
      PROVE  ReaderInv'
  BY <1>2, <1>3 DEF ReaderInv, OneLiveExecution
<1>4. ASSUME UNCHANGED <<gen, run>>, pc'[c] \in {"idle", "raise", "poll"}
      PROVE  ReaderInv'
  BY <1>3, <1>4 DEF Live, ReaderInv
\* The caller gets to one of the labels where no execution is live.
<1>5. ASSUME UNCHANGED <<gen, run>>, \A r \in RunId : ~Live(r),
             pc'[c] \in {"probe", "halt", "fn", "issue", "check", "spawn"},
             pc'[c] \in {"check", "spawn"} /\ call'[c].op = "RunToStop" => call'[c].gen = gen
      PROVE  ReaderInv'
  BY <1>2, <1>5 DEF Live, ReaderInv, OneLiveExecution
<1>6. ASSUME NEW label, Goto(c, label) PROVE pc'[c] = label
  BY <1>1, <1>6 DEF Goto
<1>7. ASSUME NEW kind, NEW r, Return(c, kind, r) PROVE pc'[c] = "idle"
  BY <1>1, <1>7 DEF Return
<1>8. CASE StartCall(c)
  <2>1. ASSUME NEW op, NEW label, Enter(c, op, label) PROVE pc'[c] = label
    BY <1>1, <2>1 DEF Enter
  <2>2. pc'[c] \in {"idle", "raise", "poll"}
    BY <1>7, <1>8, <2>1 DEF StartCall, RunToStop, Interrupt, HaltNow, PollStop
  <2>3. UNCHANGED <<gen, run>>
    BY <1>8 DEF StartCall, RunToStop, Interrupt, HaltNow, PollStop, serverVars, chanVars
  <2> QED BY <1>4, <2>2, <2>3
<1>9. CASE RaiseGen(c)
  <2>1. gen' = gen + 1 /\ UNCHANGED run /\ pc'[c] = "probe"
    BY <1>6, <1>9 DEF RaiseGen, NextGen, serverVars
  <2>2. \A r \in RunId : ~Live(r)'
    BY <1>1, <2>1 DEF Live, CallInv
  <2>3. \A r \in RunId : run'[r].reply = "manual" =>
           run'[r].st \in {"returned", "dropped"} /\ run'[r].gen < gen'
    BY <1>1, <2>1 DEF ReaderInv
  <2> QED BY <1>2, <2>1, <2>2, <2>3 DEF ReaderInv, OneLiveExecution
<1>10. ASSUME NEW halted, HaltDone(c, halted)
       PROVE  pc'[c] \in {"issue", "fn", "idle"}
  BY <1>6, <1>7, <1>10 DEF HaltDone
<1>11. CASE ProbeRunning(c)
  <2>1. \A r \in RunId : ~Live(r)
    BY <1>11 DEF ProbeRunning, ReaderInv
  <2>2. UNCHANGED <<gen, run>>
    BY <1>11 DEF ProbeRunning, serverVars, chanVars
  <2>3. pc'[c] \in {"halt", "issue", "fn", "idle"}
    BY <1>6, <1>10, <1>11 DEF ProbeRunning
  <2> QED BY <1>4, <1>5, <2>1, <2>2, <2>3
<1>12. CASE HaltRPC(c)
  <2>1. \A r \in RunId : ~Live(r)
    BY <1>12 DEF HaltRPC, ReaderInv
  <2>2. UNCHANGED gen
    BY <1>12 DEF HaltRPC, chanVars
  <2>3. CASE HaltTarget /\ HaltDone(c, TRUE)
    <3>1. pc'[c] \in {"issue", "fn", "idle"}
      BY <1>10, <2>3
    <3>2. \A r \in RunId : ~Live(r)'
      BY <1>1, <2>1, <2>2, <2>3, HaltUpdate DEF Live
    <3>3. ASSUME NEW r \in RunId, run'[r].reply = "manual"
          PROVE  run'[r].st \in {"returned", "dropped"} /\ run'[r].gen < gen
      <4>1. CASE run[r].st = "executing"
        <5>1. run[r].gen < gen
          BY <1>1, <2>1, <4>1 DEF Live
        <5> QED BY <2>3, <4>1, <5>1, HaltUpdate
      <4>2. CASE run[r].st # "executing"
        BY <2>3, <3>3, <4>2, HaltUpdate DEF ReaderInv
      <4> QED BY <4>1, <4>2
    <3> QED BY <1>2, <2>2, <3>1, <3>2, <3>3 DEF ReaderInv, OneLiveExecution
  <2>4. CASE HaltFailed(c) /\ UNCHANGED serverVars
    <3>1. pc'[c] = "idle"
      BY <1>7, <2>4 DEF HaltFailed, ErrorKind
    <3> QED BY <1>4, <2>2, <2>4, <3>1 DEF serverVars
  <2> QED BY <1>12, <2>3, <2>4 DEF HaltRPC
<1>13. CASE Issue(c)
  <2>1. \A r \in RunId : ~Live(r)
    BY <1>13 DEF Issue, ReadGen, ReaderInv
  <2>2. UNCHANGED <<gen, run>>
    BY <1>13 DEF Issue, ReadGen, serverVars, chanVars
  <2>3. pc'[c] \in {"check", "spawn"} /\ call'[c].gen = gen
    BY <1>1, <1>6, <1>13 DEF Issue, ReadGen, Call
  <2> QED BY <1>5, <2>1, <2>2, <2>3
<1>14. CASE CheckRunning(c)
  <2>1. \A r \in RunId : ~Live(r)
    BY <1>14 DEF CheckRunning, ReaderInv
  <2>2. UNCHANGED <<gen, run>>
    BY <1>14 DEF CheckRunning, serverVars, chanVars
  <2>3. CASE Goto(c, "spawn") /\ UNCHANGED call
    BY <1>5, <1>6, <1>14, <2>1, <2>2, <2>3 DEF CheckRunning, ReaderInv
  <2>4. CASE Return(c, "ok", NoRun)
    BY <1>4, <1>7, <2>2, <2>4
  <2>5. CASE /\ call[c].op = "RunToStop" /\ Goto(c, "arm")
             /\ call' = [call EXCEPT ![c].mine = NoRun]
    <3>1. pc'[c] = "arm" /\ call'[c].gen = call[c].gen
      BY <1>1, <1>6, <2>5 DEF Call
    <3>2. call[c].gen = gen
      BY <1>14, <2>5 DEF CheckRunning, ReaderInv
    <3> QED BY <1>2, <2>1, <2>2, <3>1, <3>2 DEF Live, ReaderInv, OneLiveExecution
  <2> QED BY <1>14, <2>3, <2>4, <2>5 DEF CheckRunning, Started
<1>15. CASE Spawn(c)
  <2>1. \A r \in RunId : ~Live(r)
    BY <1>15 DEF Spawn, ReaderInv
  <2>2. UNCHANGED gen
    BY <1>15 DEF Spawn, chanVars
  <2>3. PICK q \in Fresh : /\ run' = [run EXCEPT ![q] = [st |-> "issued", cmd |-> call[c].cmd,
                                                       gen |-> gen, reply |-> "none"]]
                           /\ Started(c, q)
    BY <1>15 DEF Spawn
  <2>4. \A r \in RunId : Live(r)' => r = q
    BY <1>1, <2>1, <2>2, <2>3 DEF Live
  <2>5. \A r \in RunId : run'[r].reply = "manual" =>
           run'[r].st \in {"returned", "dropped"} /\ run'[r].gen < gen
    BY <1>1, <2>3 DEF ReaderInv, Fresh
  <2>6. CASE Return(c, "ok", NoRun)
    <3>1. pc'[c] = "idle"
      BY <1>7, <2>6
    <3> QED BY <1>2, <2>2, <2>4, <2>5, <3>1 DEF ReaderInv, OneLiveExecution
  <2>7. CASE /\ call[c].op = "RunToStop" /\ Goto(c, "arm")
             /\ call' = [call EXCEPT ![c].mine = q]
    <3>1. pc'[c] = "arm" /\ call'[c].gen = call[c].gen /\ call'[c].mine = q
      BY <1>1, <1>6, <2>7 DEF Call
    <3>2. call[c].gen = gen
      BY <1>15, <2>7 DEF Spawn, ReaderInv
    <3> QED BY <1>2, <2>2, <2>4, <2>5, <3>1, <3>2 DEF ReaderInv, OneLiveExecution
  <2> QED BY <2>3, <2>6, <2>7 DEF Started
<1>16. CASE Arm(c)
  <2>1. pc'[c] = "select" /\ UNCHANGED <<gen, run, call>>
    BY <1>6, <1>16 DEF Arm, serverVars, chanVars
  <2>2. pc[c] = "arm"
    BY <1>16 DEF Arm
  <2> QED BY <1>2, <2>1, <2>2 DEF Live, ReaderInv, OneLiveExecution
<1>17. CASE Receive(c) \/ Poll(c)
  <2>1. CASE TakeStop(c)
    <3>1. UNCHANGED gen
      BY <2>1 DEF TakeStop, Stale
    <3>2. \A r \in RunId : Live(r)' => Live(r)
      BY <1>1, <2>1, <3>1, TakeStopUpdate DEF Live
    <3>3. \A r \in RunId : run'[r].reply = "manual" =>
             run'[r].st \in {"returned", "dropped"} /\ run'[r].gen < gen
      <4> TAKE r \in RunId
      <4> HAVE run'[r].reply = "manual"
      <4>1. run[r].st \in {"returned", "dropped"} /\ run[r].gen < gen
        BY <2>1, TakeStopUpdate DEF ReaderInv
      <4>2. r # Head(stopCh)
        BY <2>1, <4>1, TakeStopUpdate
      <4> QED BY <2>1, <4>1, <4>2, TakeStopUpdate
    <3>4. CASE pc'[c] = "idle"
      BY <1>3, <3>1, <3>2, <3>3, <3>4
    <3>5. CASE Goto(c, pc[c]) /\ UNCHANGED call
      <4>1. UNCHANGED <<pc, call>>
        BY <1>1, <3>5 DEF Goto
      <4> QED BY <3>1, <3>2, <3>3, <4>1, LiveShrinks
    <3> QED BY <1>7, <2>1, <3>4, <3>5 DEF TakeStop, Stale
  <2>2. CASE Return(c, "none", NoRun) /\ UNCHANGED <<serverVars, chanVars>>
    BY <1>4, <1>7, <2>2 DEF serverVars, chanVars
  <2> QED BY <1>17, <2>1, <2>2 DEF Receive, Poll
<1>18. CASE TimerFires(c)
  BY <1>4, <1>6, <1>18 DEF TimerFires, HasTimer, serverVars, chanVars
<1>19. CASE WakeUp(c)
  BY <1>4, <1>7, <1>19 DEF WakeUp, serverVars, chanVars
<1>20. CASE Fn(c)
  <2>1. \A r \in RunId : ~Live(r)
    BY <1>20 DEF Fn, ReaderInv
  <2>2. UNCHANGED <<gen, run>>
    BY <1>20 DEF Fn, serverVars, chanVars
  <2>3. pc'[c] = "idle" \/ (pc'[c] = "check" /\ UNCHANGED call)
    BY <1>6, <1>7, <1>20 DEF Fn
  <2>4. call[c].op = "Interrupt"
    BY <1>20 DEF Fn, CallInv
  <2> QED BY <1>4, <1>5, <2>1, <2>2, <2>3, <2>4
<1> QED BY <1>8, <1>9, <1>11, <1>12, <1>13, <1>14, <1>15, <1>16, <1>17, <1>18, <1>19, <1>20
        DEF CallStep

\* With one reader no step of anybody breaks the generation discipline.
LEMMA ReaderInvStep ==
  ASSUME TypeOK, ServerInv, ReportedOnce, CallInv, ReaderInv, OneCaller, [Next]_vars
  PROVE  ReaderInv'
<1>1. run \in [RunId -> Run] /\ gen \in Nat /\ \A r \in RunId : run[r].gen \in Nat
  BY DEF TypeOK, ServerTypeOK, Run
<1>2. CASE /\ ServerNext \/ \E r \in RunId : PostStep(r)
           /\ UNCHANGED <<gen, pc, call>>
  <2>1. ASSUME NEW r \in RunId PROVE Live(r)' => Live(r)
    BY <1>2, BackgroundStep DEF Live
  <2>2. ASSUME NEW r \in RunId, run'[r].reply = "manual"
        PROVE  run'[r].st \in {"returned", "dropped"} /\ run'[r].gen < gen
    <3>1. run[r].reply = "manual" /\ run'[r].gen = run[r].gen
      BY <1>2, <2>2, BackgroundStep
    <3>2. run[r].st \in {"returned", "dropped"} /\ run[r].gen < gen
      BY <3>1 DEF ReaderInv
    <3>3. run'[r].st \in {"returned", "dropped"}
      BY <1>1, <1>2, <3>2, BackgroundStep
    <3> QED BY <3>1, <3>2, <3>3
  <2> QED BY <1>2, <2>1, <2>2, LiveShrinks
<1>3. CASE UNCHANGED <<run, gen, pc, call>>
  BY <1>3 DEF Live, ReaderInv, OneLiveExecution
<1>4. \/ \E c \in Caller : StartCall(c) \/ CallStep(c)
      \/ /\ ServerNext \/ \E r \in RunId : PostStep(r)
         /\ UNCHANGED <<gen, pc, call>>
      \/ UNCHANGED <<run, gen, pc, call>>
  BY DEF Next, PostStep, PostCheck, Outdated, SaysExited, PostSend, PostClear, PostRetry,
         CancelWait, Server,
         vars, serverVars,
         chanVars, callerVars
<1> QED BY <1>2, <1>3, <1>4, ReaderInvCall

\* With a single reader the generations do what they are for: at most one
\* execution can still answer, no answer is pending from halt() to the next
\* start, and whatever halt() cut short is stale for ever.
THEOREM ReaderSafe ==
  ASSUME OneCaller
  PROVE  Spec => []ReaderInv
<1>1. Init => ReaderInv
  BY DEF Init, ReaderInv, OneLiveExecution, Live, Unused
<1>2. TypeOK /\ ServerInv /\ ReportedOnce /\ CallInv /\ ReaderInv /\ [Next]_vars
        => ReaderInv'
  BY ReaderInvStep
<1> QED BY <1>1, <1>2, TypeCorrect, ServerSafe, DeliveredOnce, CallsWellFormed, PTL
        DEF Spec

\* With a single reader, at most one execution can answer at a time.
THEOREM OneExecutionAtATime ==
  ASSUME OneCaller
  PROVE  Spec => []OneLiveExecution
<1>1. ReaderInv => OneLiveExecution
  BY DEF ReaderInv
<1> QED BY <1>1, ReaderSafe, PTL

\* With a single reader, the stop of an execution that halt() cut short is
\* never handed to a caller.
THEOREM InterruptedStaysSilent ==
  ASSUME OneCaller
  PROVE  Spec => []InterruptedNeverReported
<1>1. ReaderInv => InterruptedNeverReported
  BY DEF ReaderInv, InterruptedNeverReported
<1> QED BY <1>1, ReaderSafe, PTL

\* With a single reader, no step makes an execution live under an idle caller
\* that was told of a timeout.
LEMMA TimedOutStep ==
  ASSUME TypeOK, ServerInv, ReportedOnce, CallInv, ReaderInv, OneCaller,
         TimedOutIsSettled, [Next]_vars
  PROVE  TimedOutIsSettled'
<1>1. /\ pc \in [Caller -> Label] /\ answer \in [Caller -> Answer] /\ gen \in Nat
      /\ run \in [RunId -> Run] /\ \A r \in RunId : run[r].gen \in Nat
  BY DEF TypeOK, ServerTypeOK, Run
<1>2. SUFFICES ASSUME NEW c \in Caller, pc'[c] = "idle", answer'[c].kind = "timeout"
               PROVE  \A r \in RunId : ~Live(r)'
  BY DEF TimedOutIsSettled, Live
<1>3. CASE UNCHANGED <<pc, answer, gen>> /\ \A r \in RunId : Live(r)' => Live(r)
  BY <1>2, <1>3 DEF TimedOutIsSettled
<1>4. CASE ProbeRunning(c) \/ HaltRPC(c)
  <2>1. \A r \in RunId : ~Live(r)
    BY <1>4 DEF ProbeRunning, HaltRPC, ReaderInv
  <2>2. UNCHANGED gen
    BY <1>4 DEF ProbeRunning, HaltRPC, chanVars
  <2>3. CASE UNCHANGED run
    BY <2>1, <2>2, <2>3 DEF Live
  <2>4. CASE HaltTarget
    BY <1>1, <2>1, <2>2, <2>4, HaltUpdate DEF Live
  <2> QED BY <1>4, <2>3, <2>4 DEF ProbeRunning, HaltRPC, serverVars
\* No other step of the caller ends with a timeout.
<1>5. ASSUME NEW label \in Label \ {"idle"}, Goto(c, label) PROVE FALSE
  BY <1>1, <1>2, <1>5 DEF Goto
<1>6. ASSUME NEW kind, kind # "timeout", NEW r, Return(c, kind, r) PROVE FALSE
  BY <1>1, <1>2, <1>6 DEF Return
<1>7. ASSUME NEW op, NEW label \in Label \ {"idle"}, Enter(c, op, label) PROVE FALSE
  BY <1>1, <1>2, <1>7 DEF Enter
<1>8. ~StartCall(c)
  BY <1>6, <1>7 DEF StartCall, RunToStop, Interrupt, HaltNow, PollStop, Label
<1>9. ASSUME NEW r, Started(c, r) PROVE FALSE
  BY <1>5, <1>6, <1>9 DEF Started, Label
<1>10. ~RaiseGen(c) /\ ~Issue(c) /\ ~CheckRunning(c) /\ ~Spawn(c) /\ ~Arm(c)
       /\ ~TimerFires(c) /\ ~WakeUp(c) /\ ~Fn(c)
  BY <1>5, <1>6, <1>9
     DEF RaiseGen, Issue, CheckRunning, Spawn, Arm, TimerFires, WakeUp, Fn, Label
<1>11. ASSUME Receive(c) \/ Poll(c) PROVE FALSE
  <2>1. ASSUME NEW reply, NEW cmd, NEW stated PROVE ClassifyStop(reply, cmd, stated) # "timeout"
    BY DEF ClassifyStop, PlainKind
  <2> QED BY <1>5, <1>6, <1>11, <2>1 DEF Receive, Poll, TakeStop, Label
<1>12. CASE (ServerNext \/ \E r \in RunId : PostStep(r)) /\ UNCHANGED <<gen, pc, answer>>
  BY <1>1, <1>3, <1>12, BackgroundStep DEF Live
<1>13. CASE UNCHANGED <<run, gen, pc, answer>>
  BY <1>3, <1>13 DEF Live
<1>14. \/ \E d \in Caller : StartCall(d) \/ CallStep(d)
       \/ (ServerNext \/ \E r \in RunId : PostStep(r)) /\ UNCHANGED <<gen, pc, answer>>
       \/ UNCHANGED <<run, gen, pc, answer>>
  BY DEF Next, PostStep, PostCheck, PostSend, PostClear, PostRetry, CancelWait, Server, vars,
         serverVars, chanVars,
         callerVars
<1> QED BY <1>4, <1>8, <1>10, <1>11, <1>12, <1>13, <1>14 DEF CallStep, OneCaller

\* With a single reader, a wait that has timed out leaves no execution behind
\* that could answer a later one: not the stop that arrived as the timer fired,
\* nor the continue the server had yet to take up when halt() found nothing to
\* stop.
THEOREM TimeoutSettles ==
  ASSUME OneCaller
  PROVE  Spec => []TimedOutIsSettled
<1>1. Init => TimedOutIsSettled
  <2> SUFFICES ASSUME Init, NEW c \in Caller PROVE answer[c].kind # "timeout"
    BY DEF TimedOutIsSettled
  <2>1. answer[c] = NoAnswer
    BY DEF Init
  <2> QED BY <2>1 DEF NoAnswer
<1>2. TypeOK /\ ServerInv /\ ReportedOnce /\ CallInv /\ ReaderInv /\ TimedOutIsSettled
        /\ [Next]_vars => TimedOutIsSettled'
  BY TimedOutStep
<1> QED BY <1>1, <1>2, TypeCorrect, ServerSafe, DeliveredOnce, CallsWellFormed, ReaderSafe, PTL
        DEF Spec

\* The one place where RunToStop takes a stop is waitStop's receive.
LEMMA AnswerIsReceived ==
  ASSUME TypeOK, CallInv, NEW c \in Caller, [Next]_vars,
         Returns(c, "RunToStop"), answer'[c].run # NoRun
  PROVE  pc[c] = "select" /\ TakeStop(c) /\ answer'[c].run = Head(stopCh)
         /\ run[Head(stopCh)].gen >= call[c].gen
<1> USE DEF Returns
<1>1. pc \in [Caller -> Label] /\ call \in [Caller -> Call] /\ answer \in [Caller -> Answer]
  BY DEF TypeOK
<1>2. ASSUME NEW kind, Return(c, kind, NoRun) PROVE FALSE
  BY <1>1, <1>2 DEF Return
<1>3. ASSUME NEW label \in Label \ {"idle"}, Goto(c, label) PROVE FALSE
  BY <1>1, <1>3 DEF Goto
<1>4. StartCall(c) \/ CallStep(c)
  <2>1. CASE UNCHANGED pc
    BY <2>1
  <2>2. ASSUME NEW d \in Caller, StartCall(d) \/ CallStep(d) PROVE d = c
    BY <2>2, CallerFrame
  <2> QED BY <2>1, <2>2 DEF Next, PostStep, PostCheck, Outdated, SaysExited, PostSend,
                            PostClear, PostRetry,
                            CancelWait, Server,
                            vars, callerVars
<1>5. ~StartCall(c)
  BY DEF StartCall, RunToStop, Interrupt, HaltNow, PollStop
<1>6. ASSUME NEW halted, HaltDone(c, halted) \/ HaltFailed(c) PROVE FALSE
  BY <1>2, <1>3, <1>6 DEF HaltDone, HaltFailed, ErrorKind, Label
<1>7. ASSUME NEW r, Started(c, r) PROVE FALSE
  BY <1>2, <1>3, <1>7 DEF Started, Label
<1>8. ~RaiseGen(c) /\ ~ProbeRunning(c) /\ ~HaltRPC(c) /\ ~Issue(c) /\ ~CheckRunning(c)
      /\ ~Spawn(c) /\ ~Arm(c) /\ ~TimerFires(c) /\ ~WakeUp(c) /\ ~Fn(c)
  BY <1>2, <1>3, <1>6, <1>7
     DEF RaiseGen, NextGen, ProbeRunning, HaltRPC, Issue, ReadGen, CheckRunning, Spawn, Arm,
         TimerFires, HasTimer,
         WakeUp, Fn, Label
<1>9. ~Poll(c)
  BY DEF Poll, CallInv
<1>10. Receive(c)
  BY <1>4, <1>5, <1>8, <1>9 DEF CallStep
<1>11. ~Goto(c, pc[c])
  BY <1>1 DEF Goto
<1>12. \E kind : Return(c, kind, Head(stopCh))
  BY <1>10, <1>11 DEF Receive, TakeStop, Stale
<1>13. answer'[c].run = Head(stopCh)
  BY <1>1, <1>12 DEF Return
<1>14. Head(stopCh) \in RunId
  BY <1>10, HeadElem DEF Receive, TakeStop, TypeOK
<1>15. run[Head(stopCh)].gen \in Nat /\ call[c].gen \in Nat
  BY <1>1, <1>14 DEF TypeOK, ServerTypeOK, Run, Call
<1> QED BY <1>10, <1>11, <1>13, <1>15 DEF Receive, TakeStop, Stale

\* With a single reader, "a breakpoint is only ever reported once, by the
\* continue that actually hit it" (control.go): what RunToStop returns is the
\* stop of the execution that very call started, although executions of
\* earlier calls may still be on their way to the server or back.
THEOREM AnswersAreOwn ==
  ASSUME OneCaller
  PROVE  Spec => AnswersWithOwnStop
<1> DEFINE Own == \A c \in Caller : Returns(c, "RunToStop") /\ answer'[c].run # NoRun
                                    => answer'[c].run = call[c].mine
<1>1. ASSUME TypeOK, ReportedOnce, CallInv, ReaderInv, [Next]_vars PROVE Own
  <2>1. SUFFICES ASSUME NEW c \in Caller, Returns(c, "RunToStop"), answer'[c].run # NoRun
                 PROVE  answer'[c].run = call[c].mine
    OBVIOUS
  <2> DEFINE r == Head(stopCh)
  <2>2. pc[c] = "select" /\ TakeStop(c) /\ answer'[c].run = r /\ run[r].gen >= call[c].gen
    BY <1>1, <2>1, AnswerIsReceived
  <2>3. r \in RunId /\ run[r].st = "queued"
    BY <1>1, <2>2, TakeStopUpdate
  <2>4. Live(r)
    BY <1>1, <2>2, <2>3 DEF Live, ReaderInv
  <2> QED BY <1>1, <2>2, <2>3, <2>4 DEF ReaderInv
<1>2. TypeOK /\ ReportedOnce /\ CallInv /\ ReaderInv /\ [Next]_vars => [Own]_vars
  BY <1>1
<1> QED BY <1>2, TypeCorrect, DeliveredOnce, CallsWellFormed, ReaderSafe, PTL
        DEF Spec, AnswersWithOwnStop
=============================================================================
