--------------------------- MODULE DeliveryProofs ---------------------------
(***************************************************************************)
(* For a single reader, module Control implements module StopDelivery.     *)
(***************************************************************************)
EXTENDS ControlProofs

\* A polling reader compares with the current generation.
PollInv == \A c \in Caller : pc[c] = "poll" => call[c].gen = gen

\* With one reader nobody raises the generation under a poll.
LEMMA PollInvStep ==
  ASSUME TypeOK, ReportedOnce, PollInv, OneCaller, [Next]_vars
  PROVE  PollInv'
<1>1. /\ pc \in [Caller -> Label] /\ call \in [Caller -> Call]
      /\ \A c, d \in Caller : c = d
  BY DEF TypeOK, OneCaller
<1>2. CASE UNCHANGED <<gen, pc, call>>
  BY <1>2 DEF PollInv
<1>3. ASSUME NEW c \in Caller, StartCall(c) \/ CallStep(c) PROVE PollInv'
  <2>1. ASSUME pc'[c] # "poll" PROVE PollInv'
    BY <1>1, <2>1 DEF PollInv
  <2>2. ASSUME NEW label \in Label \ {"poll"}, Goto(c, label) PROVE PollInv'
    BY <1>1, <2>1, <2>2 DEF Goto
  <2>3. ASSUME NEW kind, NEW r, Return(c, kind, r) PROVE PollInv'
    BY <1>1, <2>1, <2>3 DEF Return
  <2>4. ASSUME NEW op, NEW label \in Label \ {"poll"}, Enter(c, op, label) PROVE PollInv'
    BY <1>1, <2>1, <2>4 DEF Enter
  <2>5. CASE StartCall(c)
    <3>1. CASE PollStop(c)
      <4>1. call'[c].gen = gen /\ gen' = gen
        BY <1>1, <3>1 DEF PollStop, Enter, NoCall, chanVars
      <4> QED BY <1>1, <4>1 DEF PollInv
    <3>2. CASE \/ \E cmd \in Command, timed \in BOOLEAN : RunToStop(c, cmd, timed)
               \/ Interrupt(c) \/ HaltNow(c)
      BY <2>3, <2>4, <3>2 DEF RunToStop, Interrupt, HaltNow, Label
    <3> QED BY <2>5, <3>1, <3>2 DEF StartCall
  <2>6. ASSUME NEW halted, HaltDone(c, halted) \/ HaltFailed(c) PROVE PollInv'
    BY <2>2, <2>3, <2>6 DEF HaltDone, HaltFailed, ErrorKind, Label
  <2>7. ASSUME NEW r, Started(c, r) PROVE PollInv'
    BY <2>2, <2>3, <2>7 DEF Started, Label
  <2>8. ASSUME TakeStop(c) PROVE PollInv'
    <3>1. CASE Goto(c, pc[c]) /\ UNCHANGED call
      BY <1>1, <2>8, <3>1 DEF Goto, TakeStop, Stale, PollInv
    <3> QED BY <2>3, <2>8, <3>1 DEF TakeStop, Stale
  <2>9. CASE CallStep(c)
    BY <2>2, <2>3, <2>6, <2>7, <2>8, <2>9
       DEF CallStep, RaiseGen, NextGen, ProbeRunning, HaltRPC, Issue, ReadGen, CheckRunning,
           Spawn, Arm,
           Receive, TimerFires, HasTimer, WakeUp, Fn, Poll, Label
  <2> QED BY <1>3, <2>5, <2>9
<1> QED BY <1>2, <1>3 DEF Next, PostStep, PostCheck, Outdated, SaysExited, PostSend,
                          PostClear, PostRetry,
                          CancelWait, Server, vars,
                          chanVars, callerVars

----------------------------------------------------------------------------
(* What a step does to the executions, as StopDelivery sees them. *)

\* No execution is started or delivered, and none becomes live.
Forgets ==
  \A r \in RunId :
    /\ run'[r].st = "unused" <=> run[r].st = "unused"
    /\ run'[r].st = "reported" <=> run[r].st = "reported"
    /\ Live(r)' => Live(r)

\* With none live, execution q is started.
Starts(q) ==
  /\ run[q].st = "unused" /\ Live(q)'
  /\ \A r \in RunId :
       /\ ~Live(r)
       /\ r # q => /\ run'[r].st = run[r].st
                   /\ ~Live(r)'
  /\ run'[q].st # "reported"

\* The live execution q is delivered.
Delivers(q) ==
  /\ Live(q) /\ run'[q].st = "reported"
  /\ \A r \in RunId :
       /\ ~Live(r)'
       /\ r # q => run'[r].st = run[r].st

\* The background goroutines and the server start and deliver nothing.
LEMMA BackgroundForgets ==
  ASSUME TypeOK, ServerInv, ReportedOnce, UNCHANGED gen,
         ServerNext \/ \E r \in RunId : PostStep(r)
  PROVE  Forgets
BY BackgroundStep DEF Forgets, Live

\* Neither does the reader, unless it spawns an execution or takes its stop.
LEMMA CallerForgets ==
  ASSUME TypeOK, ServerInv, NEW c \in Caller, StartCall(c) \/ CallStep(c),
         ~Spawn(c), ~TakeStop(c)
  PROVE  Forgets
<1>1. /\ run \in [RunId -> Run] /\ gen \in Nat /\ \A r \in RunId : run[r].gen \in Nat
  BY DEF TypeOK, ServerTypeOK, Run
<1>2. CASE UNCHANGED run /\ gen' \in {gen, gen + 1}
  BY <1>1, <1>2 DEF Forgets, Live
<1>3. CASE HaltTarget /\ UNCHANGED gen
  BY <1>1, <1>3, HaltUpdate DEF Forgets, Live
<1>4. (UNCHANGED run /\ gen' \in {gen, gen + 1}) \/ (HaltTarget /\ UNCHANGED gen)
  <2>1. CASE StartCall(c)
    BY <2>1 DEF StartCall, RunToStop, Interrupt, HaltNow, PollStop, serverVars, chanVars
  <2>2. CASE CallStep(c)
    BY <2>2 DEF CallStep, RaiseGen, NextGen, ProbeRunning, HaltRPC, Issue, ReadGen,
                CheckRunning, Arm,
                Receive, TimerFires, HasTimer, WakeUp, Fn, Poll, serverVars, chanVars
  <2> QED BY <2>1, <2>2
<1> QED BY <1>2, <1>3, <1>4

\* A new execution starts when none is live, and is.
LEMMA SpawnStarts ==
  ASSUME TypeOK, ReaderInv, NEW c \in Caller, Spawn(c)
  PROVE  \E q \in RunId : Starts(q)
<1>1. /\ run \in [RunId -> Run] /\ gen \in Nat
      /\ \A r \in RunId : ~Live(r)
  BY DEF TypeOK, ServerTypeOK, ReaderInv, Spawn
<1>2. PICK q \in Fresh : run' = [run EXCEPT ![q] = [st |-> "issued", cmd |-> call[c].cmd,
                                                    gen |-> gen, reply |-> "none"]]
  BY DEF Spawn
<1>3. q \in RunId /\ run[q].st = "unused" /\ UNCHANGED gen
  BY DEF Fresh, Spawn, chanVars
<1>4. /\ run'[q].st = "issued" /\ run'[q].gen = gen
      /\ \A r \in RunId : r # q => run'[r] = run[r]
  BY <1>1, <1>2, <1>3
<1>5. Live(q)' /\ \A r \in RunId : r # q => ~Live(r)'
  BY <1>1, <1>3, <1>4 DEF Live
<1> QED BY <1>1, <1>3, <1>4, <1>5 DEF Starts

\* A stop the reader takes is stale, or it is the live execution's.
LEMMA TakeStopDelivers ==
  ASSUME TypeOK, ReportedOnce, ReaderInv, PollInv, NEW c \in Caller,
         Receive(c) \/ Poll(c), TakeStop(c)
  PROVE  Forgets \/ \E q \in RunId : Delivers(q)
<1> DEFINE h == Head(stopCh)
<1>1. /\ run \in [RunId -> Run] /\ gen \in Nat /\ UNCHANGED gen
      /\ call[c].gen = gen
  BY DEF TypeOK, ServerTypeOK, ReaderInv, PollInv, Receive, Poll, TakeStop, Stale
<1>2. /\ h \in RunId /\ run[h].st = "queued"
      /\ \A r \in RunId : /\ run'[r].gen = run[r].gen
                          /\ \/ r = h /\ run'[r].st \in {"dropped", "reported"}
                             \/ run'[r].st = run[r].st
  BY TakeStopUpdate
<1>3. CASE run' = [run EXCEPT ![h].st = "dropped"]
  BY <1>1, <1>2, <1>3, StUpdate DEF Forgets, Live
<1>4. CASE run[h].gen >= call[c].gen /\ run' = [run EXCEPT ![h].st = "reported"]
  <2>1. run'[h].st = "reported" /\ \A r \in RunId : r # h => run'[r] = run[r]
    BY <1>1, <1>2, <1>4, StUpdate
  <2>2. Live(h) /\ \A r \in RunId : Live(r) => r = h
    BY <1>1, <1>2, <1>4 DEF Live, ReaderInv, OneLiveExecution
  <2>3. \A r \in RunId : ~Live(r)'
    BY <1>1, <2>1, <2>2 DEF Live
  <2> QED BY <1>2, <2>1, <2>2, <2>3 DEF Delivers
<1>5. run[h].gen \in Nat /\ call[c].gen \in Nat
  BY <1>1, <1>2 DEF Run
<1>6. run[h].gen < call[c].gen \/ run[h].gen >= call[c].gen
  BY <1>5
<1> QED BY <1>3, <1>4, <1>6 DEF TakeStop, Stale

\* The three shapes are all there is.
LEMMA StepShapes ==
  ASSUME TypeOK, ServerInv, ReportedOnce, CallInv, ReaderInv, PollInv, [Next]_vars
  PROVE  Forgets \/ \E q \in RunId : Starts(q) \/ Delivers(q)
<1>1. CASE UNCHANGED <<run, gen>>
  BY <1>1 DEF Forgets, Live
<1>2. CASE (ServerNext \/ \E r \in RunId : PostStep(r)) /\ UNCHANGED gen
  BY <1>2, BackgroundForgets
<1>3. ASSUME NEW c \in Caller, StartCall(c) \/ CallStep(c)
      PROVE  Forgets \/ \E q \in RunId : Starts(q) \/ Delivers(q)
  <2>1. CASE Spawn(c)
    BY <2>1, SpawnStarts
  <2>2. CASE TakeStop(c) /\ (Receive(c) \/ Poll(c))
    BY <2>2, TakeStopDelivers
  <2>3. CASE TakeStop(c) /\ ~Receive(c) /\ ~Poll(c)
    <3>1. pc[c] \notin {"select", "poll"}
      BY <2>3 DEF Receive, Poll
    <3>2. stopCh' # stopCh
      <4>1. stopCh \in Seq(RunId) /\ stopCh # <<>> /\ stopCh' = Tail(stopCh)
        BY <2>3 DEF TypeOK, TakeStop, Stale
      <4> QED BY <4>1
    <3>3. UNCHANGED stopCh
      BY <1>3, <2>3
         DEF StartCall, RunToStop, Interrupt, HaltNow, PollStop, CallStep, RaiseGen, NextGen,
             ProbeRunning, HaltRPC, Issue, ReadGen, CheckRunning, Spawn, Arm, TimerFires,
             HasTimer, WakeUp,
             Fn, chanVars
    <3> QED BY <3>2, <3>3
  <2>4. CASE ~Spawn(c) /\ ~TakeStop(c)
    BY <1>3, <2>4, CallerForgets
  <2> QED BY <2>1, <2>2, <2>3, <2>4
<1> QED BY <1>1, <1>2, <1>3
        DEF Next, PostStep, PostCheck, Outdated, SaysExited, PostSend, PostClear, PostRetry,
            CancelWait,
            Server, vars, serverVars,
            chanVars

----------------------------------------------------------------------------
(* The refinement. *)

\* The one live execution is the current one.
LEMMA CurrentIsLive ==
  ASSUME OneLiveExecution, NEW r \in RunId, Live(r)
  PROVE  CurrentRun = r
BY DEF CurrentRun, OneLiveExecution

\* With none live there is no current one.
LEMMA NoneCurrent ==
  ASSUME \A r \in RunId : ~Live(r)
  PROVE  CurrentRun = NoRun
BY DEF CurrentRun

\* The initial states are initial states of the delivery.
LEMMA InitDelivers == Init => Delivery!Init
<1> SUFFICES ASSUME Init PROVE Delivery!Init
  OBVIOUS
<1>1. CASE run = [r \in RunId |-> Unused]
  <2>1. \A r \in RunId : ~Live(r) /\ run[r].st = "unused"
    BY <1>1 DEF Live, Unused
  <2> QED BY <2>1, NoneCurrent DEF Delivery!Init
<1>2. ASSUME NEW q \in RunId,
             run = [r \in RunId |-> IF r = q THEN [Unused EXCEPT !.st = "issued"] ELSE Unused]
      PROVE  Delivery!Init
  <2>1. /\ run[q].st = "issued" /\ run[q].gen = 0
        /\ \A r \in RunId : r # q => run[r].st = "unused"
    BY <1>2 DEF Unused
  <2>2. Live(q) /\ OneLiveExecution
    BY <2>1 DEF Live, OneLiveExecution, Init
  <2>3. CurrentRun = q
    BY <2>2, CurrentIsLive
  <2> QED BY <2>1, <2>3, NoRunAssumption DEF Delivery!Init
<1> QED BY <1>1, <1>2 DEF Init

\* Every step is a step of the delivery or leaves it alone.
LEMMA StepDelivers ==
  ASSUME TypeOK, ServerInv, ReportedOnce, CallInv, ReaderInv, PollInv, ReaderInv',
         [Next]_vars
  PROVE  [Delivery!Next]_(Delivery!vars)
<1>1. OneLiveExecution /\ OneLiveExecution'
  BY DEF ReaderInv
<1>2. CASE Forgets
  <2>1. UNCHANGED <<{r \in RunId : run[r].st # "unused"}, {r \in RunId : run[r].st = "reported"}>>
    BY <1>2 DEF Forgets
  <2>2. CASE \A r \in RunId : ~Live(r)'
    <3>1. CurrentRun' = NoRun
      BY <2>2 DEF CurrentRun
    <3>2. CASE \A r \in RunId : ~Live(r)
      BY <2>1, <3>1, <3>2, NoneCurrent DEF Delivery!vars
    <3>3. CASE \E r \in RunId : Live(r)
      <4>1. CurrentRun # NoRun
        BY <1>1, <3>3, CurrentIsLive, NoRunAssumption
      <4> QED BY <2>1, <3>1, <4>1 DEF Delivery!Next, Delivery!Abandon
    <3> QED BY <3>2, <3>3
  <2>3. ASSUME NEW r \in RunId, Live(r)' PROVE [Delivery!Next]_(Delivery!vars)
    <3>1. CurrentRun = r
      BY <1>1, <1>2, <2>3, CurrentIsLive DEF Forgets
    <3>2. CurrentRun' = r
      BY <1>1, <2>3 DEF CurrentRun, OneLiveExecution
    <3> QED BY <2>1, <3>1, <3>2 DEF Delivery!vars
  <2> QED BY <2>2, <2>3
<1>3. ASSUME NEW q \in RunId, Starts(q) PROVE [Delivery!Next]_(Delivery!vars)
  <2>1. CurrentRun = NoRun
    BY <1>3, NoneCurrent DEF Starts
  <2>2. CurrentRun' = q
    BY <1>1, <1>3 DEF Starts, CurrentRun, OneLiveExecution
  <2>3. /\ q \notin {r \in RunId : run[r].st # "unused"}
        /\ {r \in RunId : run[r].st # "unused"}'
             = {r \in RunId : run[r].st # "unused"} \cup {q}
        /\ UNCHANGED {r \in RunId : run[r].st = "reported"}
    BY <1>3 DEF Starts, Live
  <2>4. Delivery!Start(q)
    BY <2>1, <2>2, <2>3 DEF Delivery!Start
  <2> QED BY <2>4 DEF Delivery!Next
<1>4. ASSUME NEW q \in RunId, Delivers(q) PROVE [Delivery!Next]_(Delivery!vars)
  <2>1. CurrentRun = q
    BY <1>1, <1>4, CurrentIsLive DEF Delivers
  <2>2. CurrentRun' = NoRun
    BY <1>4 DEF Delivers, CurrentRun
  <2>3. /\ UNCHANGED {r \in RunId : run[r].st # "unused"}
        /\ {r \in RunId : run[r].st = "reported"}'
             = {r \in RunId : run[r].st = "reported"} \cup {q}
    BY <1>4 DEF Delivers, Live
  <2>4. Delivery!Deliver
    BY <2>1, <2>2, <2>3, NoRunAssumption DEF Delivery!Deliver
  <2> QED BY <2>4 DEF Delivery!Next
<1> QED BY <1>2, <1>3, <1>4, StepShapes

\* With a single reader, the control with its generations, channel, stale posts
\* and evictions implements StopDelivery: the reader is handed the stop of the
\* one current execution or nothing, and no stop twice.
THEOREM ImplementsDelivery ==
  ASSUME OneCaller
  PROVE  Spec => DeliversCurrent
<1>1. Init => PollInv
  BY DEF Init, PollInv
<1>2. TypeOK /\ ReportedOnce /\ PollInv /\ [Next]_vars => PollInv'
  BY PollInvStep
<1>3. Spec => []PollInv
  BY <1>1, <1>2, TypeCorrect, DeliveredOnce, PTL DEF Spec
<1>4. TypeOK /\ ServerInv /\ ReportedOnce /\ CallInv /\ ReaderInv /\ PollInv /\ ReaderInv'
        /\ [Next]_vars => [Delivery!Next]_(Delivery!vars)
  BY StepDelivers
<1> QED BY <1>3, <1>4, InitDelivers, TypeCorrect, ServerSafe, DeliveredOnce,
           CallsWellFormed, ReaderSafe, PTL
        DEF Spec, DeliversCurrent, Delivery!Spec
=============================================================================
