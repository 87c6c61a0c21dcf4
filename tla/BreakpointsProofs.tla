------------------------- MODULE BreakpointsProofs -------------------------
(***************************************************************************)
(* Theorems about breakpoint management (module Breakpoints), for every    *)
(* set of names and conditions, number of breakpoints, and with or without *)
(* another client of the server.                                           *)
(***************************************************************************)
EXTENDS Breakpoints, TLAPS

USE BreakpointsAssumption

\* The commands that take a reference to a breakpoint.
RefOp == {"remove", "enable", "disable", "condition"}

----------------------------------------------------------------------------
(* Type correctness. *)

\* The constants of the module are well typed.
LEMMA ConstantTypes ==
  /\ Blank \in Bp
  /\ Idle \in Cmd
  /\ NoStop \in Stop
  /\ NoStop.id = NoId
<1>1. Blank \in Bp
  BY DEF Blank, Bp
<1> QED BY <1>1 DEF Idle, Cmd, Op, NoStop, Stop, NoId

\* A breakpoint that gets another condition, or is switched, is a breakpoint
\* under the same name.
LEMMA BpUpdateType ==
  ASSUME NEW b \in Bp, NEW c \in Cond \cup {NoCond}
  PROVE  /\ [b EXCEPT !.cond = c] \in Bp
         /\ [b EXCEPT !.cond = c].name = b.name
         /\ [b EXCEPT !.disabled = ~@] \in Bp
         /\ [b EXCEPT !.disabled = ~@].name = b.name
         /\ [b EXCEPT !.disabled = ~@].disabled # b.disabled
BY DEF Bp

\* The commands a user may give are well typed.
LEMMA CommandTypes ==
  /\ \A spec \in Bp, byFile, o \in BOOLEAN :
       [Idle EXCEPT !.op = "add", !.at = "act", !.spec = spec,
                    !.byFile = byFile, !.once = o] \in Cmd
  /\ \A op \in Op, ref \in Ref, c \in Cond \cup {NoCond} :
       [Idle EXCEPT !.op = op, !.ref = ref, !.spec.cond = c,
                    !.at = IF ref \in Name THEN "resolve" ELSE "act",
                    !.id = IF ref \in Name THEN NoId ELSE ref] \in Cmd
  /\ [Idle EXCEPT !.op = "clear", !.at = "act"] \in Cmd
  /\ [Idle EXCEPT !.op = "run"] \in Cmd
  /\ \A i \in Id \cup {NoId} : [Idle EXCEPT !.op = "once", !.at = "act", !.id = i] \in Cmd
<1>1. Idle \in Cmd /\ Blank \in Bp /\ Idle.spec = Blank
  BY ConstantTypes DEF Idle
<1>2. ASSUME NEW op \in Op, NEW ref \in Ref, NEW c \in Cond \cup {NoCond}
      PROVE  [Idle EXCEPT !.op = op, !.ref = ref, !.spec.cond = c,
                          !.at = IF ref \in Name THEN "resolve" ELSE "act",
                          !.id = IF ref \in Name THEN NoId ELSE ref] \in Cmd
  <2>1. [Blank EXCEPT !.cond = c] \in Bp
    BY <1>1, BpUpdateType
  <2>2. (IF ref \in Name THEN NoId ELSE ref) \in Nat
    BY <1>2 DEF Ref, Id, NoId
  <2> QED BY <1>1, <2>1, <2>2 DEF Cmd, Ref, Idle
<1>3. \A spec \in Bp, byFile, o \in BOOLEAN :
       [Idle EXCEPT !.op = "add", !.at = "act", !.spec = spec,
                    !.byFile = byFile, !.once = o] \in Cmd
  BY <1>1 DEF Cmd, Op
<1>4. [Idle EXCEPT !.op = "clear", !.at = "act"] \in Cmd
  BY <1>1 DEF Cmd, Op
<1>5. [Idle EXCEPT !.op = "run"] \in Cmd
  BY <1>1 DEF Cmd, Op
<1>6. ASSUME NEW i \in Id \cup {NoId}
      PROVE  [Idle EXCEPT !.op = "once", !.at = "act", !.id = i] \in Cmd
  <2>1. i \in Nat
    BY DEF Id, NoId
  <2> QED BY <1>1, <2>1 DEF Cmd, Op
<1> QED BY <1>2, <1>3, <1>4, <1>5, <1>6

\* A command that carries on is well typed and the same command.
LEMMA CmdUpdateType ==
  ASSUME NEW c \in Cmd
  PROVE  /\ \A i \in Id : [c EXCEPT !.id = i, !.at = "act"] \in Cmd
         /\ [c EXCEPT !.at = "then"] \in Cmd
         /\ \A b \in Bp : [c EXCEPT !.at = "then", !.found = b] \in Cmd
         /\ \A t \in SUBSET Id :
              /\ [c EXCEPT !.at = "then", !.todo = t] \in Cmd
              /\ [c EXCEPT !.todo = t] \in Cmd
              /\ [c EXCEPT !.todo = t, !.err = TRUE] \in Cmd
         /\ [c EXCEPT !.alone = FALSE] \in Cmd
<1>1. ASSUME NEW i \in Id PROVE [c EXCEPT !.id = i, !.at = "act"] \in Cmd
  <2>1. i \in Nat
    BY DEF Id
  <2> QED BY <2>1 DEF Cmd
<1>2. [c EXCEPT !.at = "then"] \in Cmd
  BY DEF Cmd
<1>3. \A b \in Bp : [c EXCEPT !.at = "then", !.found = b] \in Cmd
  BY DEF Cmd
<1>4. ASSUME NEW t \in SUBSET Id
      PROVE  /\ [c EXCEPT !.at = "then", !.todo = t] \in Cmd
             /\ [c EXCEPT !.todo = t] \in Cmd
             /\ [c EXCEPT !.todo = t, !.err = TRUE] \in Cmd
  BY DEF Cmd
<1>5. [c EXCEPT !.alone = FALSE] \in Cmd
  BY DEF Cmd
<1> QED BY <1>1, <1>2, <1>3, <1>4, <1>5

\* BpTypeOK is not inductive by itself: that only identifiers of breakpoints get
\* into the histories takes that a stop on its way and a pending removal name one.
NamesBreakpoint ==
  /\ stop # NoStop => stop.id \in Id
  /\ cmd.op = "once" => cmd.at = "act" /\ cmd.id \in Id

\* The four things the server does to the registry keep it well typed.
LEMMA RegistryType ==
  ASSUME BpTypeOK,
         \/ \E spec \in Bp : CreateBreakpoint(spec)
         \/ \E i \in reg : ClearBreakpoint(i)
         \/ \E i \in reg : ToggleBreakpoint(i)
         \/ \E i \in reg, b \in Bp : AmendBreakpoint(i, b)
         \/ UNCHANGED serverVars
  PROVE  reg' \subseteq Id /\ bp' \in [Id -> Bp] /\ nextId' \in 1..MaxId + 1
<1> USE DEF BpTypeOK
<1>1. ASSUME NEW spec \in Bp, CreateBreakpoint(spec)
      PROVE  reg' \subseteq Id /\ bp' \in [Id -> Bp] /\ nextId' \in 1..MaxId + 1
  BY <1>1 DEF CreateBreakpoint, Creatable, Id
<1>2. ASSUME NEW i \in reg, ClearBreakpoint(i)
      PROVE  reg' \subseteq Id /\ bp' \in [Id -> Bp] /\ nextId' \in 1..MaxId + 1
  BY <1>2, ConstantTypes DEF ClearBreakpoint
<1>3. ASSUME NEW i \in reg, NEW b \in Bp, AmendBreakpoint(i, b)
      PROVE  reg' \subseteq Id /\ bp' \in [Id -> Bp] /\ nextId' \in 1..MaxId + 1
  BY <1>3 DEF AmendBreakpoint
<1>4. \A i \in reg : ToggleBreakpoint(i) => \E b \in Bp : AmendBreakpoint(i, b)
  BY BpUpdateType DEF ToggleBreakpoint
<1>5. CASE UNCHANGED serverVars
  BY <1>5 DEF serverVars
<1> QED BY <1>1, <1>2, <1>3, <1>4, <1>5

\* So does another client.
LEMMA OtherClientType ==
  ASSUME BpTypeOK, NamesBreakpoint, OtherClient
  PROVE  BpTypeOK' /\ NamesBreakpoint'
<1>1. reg' \subseteq Id /\ bp' \in [Id -> Bp] /\ nextId' \in 1..MaxId + 1
  <2>1. \A n \in Name : [Blank EXCEPT !.name = n] \in Bp
    BY ConstantTypes DEF Bp
  <2>2. \A i \in reg, c \in Cond \cup {NoCond} : [bp[i] EXCEPT !.cond = c] \in Bp
    BY BpUpdateType DEF BpTypeOK
  <2> QED BY <2>1, <2>2, RegistryType DEF OtherClient
<1>2. cmd' \in Cmd /\ cmd'.op = cmd.op /\ cmd'.at = cmd.at /\ cmd'.id = cmd.id
  BY DEF OtherClient, BpTypeOK, Cmd
<1> QED BY <1>1, <1>2 DEF OtherClient, BpTypeOK, NamesBreakpoint, historyVars

\* Taking up a command keeps the session well typed.
LEMMA StartCommandType ==
  ASSUME BpTypeOK, NamesBreakpoint, StartCommand
  PROVE  BpTypeOK' /\ NamesBreakpoint'
<1> DEFINE Starts == /\ cmd' \in Cmd
                     /\ cmd'.op # "once"
                     /\ result' = "none"
                     /\ stop' \in {stop, NoStop}
                     /\ UNCHANGED <<serverVars, once, historyVars>>
<1>1. ASSUME NEW spec \in Bp, NEW byFile \in BOOLEAN, NEW o \in BOOLEAN,
             BpAdd(spec, byFile, o)
      PROVE  Starts
  <2>1. cmd' \in Cmd
    BY <1>1, CommandTypes DEF BpAdd, Begin
  <2> QED BY <1>1, <2>1 DEF BpAdd, Begin, Idle, RefOp
<1>2. ASSUME NEW op \in RefOp, NEW ref \in Ref,
             NEW c \in Cond \cup {NoCond}, BpRefOp(op, ref, c)
      PROVE  Starts
  <2>1. cmd' \in Cmd
    BY <1>2, CommandTypes DEF BpRefOp, Begin, Op, RefOp
  <2> QED BY <1>2, <2>1 DEF BpRefOp, Begin, Idle, RefOp
<1>3. ASSUME BpClear PROVE Starts
  <2>1. cmd' \in Cmd
    BY <1>3, CommandTypes DEF BpClear, Begin
  <2> QED BY <1>3, <2>1 DEF BpClear, Begin, Idle, RefOp
<1>4. ASSUME CmdBlocking PROVE Starts
  <2>1. cmd' \in Cmd
    BY <1>4, CommandTypes DEF CmdBlocking, Begin
  <2> QED BY <1>4, <2>1 DEF CmdBlocking, Begin, Idle, RefOp
<1>5. Starts
  BY <1>1, <1>2, <1>3, <1>4 DEF StartCommand, RefOp
<1> QED BY <1>5, ConstantTypes
        DEF BpTypeOK, NamesBreakpoint, serverVars, historyVars

\* What the steps of a command leave of it: nothing, or the same command.
LEMMA StepType ==
  ASSUME BpTypeOK, NamesBreakpoint, Step
  PROVE  BpTypeOK' /\ NamesBreakpoint'
<1> USE DEF BpTypeOK, NamesBreakpoint, EnterInterrupt, End, Fails, serverVars, historyVars
<1> USE ConstantTypes
<1> DEFINE Registry == reg' \subseteq Id /\ bp' \in [Id -> Bp] /\ nextId' \in 1..MaxId + 1
<1>0. Idle.op # "once"
  BY DEF Idle
<1>1. CASE Create
  <2>1. Registry
    BY <1>1, RegistryType DEF Create, Cmd
  <2>2. cmd' \in Cmd /\ cmd'.op # "once"
    BY <1>0, <1>1 DEF Create, Cmd
  <2>3. once' \subseteq Id /\ wanted' \subseteq Id
    BY <1>1 DEF Create, CreateBreakpoint, Creatable, AddOnce
  <2> QED BY <1>1, <2>1, <2>2, <2>3 DEF Create
<1>2. CASE Resolve
  <2>1. CASE cmd' = Idle
    BY <1>0, <1>2, <2>1 DEF Resolve
  <2>2. ASSUME NEW i \in reg, cmd' = [cmd EXCEPT !.id = i, !.at = "act"]
        PROVE  cmd' \in Cmd /\ cmd'.op = cmd.op /\ cmd'.at = "act" /\ cmd'.id \in Id
    <3>1. cmd' \in Cmd
      BY <2>2, CmdUpdateType
    <3>2. cmd'.op = cmd.op /\ cmd'.at = "act" /\ cmd'.id = i
      BY <2>2 DEF Cmd
    <3> QED BY <3>1, <3>2
  <2> QED BY <1>2, <2>1, <2>2 DEF Resolve, Found
<1>3. CASE Remove
  <2>1. Registry
    BY <1>3, RegistryType DEF Remove, ClearBreakpoint
  <2> QED BY <1>0, <1>3, <2>1 DEF Remove
<1>4. CASE ReadEnabled
  <2>1. cmd' \in Cmd /\ cmd'.op # "once"
    BY <1>0, <1>4 DEF ReadEnabled, AsAsked, Cmd
  <2> QED BY <1>4, <2>1 DEF ReadEnabled, AsAsked
<1>5. CASE Toggle
  <2>1. Registry
    BY <1>5, RegistryType DEF Toggle, ToggleBreakpoint, AmendBreakpoint
  <2> QED BY <1>0, <1>5, <2>1 DEF Toggle
<1>6. CASE ReadCond
  <2>1. cmd' \in Cmd /\ cmd'.op # "once"
    <3>1. CASE cmd' = Idle
      BY <1>0, <3>1
    <3>2. CASE cmd' = [cmd EXCEPT !.at = "then", !.found = bp[cmd.id]] /\ cmd.id \in reg
      <4>1. cmd' \in Cmd
        BY <3>2, CmdUpdateType
      <4>2. cmd'.op = cmd.op
        BY <3>2 DEF Cmd
      <4> QED BY <1>6, <4>1, <4>2 DEF ReadCond
    <3> QED BY <1>6, <3>1, <3>2 DEF ReadCond
  <2> QED BY <1>6, <2>1 DEF ReadCond
<1>7. CASE Amend
  <2>1. Amended \in Bp
    BY DEF Amended, Cmd, Bp
  <2>2. Registry
    BY <1>7, <2>1, RegistryType DEF Amend, AmendBreakpoint
  <2> QED BY <1>0, <1>7, <2>2 DEF Amend
<1>8. CASE ListToClear
  <2>1. cmd' \in Cmd /\ cmd'.op # "once"
    BY <1>0, <1>8 DEF ListToClear, Cmd
  <2> QED BY <1>8, <2>1 DEF ListToClear
<1>9. CASE ClearNext
  <2>1. Registry
    BY <1>9, RegistryType DEF ClearNext, ClearBreakpoint
  <2>2. cmd' \in Cmd /\ cmd'.op # "once"
    <3>1. CASE cmd' = Idle
      BY <1>0, <3>1
    <3>2. ASSUME NEW i \in cmd.todo,
                 \/ cmd' = [cmd EXCEPT !.todo = @ \ {i}]
                 \/ cmd' = [cmd EXCEPT !.todo = @ \ {i}, !.err = TRUE]
          PROVE  cmd' \in Cmd /\ cmd'.op # "once"
      <4>1. cmd.todo \ {i} \in SUBSET Id
        BY DEF Cmd
      <4>2. cmd' \in Cmd
        BY <3>2, <4>1, CmdUpdateType
      <4>3. cmd'.op = cmd.op
        BY <3>2 DEF Cmd
      <4> QED BY <1>9, <4>2, <4>3 DEF ClearNext
    <3> QED BY <1>9, <3>1, <3>2 DEF ClearNext, Cleared
  <2> QED BY <1>9, <2>1, <2>2 DEF ClearNext
<1>10. CASE RunEnds \/ TraceHit
  BY <1>0, <1>10 DEF RunEnds, TraceHit
<1>11. CASE PresentStop
  <2>1. stop.id \in Id
    BY <1>11 DEF PresentStop
  <2>2. cmd' \in Cmd /\ (cmd'.op = "once" => cmd'.at = "act" /\ cmd'.id \in Id)
    <3>1. CASE RemovalDue
      <4>1. cmd' = [Idle EXCEPT !.op = "once", !.at = "act", !.id = stop.id]
        BY <1>11, <3>1 DEF PresentStop
      <4>2. cmd' \in Cmd
        BY <2>1, <4>1, CommandTypes
      <4> QED BY <2>1, <4>1, <4>2 DEF Idle
    <3>2. CASE ~RemovalDue
      BY <1>0, <1>11, <3>2 DEF PresentStop
    <3> QED BY <3>1, <3>2
  <2> QED BY <1>11, <2>1, <2>2 DEF PresentStop
<1>12. CASE RemoveOnce
  <2>1. Registry
    BY <1>12, RegistryType DEF RemoveOnce, ClearBreakpoint
  <2> QED BY <1>0, <1>12, <2>1 DEF RemoveOnce
<1> QED BY <1>1, <1>2, <1>3, <1>4, <1>5, <1>6, <1>7, <1>8, <1>9, <1>10, <1>11, <1>12
        DEF Step

\* Every step keeps the registry and the session well typed.
LEMMA NextType ==
  ASSUME BpTypeOK, NamesBreakpoint, [Next]_vars
  PROVE  BpTypeOK' /\ NamesBreakpoint'
<1>1. ASSUME NEW i \in Id, Hit(i) PROVE BpTypeOK' /\ NamesBreakpoint'
  <2>1. stop' \in Stop /\ stop'.id \in Id
    BY <1>1 DEF Hit, BpTypeOK, Bp, Stop
  <2> QED BY <1>1, <2>1 DEF Hit, BpTypeOK, NamesBreakpoint, serverVars, historyVars
<1>2. CASE GuardDiscards
  BY <1>2, ConstantTypes
     DEF GuardDiscards, BpTypeOK, NamesBreakpoint, serverVars, historyVars
<1>3. CASE NextSession
  BY <1>3, ConstantTypes DEF NextSession, BpTypeOK, NamesBreakpoint, serverVars, Idle
<1>4. CASE UNCHANGED vars
  BY <1>4 DEF BpTypeOK, NamesBreakpoint, vars, serverVars, historyVars
<1> QED BY <1>1, <1>2, <1>3, <1>4, OtherClientType, StartCommandType, StepType DEF Next

\* Both hold in every reachable state.
LEMMA TypeInvariant == Spec => [](BpTypeOK /\ NamesBreakpoint)
<1>1. Init => BpTypeOK /\ NamesBreakpoint
  BY ConstantTypes DEF Init, BpTypeOK, NamesBreakpoint, Idle
<1>2. BpTypeOK /\ NamesBreakpoint /\ [Next]_vars => (BpTypeOK /\ NamesBreakpoint)'
  BY NextType
<1> QED BY <1>1, <1>2, PTL DEF Spec

\* In every behaviour, with any number of breakpoints and sessions and with
\* another client at work, the registry and the session's notes about it stay
\* well typed; what --once, a hit or a pending removal names is a breakpoint.
THEOREM BpTypeCorrect == Spec => []BpTypeOK
BY TypeInvariant, PTL

----------------------------------------------------------------------------
(* What a step may change. *)

Created == \E spec \in Bp : CreateBreakpoint(spec)
Gone    == \E i \in reg : ClearBreakpoint(i)
Changed == \E i \in reg, b \in Bp : AmendBreakpoint(i, b)

\* A step leaves the registry alone or creates, removes or changes one breakpoint.
LEMMA RegistrySteps ==
  ASSUME BpTypeOK, [Next]_vars
  PROVE  UNCHANGED serverVars \/ Created \/ Gone \/ Changed
<1> USE DEF serverVars
<1>1. \A i \in reg : ToggleBreakpoint(i) => Changed
  BY BpUpdateType DEF ToggleBreakpoint, Changed, BpTypeOK
<1>2. CASE StartCommand
  BY <1>2 DEF StartCommand, BpAdd, BpRefOp, BpClear, CmdBlocking
<1>3. CASE Step
  <2>1. CASE Create
    BY <2>1 DEF Create, Fails, Created, BpTypeOK, Cmd
  <2>2. CASE Resolve \/ ReadEnabled \/ ReadCond \/ ListToClear \/ RunEnds \/ TraceHit
             \/ PresentStop
    BY <2>2 DEF Resolve, ReadEnabled, ReadCond, ListToClear, RunEnds, TraceHit,
                PresentStop, Fails
  <2>3. CASE Remove \/ ClearNext \/ RemoveOnce
    BY <2>3 DEF Remove, ClearNext, RemoveOnce, ClearBreakpoint, Fails, Gone
  <2>4. CASE Toggle
    BY <1>1, <2>4 DEF Toggle, ToggleBreakpoint, AmendBreakpoint, Fails
  <2>5. CASE Amend
    <3>1. Amended \in Bp
      BY DEF Amended, BpTypeOK, Cmd, Bp
    <3> QED BY <2>5, <3>1 DEF Amend, AmendBreakpoint, Fails, Changed
  <2> QED BY <1>3, <2>1, <2>2, <2>3, <2>4, <2>5 DEF Step
<1>4. CASE OtherClient
  <2>1. \A n \in Name : [Blank EXCEPT !.name = n] \in Bp
    BY ConstantTypes DEF Bp
  <2>2. \A i \in reg, c \in Cond \cup {NoCond} : [bp[i] EXCEPT !.cond = c] \in Bp
    BY BpUpdateType DEF BpTypeOK
  <2> QED BY <1>1, <1>4, <2>1, <2>2 DEF OtherClient, Created, Gone, Changed
<1> QED BY <1>2, <1>3, <1>4 DEF Next, Hit, GuardDiscards, NextSession, vars

\* The stop on its way stays, is dropped, or is a new hit.
LEMMA StopSteps ==
  ASSUME [Next]_vars
  PROVE  stop' \in {stop, NoStop} \/ \E i \in reg : Hit(i)
<1>1. StartCommand => stop' \in {stop, NoStop}
  BY DEF StartCommand, BpAdd, BpRefOp, BpClear, CmdBlocking
<1>2. Step => stop' \in {stop, NoStop}
  BY DEF Step, Create, Resolve, Remove, ReadEnabled, Toggle, ReadCond, Amend, ListToClear,
         ClearNext, RunEnds, TraceHit, PresentStop, RemoveOnce, EnterInterrupt
<1>3. \A i \in Id : Hit(i) => i \in reg
  BY DEF Hit
<1> QED BY <1>1, <1>2, <1>3 DEF Next, GuardDiscards, OtherClient, NextSession, vars

\* Who changes the notes on --once breakpoints and the histories, and how.
LEMMA OnceSteps ==
  ASSUME [Next]_vars
  PROVE  \/ UNCHANGED <<once, historyVars>>
         \/ Create /\ CreateBreakpoint(cmd.spec) /\ AddOnce(nextId) /\ UNCHANGED <<shown, kept>>
         \/ Remove /\ once' = once \ {cmd.id} /\ UNCHANGED historyVars
         \/ PresentStop
         \/ RemoveOnce
         \/ NextSession
<1> USE DEF historyVars
<1>1. StartCommand => UNCHANGED <<once, historyVars>>
  BY DEF StartCommand, BpAdd, BpRefOp, BpClear, CmdBlocking
<1>2. CASE Step
  <2>1. CASE Create
    BY <2>1 DEF Create, Fails
  <2>2. CASE Remove
    BY <2>2 DEF Remove, Fails
  <2>3. CASE Resolve \/ ReadEnabled \/ Toggle \/ ReadCond \/ Amend \/ ListToClear
             \/ ClearNext \/ RunEnds \/ TraceHit
    BY <2>3 DEF Resolve, ReadEnabled, Toggle, ReadCond, Amend, ListToClear, ClearNext,
                RunEnds, TraceHit, Fails
  <2> QED BY <1>2, <2>1, <2>2, <2>3 DEF Step
<1> QED BY <1>1, <1>2 DEF Next, Hit, GuardDiscards, OtherClient, vars

\* A command that was just given has not entered an Interrupt; one that takes a
\* number means that number.
LEMMA StartCommandSteps ==
  ASSUME StartCommand
  PROVE  /\ cmd'.at # "then"
         /\ cmd'.op # "once"
         /\ cmd'.op \in RefOp /\ cmd'.at = "act"
              => cmd'.ref = cmd'.id
         /\ UNCHANGED <<serverVars, once, historyVars>>
<1> DEFINE Fresh == /\ cmd'.at # "then"
                    /\ cmd'.op # "once"
                    /\ cmd'.op \in RefOp /\ cmd'.at = "act"
                         => cmd'.ref = cmd'.id
                    /\ UNCHANGED <<serverVars, once, historyVars>>
<1>1. ASSUME NEW spec, NEW byFile, NEW o, BpAdd(spec, byFile, o) PROVE Fresh
  BY <1>1 DEF BpAdd, Begin, Idle, RefOp
<1>2. ASSUME NEW op \in RefOp, NEW ref, NEW c,
             BpRefOp(op, ref, c)
      PROVE  Fresh
  <2>1. /\ cmd'.op = op
        /\ cmd'.ref = ref
        /\ cmd'.at = IF ref \in Name THEN "resolve" ELSE "act"
        /\ cmd'.id = IF ref \in Name THEN NoId ELSE ref
    BY <1>2 DEF BpRefOp, Begin, Idle, RefOp
  <2> QED BY <1>2, <2>1 DEF BpRefOp, RefOp
<1>3. ASSUME BpClear PROVE Fresh
  BY <1>3 DEF BpClear, Begin, Idle, RefOp
<1>4. ASSUME CmdBlocking PROVE Fresh
  BY <1>4 DEF CmdBlocking, Begin, Idle, RefOp
<1> QED BY <1>1, <1>2, <1>3, <1>4 DEF StartCommand, RefOp

\* What becomes of the command at work: it stays, ends, is overtaken by another
\* client, or takes one of the steps that carry it on, which leave the registry
\* alone except in bp clear.
LEMMA CmdSteps ==
  ASSUME [Next]_vars
  PROVE  \/ cmd' = cmd /\ UNCHANGED serverVars
         \/ cmd' = Idle
         \/ OtherClient /\ cmd' = [cmd EXCEPT !.alone = FALSE]
         \/ StartCommand
         \/ Create /\ cmd' = [cmd EXCEPT !.at = "then"] /\ UNCHANGED serverVars
         \/ /\ Resolve /\ UNCHANGED serverVars
            /\ \E i \in reg : /\ bp[i].name = cmd.ref
                              /\ cmd' = [cmd EXCEPT !.id = i, !.at = "act"]
         \/ /\ ReadEnabled /\ UNCHANGED serverVars
            /\ cmd.id \in reg /\ ~AsAsked
            /\ cmd' = [cmd EXCEPT !.at = "then"]
         \/ /\ ReadCond /\ UNCHANGED serverVars
            /\ cmd.id \in reg
            /\ cmd' = [cmd EXCEPT !.at = "then", !.found = bp[cmd.id]]
         \/ /\ ListToClear /\ UNCHANGED serverVars
            /\ cmd' = [cmd EXCEPT !.at = "then", !.todo = reg]
         \/ /\ ClearNext
            /\ \E i \in cmd.todo :
                 \/ ClearBreakpoint(i) /\ cmd' = [cmd EXCEPT !.todo = @ \ {i}]
                 \/ cmd' = [cmd EXCEPT !.todo = @ \ {i}, !.err = TRUE] /\ UNCHANGED serverVars
         \/ /\ PresentStop /\ UNCHANGED serverVars
            /\ stop.id \in once
            /\ cmd' = [Idle EXCEPT !.op = "once", !.at = "act", !.id = stop.id]
<1> USE DEF Fails, End
<1>1. CASE Step
  <2>1. CASE Create
    BY <2>1 DEF Create
  <2>2. CASE Resolve
    BY <2>2 DEF Resolve, Found, serverVars
  <2>3. CASE ReadEnabled
    BY <2>3 DEF ReadEnabled, serverVars
  <2>4. CASE ReadCond
    BY <2>4 DEF ReadCond, serverVars
  <2>5. CASE ListToClear
    BY <2>5 DEF ListToClear, serverVars
  <2>6. CASE ClearNext
    BY <2>6 DEF ClearNext, Cleared
  <2>7. CASE PresentStop
    BY <2>7 DEF PresentStop, RemovalDue, serverVars
  <2>8. CASE Remove \/ Toggle \/ Amend \/ RunEnds \/ TraceHit \/ RemoveOnce
    BY <2>8 DEF Remove, Toggle, Amend, RunEnds, TraceHit, RemoveOnce, serverVars
  <2> QED BY <1>1, <2>1, <2>2, <2>3, <2>4, <2>5, <2>6, <2>7, <2>8 DEF Step
<1>2. CASE OtherClient
  BY <1>2 DEF OtherClient
<1> QED BY <1>1, <1>2 DEF Next, Hit, GuardDiscards, NextSession, vars, serverVars

----------------------------------------------------------------------------
(* Identifiers and names. *)

\* An identifier that is registered, on its way or in a history has been given,
\* and will not be given again.
IdsGiven ==
  /\ \A i \in reg \cup wanted \cup shown : i < nextId
  /\ stop.id < nextId

\* Identifiers are numbers, that of no stop included.
LEMMA IdsAreNumbers ==
  ASSUME BpTypeOK
  PROVE  /\ Id \subseteq Nat \ {0}
         /\ nextId \in Nat \ {0}
         /\ stop.id \in Nat
<1>1. Id \subseteq Nat \ {0}
  BY DEF Id
<1>2. nextId \in Nat \ {0}
  BY DEF BpTypeOK
<1>3. stop.id \in Nat
  <2>1. stop.id \in Id \cup {NoId}
    BY DEF BpTypeOK, Stop
  <2>2. NoId \in Nat
    BY DEF NoId
  <2> QED BY <1>1, <2>1, <2>2
<1> QED BY <1>1, <1>2, <1>3

\* No step uses an identifier before it is given, or gives one twice.
LEMMA IdsGivenStep ==
  ASSUME BpTypeOK, NamesBreakpoint, IdsGiven, [Next]_vars
  PROVE  IdsGiven'
<1> USE DEF IdsGiven
<1>0. /\ nextId \in Nat \ {0} /\ nextId' \in Nat \ {0}
      /\ stop.id \in Nat
      /\ reg \subseteq Nat /\ wanted \subseteq Nat /\ shown \subseteq Nat
  <2>1. BpTypeOK'
    BY NextType
  <2>2. nextId' \in Nat \ {0}
    BY <2>1 DEF BpTypeOK
  <2> QED BY <2>2, IdsAreNumbers DEF BpTypeOK
<1>1. nextId' >= nextId /\ \A i \in reg' : i < nextId'
  <2>1. CASE UNCHANGED serverVars \/ Gone \/ Changed
    <3>1. nextId' = nextId /\ reg' \subseteq reg
      BY <2>1 DEF serverVars, Gone, ClearBreakpoint, Changed, AmendBreakpoint
    <3> QED BY <1>0, <3>1
  <2>2. CASE Created
    <3>1. nextId' = nextId + 1 /\ reg' = reg \cup {nextId}
      BY <2>2 DEF Created, CreateBreakpoint
    <3> QED BY <1>0, <3>1
  <2> QED BY <2>1, <2>2, RegistrySteps
<1>2. stop'.id < nextId'
  <2>1. CASE stop' = stop
    BY <1>0, <1>1, <2>1
  <2>2. CASE stop' = NoStop
    BY <1>0, <1>1, <2>2, ConstantTypes DEF NoId
  <2>3. ASSUME NEW i \in reg, Hit(i) PROVE stop'.id < nextId'
    <3>1. stop'.id = i /\ i < nextId
      BY <2>3 DEF Hit
    <3> QED BY <1>0, <1>1, <3>1
  <2> QED BY <2>1, <2>2, <2>3, StopSteps
<1>3. \A i \in wanted' : i < nextId'
  <2>1. CASE wanted' \subseteq wanted
    BY <1>0, <1>1, <2>1
  <2>2. CASE wanted' \subseteq wanted \cup {nextId} /\ nextId' = nextId + 1
    BY <1>0, <2>2
  <2>3. wanted' \subseteq wanted
        \/ (wanted' \subseteq wanted \cup {nextId} /\ nextId' = nextId + 1)
    BY OnceSteps DEF historyVars, CreateBreakpoint, AddOnce, PresentStop, RemoveOnce, NextSession
  <2> QED BY <2>1, <2>2, <2>3
<1>4. \A i \in shown' : i < nextId'
  <2>1. shown' \subseteq shown \cup {stop.id}
    BY OnceSteps DEF historyVars, PresentStop, RemoveOnce, NextSession
  <2> QED BY <1>0, <1>1, <2>1
<1> QED BY <1>1, <1>2, <1>3, <1>4

\* The server knows no two breakpoints by the same name.
NamesUnique ==
  \A i, j \in reg : bp[i].name = bp[j].name /\ bp[i].name # NoName => i = j

\* The breakpoint that bp condition is about to put back bears the name the
\* server knows it by, unless it is gone; it will not be another one's.
CopyBearsName ==
  cmd.op = "condition" /\ cmd.at = "then" =>
    /\ cmd.id \in Id /\ cmd.id < nextId
    /\ cmd.id \in reg => cmd.found.name = bp[cmd.id].name

\* Who changes the name a breakpoint is known by.
LEMMA NamesKept ==
  ASSUME BpTypeOK, CopyBearsName, [Next]_vars
  PROVE  \/ Created
         \/ reg' \subseteq reg /\ \A i \in reg' : bp'[i].name = bp[i].name
<1> DEFINE Kept == reg' \subseteq reg /\ \A i \in reg' : bp'[i].name = bp[i].name
<1>1. ASSUME NEW i \in reg, NEW b \in Bp, AmendBreakpoint(i, b), b.name = bp[i].name
      PROVE  Kept
  BY <1>1 DEF AmendBreakpoint, BpTypeOK
<1>2. ASSUME NEW i \in reg, ClearBreakpoint(i) PROVE Kept
  BY <1>2 DEF ClearBreakpoint, BpTypeOK
<1>3. ASSUME NEW i \in reg, ToggleBreakpoint(i) PROVE Kept
  BY <1>1, <1>3, BpUpdateType DEF ToggleBreakpoint, BpTypeOK
<1>4. CASE UNCHANGED serverVars
  BY <1>4 DEF serverVars
<1>5. CASE Step
  <2>1. CASE Toggle
    BY <1>3, <1>4, <2>1 DEF Toggle, ToggleBreakpoint, AmendBreakpoint, Fails, serverVars
  <2>2. CASE Amend
    <3>1. Amended \in Bp /\ Amended.name = cmd.found.name
      BY DEF Amended, BpTypeOK, Cmd, Bp
    <3>2. AmendBreakpoint(cmd.id, Amended) => Kept
      BY <1>1, <2>2, <3>1 DEF Amend, AmendBreakpoint, CopyBearsName
    <3> QED BY <1>4, <2>2, <3>2 DEF Amend, Fails, serverVars
  <2>3. CASE Create
    BY <1>4, <2>3 DEF Create, Fails, serverVars, Created, BpTypeOK, Cmd
  <2>4. CASE Remove \/ ClearNext \/ RemoveOnce
    BY <1>2, <1>4, <2>4
       DEF Remove, ClearNext, RemoveOnce, ClearBreakpoint, Fails, serverVars
  <2>5. CASE Resolve \/ ReadEnabled \/ ReadCond \/ ListToClear \/ RunEnds \/ TraceHit
             \/ PresentStop
    BY <1>4, <2>5 DEF Resolve, ReadEnabled, ReadCond, ListToClear, RunEnds, TraceHit,
                      PresentStop, Fails, serverVars
  <2> QED BY <1>5, <2>1, <2>2, <2>3, <2>4, <2>5 DEF Step
<1>6. CASE OtherClient
  <2>1. \A n \in Name : [Blank EXCEPT !.name = n] \in Bp
    BY ConstantTypes DEF Bp
  <2>2. \A i \in reg, c \in Cond \cup {NoCond} :
          [bp[i] EXCEPT !.cond = c] \in Bp /\ [bp[i] EXCEPT !.cond = c].name = bp[i].name
    BY BpUpdateType DEF BpTypeOK
  <2> QED BY <1>1, <1>2, <1>3, <1>6, <2>1, <2>2 DEF OtherClient, Created
<1>7. CASE StartCommand
  BY <1>4, <1>7 DEF StartCommand, BpAdd, BpRefOp, BpClear, CmdBlocking, serverVars
<1> QED BY <1>4, <1>5, <1>6, <1>7 DEF Next, Hit, GuardDiscards, NextSession, vars, serverVars

\* No step gives a second breakpoint the same name.
LEMMA NamesUniqueStep ==
  ASSUME BpTypeOK, IdsGiven, CopyBearsName, NamesUnique, [Next]_vars
  PROVE  NamesUnique'
<1>1. CASE reg' \subseteq reg /\ \A i \in reg' : bp'[i].name = bp[i].name
  BY <1>1 DEF NamesUnique
<1>2. ASSUME NEW spec \in Bp, CreateBreakpoint(spec) PROVE NamesUnique'
  <2>1. nextId \in Id /\ nextId \notin reg
    BY <1>2, IdsAreNumbers DEF CreateBreakpoint, Creatable, IdsGiven
  <2>2. /\ bp'[nextId] = spec
        /\ \A i \in reg : bp'[i] = bp[i]
        /\ reg' = reg \cup {nextId}
    BY <1>2, <2>1 DEF CreateBreakpoint, BpTypeOK
  <2>3. spec.name = NoName \/ \A i \in reg : bp[i].name # spec.name
    BY <1>2 DEF CreateBreakpoint, Creatable
  <2> QED BY <2>2, <2>3 DEF NamesUnique
<1> QED BY <1>1, <1>2, NamesKept DEF Created

\* Nor does one rename the breakpoint bp condition has read.
LEMMA CopyBearsNameStep ==
  ASSUME BpTypeOK, IdsGiven, CopyBearsName, [Next]_vars
  PROVE  CopyBearsName'
<1> SUFFICES ASSUME cmd'.op = "condition", cmd'.at = "then"
             PROVE  /\ cmd'.id \in Id /\ cmd'.id < nextId'
                    /\ cmd'.id \in reg' => cmd'.found.name = bp'[cmd'.id].name
  BY DEF CopyBearsName
<1>1. ASSUME cmd'.id \in Id, cmd'.id < nextId,
             cmd'.id \in reg => cmd'.found.name = bp[cmd'.id].name
      PROVE  /\ cmd'.id < nextId'
             /\ cmd'.id \in reg' => cmd'.found.name = bp'[cmd'.id].name
  <2>1. cmd'.id \in Nat /\ nextId \in Nat
    BY <1>1, IdsAreNumbers
  <2>2. nextId' \in {nextId, nextId + 1}
    BY RegistrySteps DEF serverVars, Created, CreateBreakpoint, Gone, ClearBreakpoint,
                         Changed, AmendBreakpoint
  <2>3. ASSUME NEW spec \in Bp, CreateBreakpoint(spec), cmd'.id \in reg'
        PROVE  cmd'.id \in reg /\ bp'[cmd'.id] = bp[cmd'.id]
    BY <1>1, <2>1, <2>3 DEF CreateBreakpoint, BpTypeOK
  <2>4. cmd'.id \in reg' => cmd'.id \in reg /\ bp'[cmd'.id].name = bp[cmd'.id].name
    BY <2>3, NamesKept DEF Created
  <2> QED BY <1>1, <2>1, <2>2, <2>4
<1>2. ASSUME cmd'.id = cmd.id, cmd'.found = cmd.found, cmd.op = "condition", cmd.at = "then"
      PROVE  cmd'.id \in Id /\ cmd'.id < nextId
             /\ (cmd'.id \in reg => cmd'.found.name = bp[cmd'.id].name)
  BY <1>2 DEF CopyBearsName
<1>3. CASE cmd' = cmd
  BY <1>1, <1>2, <1>3
<1>4. CASE cmd' = [cmd EXCEPT !.alone = FALSE]
  BY <1>1, <1>2, <1>4 DEF BpTypeOK, Cmd
<1>5. CASE ReadCond /\ cmd.id \in reg /\ cmd' = [cmd EXCEPT !.at = "then", !.found = bp[cmd.id]]
  <2>1. cmd'.id = cmd.id /\ cmd'.found = bp[cmd.id]
    BY <1>5 DEF BpTypeOK, Cmd
  <2>2. cmd.id \in Id /\ cmd.id < nextId
    BY <1>5 DEF IdsGiven, BpTypeOK
  <2> QED BY <1>1, <2>1, <2>2
<1>6. cmd' = Idle \/ StartCommand => cmd'.at # "then"
  BY StartCommandSteps DEF Idle
<1>7. CASE \/ Create /\ cmd' = [cmd EXCEPT !.at = "then"]
           \/ ReadEnabled /\ cmd' = [cmd EXCEPT !.at = "then"]
           \/ ListToClear /\ cmd' = [cmd EXCEPT !.at = "then", !.todo = reg]
           \/ ClearNext /\ cmd'.op = cmd.op
  <2>1. cmd'.op = cmd.op
    BY <1>7 DEF BpTypeOK, Cmd
  <2> QED BY <1>7, <2>1 DEF Create, ReadEnabled, ListToClear, ClearNext
<1>8. \A i \in cmd.todo : /\ [cmd EXCEPT !.todo = @ \ {i}].op = cmd.op
                          /\ [cmd EXCEPT !.todo = @ \ {i}, !.err = TRUE].op = cmd.op
  BY DEF BpTypeOK, Cmd
<1>9. \A i \in Id : /\ [cmd EXCEPT !.id = i, !.at = "act"].at = "act"
                    /\ [Idle EXCEPT !.op = "once", !.at = "act", !.id = i].at = "act"
  BY DEF BpTypeOK, Cmd, Idle
<1> QED BY <1>3, <1>4, <1>5, <1>6, <1>7, <1>8, <1>9, CmdSteps DEF BpTypeOK

----------------------------------------------------------------------------
(* Breakpoints added with --once. *)

\* A --once breakpoint is waiting for its first stop, or its removal is under way
\* or has failed, or it is gone for good; one that is waiting has not been shown,
\* and only one that has been shown is removed.
OncePending ==
  /\ once \subseteq wanted
  /\ once \cap shown = {}
  /\ cmd.op = "once" => cmd.id \in wanted \cap shown /\ stop = NoStop
  /\ \A i \in wanted :
       \/ i \in once \cup kept
       \/ cmd.op = "once" /\ cmd.id = i
       \/ i \notin reg /\ stop.id # i

\* A pending removal is left alone by everything but its own step and the next
\* session.
LEMMA RemovalKept ==
  ASSUME BpTypeOK, NamesBreakpoint, [Next]_vars, ~PresentStop, ~RemoveOnce, ~NextSession
  PROVE  /\ cmd.op = "once" <=> cmd'.op = "once"
         /\ cmd.op = "once" => cmd'.id = cmd.id /\ stop' \in {stop, NoStop}
<1>1. CASE cmd' = cmd \/ cmd' = [cmd EXCEPT !.alone = FALSE]
  <2>1. cmd'.op = cmd.op /\ cmd'.id = cmd.id
    BY <1>1 DEF BpTypeOK, Cmd
  <2> QED BY <2>1, StopSteps DEF Hit
<1>2. CASE StartCommand
  <2>1. cmd = Idle
    BY <1>2 DEF StartCommand, BpAdd, BpRefOp, BpClear, CmdBlocking, Begin
  <2> QED BY <1>2, <2>1, StartCommandSteps DEF Idle
<1>3. CASE Step
  <2>1. cmd.op # "once"
    BY <1>3 DEF Step, Create, Resolve, Remove, ReadEnabled, Toggle, ReadCond, Amend, ListToClear,
                ClearNext, RunEnds, TraceHit, EnterInterrupt, NamesBreakpoint
  <2>2. cmd' = Idle \/ cmd'.op = cmd.op \/ StartCommand
    <3>1. /\ [cmd EXCEPT !.at = "then"].op = cmd.op
          /\ \A i : [cmd EXCEPT !.id = i, !.at = "act"].op = cmd.op
          /\ \A b : [cmd EXCEPT !.at = "then", !.found = b].op = cmd.op
          /\ \A t : [cmd EXCEPT !.at = "then", !.todo = t].op = cmd.op
          /\ \A i : [cmd EXCEPT !.todo = @ \ {i}].op = cmd.op
          /\ \A i : [cmd EXCEPT !.todo = @ \ {i}, !.err = TRUE].op = cmd.op
          /\ [cmd EXCEPT !.alone = FALSE].op = cmd.op
      BY DEF BpTypeOK, Cmd
    <3> QED BY <3>1, CmdSteps
  <2> QED BY <2>1, <2>2, StartCommandSteps DEF Idle
<1>4. CASE OtherClient \/ (\E i \in Id : Hit(i)) \/ GuardDiscards \/ UNCHANGED vars
  <2>1. cmd' = cmd \/ cmd' = [cmd EXCEPT !.alone = FALSE]
    BY <1>4 DEF OtherClient, Hit, GuardDiscards, vars
  <2> QED BY <1>1, <2>1
<1> QED BY <1>2, <1>3, <1>4 DEF Next

\* No step forgets a --once breakpoint it has presented, or removes another.
LEMMA OncePendingStep ==
  ASSUME BpTypeOK, NamesBreakpoint, IdsGiven, OncePending, [Next]_vars
  PROVE  OncePending'
<1> USE DEF OncePending, NamesBreakpoint
<1>0. NoStop.id \notin Id /\ once \subseteq Id /\ wanted \subseteq Id
  BY ConstantTypes, IdsAreNumbers DEF NoId, BpTypeOK
<1>1. CASE PresentStop
  <2>1. stop.id \in Id /\ cmd.op # "once"
    BY <1>1 DEF PresentStop, Idle
  <2>2. /\ once' = once \ {stop.id}
        /\ shown' = shown \cup {stop.id}
        /\ stop' = NoStop
        /\ UNCHANGED <<serverVars, wanted, kept>>
    BY <1>1 DEF PresentStop
  <2>3. CASE stop.id \in once
    <3>1. cmd'.op = "once" /\ cmd'.id = stop.id
      BY <1>1, <2>3 DEF PresentStop, RemovalDue, Idle
    <3> QED BY <1>0, <2>1, <2>2, <2>3, <3>1 DEF serverVars
  <2>4. CASE stop.id \notin once
    <3>1. cmd'.op # "once"
      BY <1>1, <2>4 DEF PresentStop, RemovalDue, End, Idle
    <3> QED BY <1>0, <2>1, <2>2, <2>4, <3>1 DEF serverVars
  <2> QED BY <2>3, <2>4
<1>2. CASE RemoveOnce
  <2>1. /\ cmd.op = "once" /\ cmd'.op # "once" /\ stop' = NoStop
        /\ UNCHANGED <<once, wanted, shown>>
    BY <1>2 DEF RemoveOnce, EnterInterrupt, End, Fails, Idle
  <2>2. \/ reg' = reg \ {cmd.id} /\ UNCHANGED kept
        \/ reg' = reg /\ kept' = kept \cup {cmd.id}
    BY <1>2 DEF RemoveOnce, ClearBreakpoint, Fails, serverVars
  <2> QED BY <1>0, <2>1, <2>2
<1>3. CASE NextSession
  BY <1>3 DEF NextSession, Idle
<1>4. CASE ~PresentStop /\ ~RemoveOnce /\ ~NextSession
  <2>1. /\ cmd.op = "once" <=> cmd'.op = "once"
        /\ cmd.op = "once" => cmd'.id = cmd.id /\ stop' \in {stop, NoStop}
    BY <1>4, RemovalKept
  <2>2. \A i \in wanted : i \in reg' => i \in reg
    <3>1. nextId \notin wanted
      BY IdsAreNumbers DEF IdsGiven
    <3> QED BY <3>1, RegistrySteps DEF serverVars, Created, CreateBreakpoint, Gone,
                                       ClearBreakpoint, Changed, AmendBreakpoint
  <2>3. \A i \in wanted : i \notin reg /\ stop.id # i => stop'.id # i
    BY <1>0, StopSteps DEF Hit
  <2>4. CASE UNCHANGED <<once, historyVars>>
    BY <2>1, <2>2, <2>3, <2>4 DEF historyVars
  <2>5. CASE Create /\ CreateBreakpoint(cmd.spec) /\ AddOnce(nextId) /\ UNCHANGED <<shown, kept>>
    <3>1. nextId \notin shown /\ cmd.op # "once"
      BY <2>5, IdsAreNumbers DEF IdsGiven, Create
    <3>2. \/ UNCHANGED <<once, wanted>>
          \/ once' = once \cup {nextId} /\ wanted' = wanted \cup {nextId}
      BY <2>5 DEF AddOnce
    <3> QED BY <2>1, <2>2, <2>3, <2>5, <3>1, <3>2
  <2>6. CASE Remove /\ once' = once \ {cmd.id} /\ UNCHANGED historyVars
    <3>1. cmd.op # "once" /\ stop' = NoStop
      BY <2>6 DEF Remove, EnterInterrupt
    <3>2. UNCHANGED once \/ cmd.id \notin reg'
      BY <2>6 DEF Remove, ClearBreakpoint, Fails
    <3> QED BY <1>0, <2>1, <2>2, <2>3, <2>6, <3>1, <3>2 DEF historyVars
  <2> QED BY <1>4, <2>4, <2>5, <2>6, OnceSteps
<1> QED BY <1>1, <1>2, <1>3, <1>4

----------------------------------------------------------------------------
(* What a command remembers from one Interrupt to the next. *)

\* The breakpoint a command has resolved its reference to is the one that bears
\* the name, or is gone; no later breakpoint takes its place.
MeansReferred ==
  cmd.op \in RefOp /\ cmd.at = "act" =>
    \/ cmd.ref = cmd.id
    \/ cmd.ref \in Name /\ cmd.id < nextId /\ (cmd.id \in reg => bp[cmd.id].name = cmd.ref)

\* What a command has read still stands as long as no other client intervenes.
ReadStands ==
  cmd.at = "then" /\ cmd.alone =>
    /\ cmd.op = "condition" => cmd.found = bp[cmd.id]
    /\ cmd.op \in {"enable", "disable"} =>
         cmd.id \in reg /\ bp[cmd.id].disabled # (cmd.op = "disable")
    /\ cmd.op = "clear" /\ ~cmd.err => reg \subseteq cmd.todo

\* No step makes a resolved reference mean another breakpoint.
LEMMA MeansReferredStep ==
  ASSUME BpTypeOK, IdsGiven, CopyBearsName, MeansReferred, [Next]_vars
  PROVE  MeansReferred'
<1> SUFFICES ASSUME cmd'.op \in RefOp, cmd'.at = "act", cmd'.ref # cmd'.id
             PROVE  /\ cmd'.ref \in Name /\ cmd'.id < nextId'
                    /\ cmd'.id \in reg' => bp'[cmd'.id].name = cmd'.ref
  BY DEF MeansReferred, RefOp
<1>1. ASSUME cmd'.ref \in Name, cmd'.id \in Nat, cmd'.id < nextId,
             cmd'.id \in reg => bp[cmd'.id].name = cmd'.ref
      PROVE  /\ cmd'.ref \in Name /\ cmd'.id < nextId'
             /\ cmd'.id \in reg' => bp'[cmd'.id].name = cmd'.ref
  <2>1. nextId \in Nat /\ nextId' \in {nextId, nextId + 1}
    BY IdsAreNumbers, RegistrySteps
       DEF serverVars, Created, CreateBreakpoint, Gone, ClearBreakpoint, Changed, AmendBreakpoint
  <2>2. ASSUME NEW spec \in Bp, CreateBreakpoint(spec), cmd'.id \in reg'
        PROVE  cmd'.id \in reg /\ bp'[cmd'.id] = bp[cmd'.id]
    BY <1>1, <2>1, <2>2 DEF CreateBreakpoint, BpTypeOK
  <2>3. cmd'.id \in reg' => cmd'.id \in reg /\ bp'[cmd'.id].name = bp[cmd'.id].name
    BY <2>2, NamesKept DEF Created
  <2> QED BY <1>1, <2>1, <2>3
<1>2. CASE /\ cmd'.op = cmd.op /\ cmd'.at = cmd.at /\ cmd'.id = cmd.id /\ cmd'.ref = cmd.ref
  <2>1. cmd.id \in Nat
    BY DEF BpTypeOK, Cmd
  <2> QED BY <1>1, <1>2, <2>1 DEF MeansReferred
<1>3. CASE cmd' = cmd \/ cmd' = [cmd EXCEPT !.alone = FALSE]
  BY <1>2, <1>3 DEF BpTypeOK, Cmd
<1>4. ASSUME NEW i \in reg, Resolve, bp[i].name = cmd.ref,
             cmd' = [cmd EXCEPT !.id = i, !.at = "act"]
      PROVE  /\ cmd'.ref \in Name /\ cmd'.id < nextId'
             /\ cmd'.id \in reg' => bp'[cmd'.id].name = cmd'.ref
  <2>1. cmd'.ref = cmd.ref /\ cmd'.id = i
    BY <1>4 DEF BpTypeOK, Cmd
  <2>2. i \in Nat /\ i < nextId
    BY IdsAreNumbers DEF IdsGiven, BpTypeOK
  <2>3. cmd.ref \in Name
    <3>1. bp[i].name \in Name \cup {NoName}
      BY DEF BpTypeOK, Bp
    <3>2. cmd.ref \in Ref \cup {NoId}
      BY DEF BpTypeOK, Cmd
    <3>3. cmd.ref \in Name \cup Nat
      BY <3>2, IdsAreNumbers DEF Ref, NoId
    <3> QED BY <1>4, <3>1, <3>3
  <2> QED BY <1>1, <1>4, <2>1, <2>2, <2>3
<1>5. cmd' # Idle /\ ~StartCommand
  BY StartCommandSteps DEF Idle, RefOp
<1>6. /\ cmd' # [cmd EXCEPT !.at = "then"]
      /\ cmd' # [cmd EXCEPT !.at = "then", !.found = bp[cmd.id]]
      /\ cmd' # [cmd EXCEPT !.at = "then", !.todo = reg]
  BY DEF BpTypeOK, Cmd
<1>7. ASSUME ClearNext, NEW i \in cmd.todo
      PROVE  /\ cmd' # [cmd EXCEPT !.todo = @ \ {i}]
             /\ cmd' # [cmd EXCEPT !.todo = @ \ {i}, !.err = TRUE]
  <2>1. cmd.op = "clear"
    BY <1>7 DEF ClearNext
  <2> QED BY <2>1 DEF BpTypeOK, Cmd, RefOp
<1>8. cmd' # [Idle EXCEPT !.op = "once", !.at = "act", !.id = stop.id]
  BY DEF Idle, RefOp
<1> QED BY <1>3, <1>4, <1>5, <1>6, <1>7, <1>8, CmdSteps

\* No step of the command itself makes what it has read stale.
LEMMA ReadStandsStep ==
  ASSUME BpTypeOK, ReadStands, [Next]_vars
  PROVE  ReadStands'
<1> SUFFICES ASSUME cmd'.at = "then", cmd'.alone
             PROVE  /\ cmd'.op = "condition" => cmd'.found = bp'[cmd'.id]
                    /\ cmd'.op \in {"enable", "disable"} =>
                         cmd'.id \in reg' /\ bp'[cmd'.id].disabled # (cmd'.op = "disable")
                    /\ cmd'.op = "clear" /\ ~cmd'.err => reg' \subseteq cmd'.todo
  BY DEF ReadStands
<1>1. CASE cmd' = cmd /\ UNCHANGED serverVars
  BY <1>1 DEF ReadStands, serverVars
<1>2. CASE Create /\ cmd' = [cmd EXCEPT !.at = "then"]
  <2>1. cmd'.op = "add"
    BY <1>2 DEF Create, BpTypeOK, Cmd
  <2> QED BY <2>1
<1>3. CASE /\ ReadEnabled /\ UNCHANGED serverVars
           /\ cmd.id \in reg /\ ~AsAsked
           /\ cmd' = [cmd EXCEPT !.at = "then"]
  <2>1. cmd'.op = cmd.op /\ cmd'.id = cmd.id /\ cmd.op \in {"enable", "disable"}
    BY <1>3 DEF ReadEnabled, BpTypeOK, Cmd
  <2> QED BY <1>3, <2>1 DEF AsAsked, serverVars
<1>4. CASE /\ ReadCond /\ UNCHANGED serverVars
           /\ cmd.id \in reg
           /\ cmd' = [cmd EXCEPT !.at = "then", !.found = bp[cmd.id]]
  <2>1. cmd'.op = "condition" /\ cmd'.id = cmd.id /\ cmd'.found = bp[cmd.id]
    BY <1>4 DEF ReadCond, BpTypeOK, Cmd
  <2> QED BY <1>4, <2>1 DEF serverVars
<1>5. CASE /\ ListToClear /\ UNCHANGED serverVars
           /\ cmd' = [cmd EXCEPT !.at = "then", !.todo = reg]
  <2>1. cmd'.op = "clear" /\ cmd'.todo = reg
    BY <1>5 DEF ListToClear, BpTypeOK, Cmd
  <2> QED BY <1>5, <2>1 DEF serverVars
<1>6. ASSUME ClearNext, NEW i \in cmd.todo,
             ClearBreakpoint(i), cmd' = [cmd EXCEPT !.todo = @ \ {i}]
      PROVE  cmd'.op = "clear" /\ (~cmd'.err => reg' \subseteq cmd'.todo)
  <2>1. /\ cmd'.op = "clear" /\ cmd'.todo = cmd.todo \ {i} /\ cmd'.err = cmd.err
        /\ cmd.op = "clear" /\ cmd.at = "then" /\ cmd.alone
    BY <1>6 DEF ClearNext, BpTypeOK, Cmd
  <2> QED BY <1>6, <2>1 DEF ReadStands, ClearBreakpoint
<1>7. ASSUME ClearNext, NEW i \in cmd.todo, cmd' = [cmd EXCEPT !.todo = @ \ {i}, !.err = TRUE]
      PROVE  cmd'.op = "clear" /\ cmd'.err
  BY <1>7 DEF ClearNext, BpTypeOK, Cmd
<1>8. cmd' # Idle /\ ~StartCommand
  BY StartCommandSteps DEF Idle
<1>9. cmd' # [cmd EXCEPT !.alone = FALSE]
  BY DEF BpTypeOK, Cmd
<1>10. \A i \in reg : cmd' # [cmd EXCEPT !.id = i, !.at = "act"]
  BY DEF BpTypeOK, Cmd
<1>11. [Idle EXCEPT !.op = "once", !.at = "act", !.id = stop.id].at = "act"
  BY DEF Idle
<1> QED BY <1>1, <1>2, <1>3, <1>4, <1>5, <1>6, <1>7, <1>8, <1>9, <1>10, <1>11, CmdSteps

----------------------------------------------------------------------------
(* The invariant. *)

\* What the theorems below rest on: each part alone is not inductive.
BpInv ==
  /\ BpTypeOK /\ NamesBreakpoint
  /\ IdsGiven
  /\ CopyBearsName /\ NamesUnique
  /\ OncePending
  /\ MeansReferred
  /\ ReadStands

\* In every behaviour identifiers are never reused, names are unique, and what a
\* command, a pending removal and Runner.once hold names what it was taken from.
THEOREM BpInvariant == Spec => []BpInv
<1>1. Init => BpInv
  <2> SUFFICES ASSUME Init PROVE BpInv OBVIOUS
  <2>1. BpTypeOK /\ NamesBreakpoint
    BY ConstantTypes DEF Init, BpTypeOK, NamesBreakpoint, Idle
  <2>2. IdsGiven
    BY DEF Init, IdsGiven, NoStop, NoId
  <2>3. CopyBearsName /\ NamesUnique /\ OncePending /\ MeansReferred /\ ReadStands
    BY DEF Init, Idle, CopyBearsName, NamesUnique, OncePending, MeansReferred, RefOp, ReadStands
  <2> QED BY <2>1, <2>2, <2>3 DEF BpInv
<1>2. BpInv /\ [Next]_vars => BpInv'
  BY NextType, IdsGivenStep, CopyBearsNameStep, NamesUniqueStep, OncePendingStep,
     MeansReferredStep, ReadStandsStep DEF BpInv
<1> QED BY <1>1, <1>2, PTL DEF Spec

----------------------------------------------------------------------------
(* What a step may never do. *)

\* The automatic removal of a --once breakpoint takes that breakpoint away and no
\* other, after its stop was presented, whatever the user, bp clear, another
\* client or an earlier session has done to the registry in the meantime.
THEOREM OnlyOnceIsRemoved == Spec => OnlyOnceRemoved
<1>1. ASSUME BpInv, [Next]_vars, cmd.op = "once", cmd' = Idle
      PROVE  reg \ reg' \subseteq wanted \cap shown
  <2>1. cmd.id \in wanted \cap shown /\ cmd # Idle /\ cmd.at = "act"
    BY <1>1 DEF BpInv, OncePending, NamesBreakpoint, Idle
  <2>2. CASE RemoveOnce
    BY <2>1, <2>2 DEF RemoveOnce, ClearBreakpoint, Fails, serverVars
  <2>3. CASE NextSession
    BY <2>3 DEF NextSession, serverVars
  <2>4. CASE Step /\ ~RemoveOnce
    BY <1>1, <2>1, <2>4
       DEF Step, Create, Resolve, Remove, ReadEnabled, Toggle, ReadCond, Amend, ListToClear,
           ClearNext, RunEnds, TraceHit, PresentStop
  <2>5. cmd' # cmd /\ ~OtherClient
    <3>1. [cmd EXCEPT !.alone = FALSE].op = cmd.op
      BY <1>1 DEF BpInv, BpTypeOK, Cmd
    <3> QED BY <1>1, <2>1, <3>1 DEF OtherClient, Idle
  <2>6. ~StartCommand
    BY <2>1 DEF StartCommand, BpAdd, BpRefOp, BpClear, CmdBlocking, Begin
  <2> QED BY <1>1, <2>2, <2>3, <2>4, <2>5, <2>6 DEF Next, Hit, GuardDiscards, vars
<1>2. BpInv /\ [Next]_vars
        => [cmd.op = "once" /\ cmd' = Idle => reg \ reg' \subseteq wanted \cap shown]_vars
  BY <1>1
<1> QED BY <1>2, BpInvariant, PTL DEF Spec, OnlyOnceRemoved

\* A --once breakpoint is presented once; a second time only after its removal
\* failed, through any number of further hits and sessions.
THEOREM OnceIsShownOnce == Spec => OnceShownOnce
<1>1. BpInv => \A i \in wanted \cap shown : PresentStop /\ stop.id = i => i \in kept
  <2> SUFFICES ASSUME BpInv, NEW i \in wanted \cap shown, PresentStop, stop.id = i
               PROVE  i \in kept
    OBVIOUS
  <2>1. cmd.op # "once"
    BY DEF PresentStop, Idle
  <2> QED BY <2>1 DEF BpInv, OncePending
<1>2. BpInv /\ [Next]_vars
        => [\A i \in wanted \cap shown : PresentStop /\ stop.id = i => i \in kept]_vars
  BY <1>1
<1> QED BY <1>2, BpInvariant, PTL DEF Spec, OnceShownOnce

\* bp remove takes away the breakpoint its reference means when it acts, although
\* it looked the name up in an earlier Interrupt.
THEOREM RemoveMeansReferred == Spec => RemovesReferred
<1>1. ASSUME BpInv, [Next]_vars, cmd.op = "remove", cmd' = Idle, NEW i \in reg \ reg'
      PROVE  cmd.ref = i \/ bp[i].name = cmd.ref
  <2>1. cmd # Idle
    BY <1>1 DEF Idle
  <2>2. CASE Remove
    <3>1. cmd.at = "act" /\ i = cmd.id
      BY <1>1, <2>2 DEF Remove, ClearBreakpoint, Fails, serverVars
    <3> QED BY <1>1, <3>1 DEF BpInv, MeansReferred, RefOp
  <2>3. CASE Step /\ ~Remove
    BY <1>1, <2>1, <2>3
       DEF Step, Create, Resolve, ReadEnabled, Toggle, ReadCond, Amend, ListToClear,
           ClearNext, RunEnds, TraceHit, PresentStop, RemoveOnce, Fails, serverVars
  <2>4. ~OtherClient
    <3>1. [cmd EXCEPT !.alone = FALSE].op = cmd.op
      BY <1>1 DEF BpInv, BpTypeOK, Cmd
    <3> QED BY <1>1, <2>1, <3>1 DEF OtherClient, Idle
  <2>5. ~StartCommand
    BY <2>1 DEF StartCommand, BpAdd, BpRefOp, BpClear, CmdBlocking, Begin
  <2> QED BY <1>1, <2>2, <2>3, <2>4, <2>5
          DEF Next, Hit, GuardDiscards, NextSession, vars, serverVars
<1>2. BpInv /\ [Next]_vars
        => [cmd.op = "remove" /\ cmd' = Idle
              => \A i \in reg \ reg' : cmd.ref = i \/ bp[i].name = cmd.ref]_vars
  BY <1>1
<1> QED BY <1>2, BpInvariant, PTL DEF Spec, RemovesReferred

\* The step with which a command that manages breakpoints ends without an error.
LEMMA SuccessSteps ==
  ASSUME BpInv, [Next]_vars, NEW op \in RefOp \cup {"clear"}, Succeeds(op)
  PROVE  \/ ReadEnabled /\ cmd.id \in reg /\ AsAsked /\ UNCHANGED serverVars
         \/ Toggle /\ ToggleBreakpoint(cmd.id)
         \/ Amend /\ AmendBreakpoint(cmd.id, Amended)
         \/ Remove /\ ClearBreakpoint(cmd.id)
         \/ ClearNext /\ cmd.todo = {} /\ ~cmd.err /\ UNCHANGED serverVars
<1>1. cmd # Idle /\ cmd' = Idle /\ result' = "ok" /\ cmd.op = op
  BY DEF Succeeds, Idle, RefOp
<1>2. ~OtherClient
  <2>1. [cmd EXCEPT !.alone = FALSE].op = cmd.op
    BY DEF BpInv, BpTypeOK, Cmd
  <2> QED BY <1>1, <2>1 DEF OtherClient, Idle, RefOp
<1>3. ~StartCommand
  BY <1>1 DEF StartCommand, BpAdd, BpRefOp, BpClear, CmdBlocking, Begin
<1>4. Step
  BY <1>1, <1>2, <1>3 DEF Next, Hit, GuardDiscards, NextSession, vars
<1>5. /\ [cmd EXCEPT !.at = "then"].op = cmd.op
      /\ \A i : [cmd EXCEPT !.id = i, !.at = "act"].op = cmd.op
      /\ \A b : [cmd EXCEPT !.at = "then", !.found = b].op = cmd.op
      /\ \A t : [cmd EXCEPT !.at = "then", !.todo = t].op = cmd.op
      /\ \A i : [cmd EXCEPT !.todo = @ \ {i}].op = cmd.op
      /\ \A i : [cmd EXCEPT !.todo = @ \ {i}, !.err = TRUE].op = cmd.op
  BY DEF BpInv, BpTypeOK, Cmd
<1>6. Idle.op = "none" /\ cmd.op # "none"
  BY <1>1 DEF Idle, RefOp
<1>7. CASE Resolve \/ ReadCond \/ ListToClear
  BY <1>1, <1>5, <1>6, <1>7 DEF Resolve, Found, ReadCond, ListToClear, Fails, End
<1>8. CASE ReadEnabled
  BY <1>1, <1>5, <1>6, <1>8 DEF ReadEnabled, Fails, End, serverVars
<1>9. CASE Toggle \/ Amend \/ Remove
  BY <1>1, <1>9 DEF Toggle, Amend, Remove, Fails, End
<1>10. CASE ClearNext
  <2>1. \A i : Cleared(i) # Idle /\ [cmd EXCEPT !.todo = @ \ {i}, !.err = TRUE] # Idle
    BY <1>5, <1>6 DEF Cleared
  <2>2. cmd.todo = {} /\ End(IF cmd.err THEN "failed" ELSE "ok") /\ UNCHANGED serverVars
    BY <1>1, <1>10, <2>1 DEF ClearNext
  <2> QED BY <1>1, <1>10, <2>2 DEF End, BpInv, BpTypeOK, Cmd
<1>11. CASE Create \/ RunEnds \/ TraceHit \/ PresentStop \/ RemoveOnce
  BY <1>1, <1>11 DEF Create, RunEnds, TraceHit, PresentStop, RemoveOnce, RefOp
<1> QED BY <1>4, <1>7, <1>8, <1>9, <1>10, <1>11 DEF Step

\* bp enable and bp disable leave the breakpoint in the state they name, whether
\* it had that state before or not, as long as no other client interferes.
THEOREM EnableAsAsked == Spec => EnabledAsAsked
<1>1. ASSUME BpInv, [Next]_vars, NEW op \in {"enable", "disable"}, SucceedsAlone(op)
      PROVE  cmd.id \in reg' /\ bp'[cmd.id].disabled = (op = "disable")
  <2>1. cmd.op = op /\ cmd.alone /\ op \in RefOp
    BY <1>1 DEF SucceedsAlone, Succeeds, RefOp
  <2>2. CASE ReadEnabled /\ cmd.id \in reg /\ AsAsked /\ UNCHANGED serverVars
    BY <1>1, <2>1, <2>2 DEF AsAsked, serverVars
  <2>3. CASE Toggle /\ ToggleBreakpoint(cmd.id)
    <3>1. cmd.id \in reg /\ bp[cmd.id].disabled # (op = "disable")
      BY <1>1, <2>1, <2>3 DEF Toggle, BpInv, ReadStands
    <3>2. /\ reg' = reg
          /\ bp[cmd.id] \in Bp
          /\ bp'[cmd.id] = [bp[cmd.id] EXCEPT !.disabled = ~@]
      BY <1>1, <2>3, <3>1 DEF ToggleBreakpoint, AmendBreakpoint, BpInv, BpTypeOK
    <3>3. bp'[cmd.id].disabled = ~bp[cmd.id].disabled /\ bp[cmd.id].disabled \in BOOLEAN
      BY <3>2 DEF Bp
    <3> QED BY <3>1, <3>2, <3>3
  <2>4. ~Amend /\ ~Remove /\ ~ClearNext
    BY <1>1, <2>1 DEF Amend, Remove, ClearNext
  <2> QED BY <1>1, <2>1, <2>2, <2>3, <2>4, SuccessSteps DEF SucceedsAlone
<1>2. ASSUME BpInv, [Next]_vars
      PROVE  /\ SucceedsAlone("enable") => cmd.id \in reg' /\ ~bp'[cmd.id].disabled
             /\ SucceedsAlone("disable") => cmd.id \in reg' /\ bp'[cmd.id].disabled
  BY <1>1, <1>2
<1>3. BpInv /\ [Next]_vars
        => [/\ SucceedsAlone("enable") => cmd.id \in reg' /\ ~bp'[cmd.id].disabled
            /\ SucceedsAlone("disable") => cmd.id \in reg' /\ bp'[cmd.id].disabled]_vars
  BY <1>2
<1> QED BY <1>3, BpInvariant, PTL DEF Spec, EnabledAsAsked

\* bp condition changes the condition of its breakpoint and nothing else in the
\* registry, although it sends back the whole breakpoint it read earlier.
THEOREM ConditionIsOnly == Spec => ConditionOnly
<1>1. ASSUME BpInv, [Next]_vars, SucceedsAlone("condition"), bp' # bp
      PROVE  bp' = [bp EXCEPT ![cmd.id].cond = cmd.spec.cond]
  <2>1. cmd.op = "condition" /\ cmd.alone
    BY <1>1 DEF SucceedsAlone, Succeeds
  <2>2. Amend /\ AmendBreakpoint(cmd.id, Amended)
    BY <1>1, <2>1, SuccessSteps
       DEF SucceedsAlone, RefOp, ReadEnabled, Toggle, Remove, ClearNext
  <2>3. cmd.found = bp[cmd.id]
    BY <1>1, <2>1, <2>2 DEF BpInv, ReadStands, Amend
  <2> QED BY <2>2, <2>3 DEF AmendBreakpoint, Amended
<1>2. BpInv /\ [Next]_vars
        => [SucceedsAlone("condition") /\ bp' # bp
              => bp' = [bp EXCEPT ![cmd.id].cond = cmd.spec.cond]]_vars
  BY <1>1
<1> QED BY <1>2, BpInvariant, PTL DEF Spec, ConditionOnly

\* A bp clear that reports no error leaves no breakpoint behind, a bp remove none
\* that its reference could mean.
THEOREM RemovalIsComplete == Spec => RemovalsComplete
<1>1. ASSUME BpInv, [Next]_vars, SucceedsAlone("clear")
      PROVE  reg' = {}
  <2>1. cmd.op = "clear" /\ cmd.alone
    BY <1>1 DEF SucceedsAlone, Succeeds
  <2>2. ClearNext /\ cmd.todo = {} /\ ~cmd.err /\ UNCHANGED serverVars
    BY <1>1, <2>1, SuccessSteps
       DEF SucceedsAlone, RefOp, ReadEnabled, Toggle, Remove, Amend
  <2> QED BY <1>1, <2>1, <2>2 DEF BpInv, ReadStands, ClearNext, serverVars
<1>2. ASSUME BpInv, [Next]_vars, SucceedsAlone("remove"), NEW i \in reg'
      PROVE  cmd.ref # i /\ bp'[i].name # cmd.ref
  <2>1. cmd.op = "remove" /\ cmd.alone
    BY <1>2 DEF SucceedsAlone, Succeeds
  <2>2. Remove /\ ClearBreakpoint(cmd.id)
    BY <1>2, <2>1, SuccessSteps
       DEF SucceedsAlone, RefOp, ReadEnabled, Toggle, Amend, ClearNext
  <2>3. i \in reg /\ i # cmd.id /\ cmd.id \in reg /\ bp'[i] = bp[i]
    BY <1>2, <2>2 DEF ClearBreakpoint, BpInv, BpTypeOK
  <2>4. i \in Nat /\ cmd.id \in Nat /\ bp[i].name \in Name \cup {NoName}
    BY <1>2, <2>3, IdsAreNumbers DEF BpInv, BpTypeOK, Bp
  <2>5. cmd.ref = cmd.id \/ (cmd.ref \in Name /\ bp[cmd.id].name = cmd.ref)
    BY <1>2, <2>1, <2>2, <2>3 DEF BpInv, MeansReferred, RefOp, Remove
  <2> QED BY <1>2, <2>3, <2>4, <2>5 DEF BpInv, NamesUnique
<1>3. BpInv /\ [Next]_vars
        => [/\ SucceedsAlone("clear") => reg' = {}
            /\ SucceedsAlone("remove")
                 => \A i \in reg' : cmd.ref # i /\ bp'[i].name # cmd.ref]_vars
  BY <1>1, <1>2
<1> QED BY <1>3, BpInvariant, PTL DEF Spec, RemovalsComplete
=============================================================================
