---------------------------- MODULE Breakpoints ----------------------------
(***************************************************************************)
(* Breakpoint management: the `bp' commands of internal/console/commands.go *)
(* over internal/delvez/breakpoints.go, and what the runner does with a    *)
(* breakpoint's hit (once and trace, internal/console/runner.go).          *)
(*                                                                         *)
(* The registry is the server's; it survives the session, and another      *)
(* client of the same server may change it between any two RPCs. Here an   *)
(* Interrupt is the sequence of RPCs its fn makes (module Control says how *)
(* it halts and resumes the target); what matters of the execution control *)
(* is that entering one makes a stop that is still on its way stale.       *)
(***************************************************************************)
EXTENDS Integers, FiniteSets

CONSTANTS
  Name,     \* names a user may give; the server accepts no number as a name
  NoName,
  Cond,     \* conditions
  NoCond,
  MaxId,    \* bound on the breakpoints ever created
  Other     \* whether another client uses the server

ASSUME BreakpointsAssumption ==
  /\ NoName \notin Name \cup Nat /\ NoCond \notin Cond
  /\ Name \cap Nat = {}
  /\ MaxId \in Nat
  /\ Other \in BOOLEAN

Id   == 1..MaxId
NoId == 0

\* The part of StopInfo.BP the runner looks at.
Stop   == [id : Id \cup {NoId}, trace : BOOLEAN]
NoStop == [id |-> NoId, trace |-> FALSE]

VARIABLES
  reg,       \* the ids registered at the server
  bp,        \* their definitions
  nextId,    \* the server numbers breakpoints upwards and never anew
  once,      \* Runner.once
  cmd,       \* the command Main executes, with its local variables
  result,    \* whether the last command ended in an event or in an error
  stop,      \* a breakpoint stop on its way to Main
  wanted,    \* history: breakpoints this session added with --once
  shown,     \* history: breakpoints this session has presented a stop of
  kept       \* history: those whose automatic removal failed

serverVars  == <<reg, bp, nextId>>
historyVars == <<wanted, shown, kept>>
vars == <<serverVars, once, cmd, result, stop, historyVars>>

\* BpSpec and BPView, without the location.
Bp == [name : Name \cup {NoName}, cond : Cond \cup {NoCond}, disabled : BOOLEAN,
       trace : BOOLEAN]

Blank == [name |-> NoName, cond |-> NoCond, disabled |-> FALSE, trace |-> FALSE]

\* A reference is a number or a name.
Ref == Id \cup Name

Op == {"none", "run", "add", "remove", "enable", "disable", "condition", "clear", "once"}

\* at: "resolve" and "act" are about to enter an Interrupt, "then" is inside
\* one; found: the breakpoint as bp condition read it; todo: what bp clear has
\* still to remove; err: its firstErr; alone is history: no other client has
\* changed the registry since the command began.
Cmd == [op : Op, at : {"idle", "resolve", "act", "then"}, ref : Ref \cup {NoId},
        id : Nat, spec : Bp, byFile : BOOLEAN, once : BOOLEAN, found : Bp,
        todo : SUBSET Id, err : BOOLEAN, alone : BOOLEAN]

Idle == [op |-> "none", at |-> "idle", ref |-> NoId, id |-> NoId, spec |-> Blank,
         byFile |-> FALSE, once |-> FALSE, found |-> Blank, todo |-> {}, err |-> FALSE,
         alone |-> TRUE]

----------------------------------------------------------------------------
(* The server. *)

\* CreateBreakpoint refuses a name that is taken.
Creatable(spec) ==
  /\ nextId \in Id
  /\ spec.name = NoName \/ \A i \in reg : bp[i].name # spec.name

CreateBreakpoint(spec) ==
  /\ Creatable(spec)
  /\ reg' = reg \cup {nextId}
  /\ bp' = [bp EXCEPT ![nextId] = spec]
  /\ nextId' = nextId + 1

ClearBreakpoint(i) ==
  /\ i \in reg
  /\ reg' = reg \ {i}
  /\ bp' = [bp EXCEPT ![i] = Blank]
  /\ UNCHANGED nextId

AmendBreakpoint(i, b) ==
  /\ i \in reg
  /\ bp' = [bp EXCEPT ![i] = b]
  /\ UNCHANGED <<reg, nextId>>

ToggleBreakpoint(i) == AmendBreakpoint(i, [bp[i] EXCEPT !.disabled = ~@])

\* The other client creates, removes, toggles and amends.
OtherClient ==
  /\ Other
  /\ \/ \E n \in Name : CreateBreakpoint([Blank EXCEPT !.name = n])
     \/ \E i \in reg :
          \/ ClearBreakpoint(i)
          \/ ToggleBreakpoint(i)
          \/ \E c \in Cond \cup {NoCond} : AmendBreakpoint(i, [bp[i] EXCEPT !.cond = c])
  /\ cmd' = IF cmd = Idle THEN Idle ELSE [cmd EXCEPT !.alone = FALSE]
  /\ UNCHANGED <<once, result, stop, historyVars>>

----------------------------------------------------------------------------
(* Commands. *)

\* Main takes up a command.
Begin(c) ==
  /\ cmd = Idle
  /\ cmd' = c
  /\ result' = "none"

\* Main has carried out its command; errorf or emit says how it went.
End(how) == cmd' = Idle /\ result' = how

\* Interrupt raises the generation: a stop on its way is dropped as stale.
EnterInterrupt == cmd.at \in {"resolve", "act"} /\ stop' = NoStop

\* An RPC of the server fails, or the Interrupt around it.
Fails == End("failed") /\ UNCHANGED <<serverVars, once>>

BpAdd(spec, byFile, o) ==
  /\ Begin([Idle EXCEPT !.op = "add", !.at = "act", !.spec = spec,
                        !.byFile = byFile, !.once = o])
  /\ UNCHANGED <<serverVars, once, stop, historyVars>>

\* remove, enable, disable and condition: a number needs no resolving.
BpRefOp(op, ref, c) ==
  /\ Begin([Idle EXCEPT !.op = op, !.ref = ref, !.spec.cond = c,
                        !.at = IF ref \in Name THEN "resolve" ELSE "act",
                        !.id = IF ref \in Name THEN NoId ELSE ref])
  /\ UNCHANGED <<serverVars, once, stop, historyVars>>

BpClear ==
  /\ Begin([Idle EXCEPT !.op = "clear", !.at = "act"])
  /\ UNCHANGED <<serverVars, once, stop, historyVars>>

\* A bpAdd that marks every breakpoint as --once.
FaultyAddOnce(i) ==
  /\ once' = once \cup {i}
  /\ wanted' = IF cmd.once THEN wanted \cup {i} ELSE wanted

\* Runner.once learns the id the server gave a --once breakpoint.
AddOnce(i) ==
  /\ once' = IF cmd.once THEN once \cup {i} ELSE once
  /\ wanted' = IF cmd.once THEN wanted \cup {i} ELSE wanted

\* AddBreakpoint: a file:line the server cannot find is tried once more.
Create ==
  /\ cmd.op = "add"
  /\ \/ EnterInterrupt
     \/ cmd.at = "then" /\ UNCHANGED stop
  /\ \/ CreateBreakpoint(cmd.spec) /\ AddOnce(nextId) /\ End("ok")
     \/ /\ cmd.at = "act" /\ cmd.byFile
        /\ cmd' = [cmd EXCEPT !.at = "then"]
        /\ UNCHANGED <<serverVars, once, result, wanted>>
     \/ Fails /\ UNCHANGED wanted
  /\ UNCHANGED <<shown, kept>>

\* A resolver whose loop assigns a variable that shadows its result, and one
\* that takes a breakpoint's place in the list for its id.
ShadowedFound(i) == -1
PlaceFound(i)    == Cardinality({j \in reg : j < i})

\* What the resolver returns for the breakpoint it finds.
Found(i) == i

\* ResolveBPRef, in an Interrupt of its own.
Resolve ==
  /\ cmd.at = "resolve"
  /\ EnterInterrupt
  /\ \/ \E i \in reg :
          /\ bp[i].name = cmd.ref
          /\ cmd' = [cmd EXCEPT !.id = Found(i), !.at = "act"]
          /\ UNCHANGED <<serverVars, once, result>>
     \/ Fails
  /\ UNCHANGED historyVars

\* RemoveBreakpoint; the breakpoint is --once no longer.
Remove ==
  /\ cmd.op = "remove" /\ cmd.at = "act"
  /\ EnterInterrupt
  /\ \/ ClearBreakpoint(cmd.id) /\ once' = once \ {cmd.id} /\ End("ok")
     \/ Fails
  /\ UNCHANGED historyVars

\* A SetBreakpointEnabled that toggles without looking.
FaultyAsAsked == FALSE

AsAsked == bp[cmd.id].disabled = (cmd.op = "disable")

\* SetBreakpointEnabled reads the state, and is done if it is as requested.
ReadEnabled ==
  /\ cmd.op \in {"enable", "disable"} /\ cmd.at = "act"
  /\ EnterInterrupt
  /\ \/ /\ cmd.id \in reg
        /\ IF AsAsked
             THEN End("ok")
             ELSE cmd' = [cmd EXCEPT !.at = "then"] /\ UNCHANGED result
        /\ UNCHANGED <<serverVars, once>>
     \/ Fails
  /\ UNCHANGED historyVars

\* Otherwise it flips whatever state the breakpoint has by then.
Toggle ==
  /\ cmd.op \in {"enable", "disable"} /\ cmd.at = "then"
  /\ \/ ToggleBreakpoint(cmd.id) /\ End("ok") /\ UNCHANGED once
     \/ Fails
  /\ UNCHANGED <<stop, historyVars>>

\* SetBreakpointCondition copies the breakpoint ...
ReadCond ==
  /\ cmd.op = "condition" /\ cmd.at = "act"
  /\ EnterInterrupt
  /\ \/ /\ cmd.id \in reg
        /\ cmd' = [cmd EXCEPT !.at = "then", !.found = bp[cmd.id]]
        /\ UNCHANGED <<serverVars, once, result>>
     \/ Fails
  /\ UNCHANGED historyVars

\* An amendment that carries the id and the condition only.
FaultyAmended == [Blank EXCEPT !.cond = cmd.spec.cond]

Amended == [cmd.found EXCEPT !.cond = cmd.spec.cond]

\* ... and sends the copy back with the new condition.
Amend ==
  /\ cmd.op = "condition" /\ cmd.at = "then"
  /\ \/ AmendBreakpoint(cmd.id, Amended) /\ End("ok") /\ UNCHANGED once
     \/ Fails
  /\ UNCHANGED <<stop, historyVars>>

\* ClearAllBreakpoints lists the breakpoints ...
ListToClear ==
  /\ cmd.op = "clear" /\ cmd.at = "act"
  /\ EnterInterrupt
  /\ \/ /\ cmd' = [cmd EXCEPT !.at = "then", !.todo = reg]
        /\ UNCHANGED <<serverVars, once, result>>
     \/ Fails
  /\ UNCHANGED historyVars

\* A ClearAllBreakpoints that returns the last error instead of the first.
FaultyCleared(i) == [cmd EXCEPT !.todo = @ \ {i}, !.err = FALSE]

Cleared(i) == [cmd EXCEPT !.todo = @ \ {i}]

\* ... and removes one after the other, past any that fail. Runner.once is not
\* told.
ClearNext ==
  /\ cmd.op = "clear" /\ cmd.at = "then"
  /\ \/ /\ \E i \in cmd.todo :
             \/ ClearBreakpoint(i) /\ cmd' = Cleared(i)
             \/ cmd' = [cmd EXCEPT !.todo = @ \ {i}, !.err = TRUE] /\ UNCHANGED serverVars
        /\ UNCHANGED result
     \/ /\ cmd.todo = {}
        /\ End(IF cmd.err THEN "failed" ELSE "ok")
        /\ UNCHANGED serverVars
  /\ UNCHANGED <<once, stop, historyVars>>

----------------------------------------------------------------------------
(* Hits. *)

\* A running target hits an enabled breakpoint: while Main waits in a blocking
\* command, is between commands, or between two Interrupts of one.
Hit(i) ==
  /\ stop = NoStop
  /\ cmd.at \in {"idle", "resolve", "act"} /\ cmd.op # "once"
  /\ i \in reg /\ ~bp[i].disabled
  /\ stop' = [id |-> i, trace |-> bp[i].trace]
  /\ UNCHANGED <<serverVars, once, cmd, result, historyVars>>

\* A blocking command; RunToStop makes older stops stale.
CmdBlocking ==
  /\ Begin([Idle EXCEPT !.op = "run"])
  /\ stop' = NoStop
  /\ UNCHANGED <<serverVars, once, historyVars>>

\* The wait times out.
RunEnds ==
  /\ cmd.op = "run"
  /\ End("ok")
  /\ stop' = NoStop
  /\ UNCHANGED <<serverVars, once, historyVars>>

\* A blocking command reports a tracepoint's hit and carries on.
TraceHit ==
  /\ cmd.op = "run" /\ stop # NoStop
  /\ stop.trace
  /\ stop' = NoStop
  /\ UNCHANGED <<serverVars, once, cmd, result, historyVars>>

\* A presentStop that forgets the --once breakpoint and leaves it registered.
FaultyRemovalDue == FALSE

RemovalDue == stop.id \in once

\* presentStop, from a blocking command or from the loop's poll: a --once
\* breakpoint is forgotten first and then removed in an Interrupt.
PresentStop ==
  /\ stop # NoStop
  /\ cmd = Idle \/ (cmd.op = "run" /\ ~stop.trace)
  /\ shown' = shown \cup {stop.id}
  /\ once' = once \ {stop.id}
  /\ IF RemovalDue
       THEN cmd' = [Idle EXCEPT !.op = "once", !.at = "act", !.id = stop.id] /\ result' = "none"
       ELSE End("ok")
  /\ stop' = NoStop
  /\ UNCHANGED <<serverVars, wanted, kept>>

RemoveOnce ==
  /\ cmd.op = "once" /\ cmd.at = "act"
  /\ EnterInterrupt
  /\ \/ ClearBreakpoint(cmd.id) /\ End("ok") /\ UNCHANGED <<once, kept>>
     \/ Fails /\ kept' = kept \cup {cmd.id}
  /\ UNCHANGED <<wanted, shown>>

\* The stop-hold guard's continue takes the stop and discards it.
GuardDiscards ==
  /\ cmd = Idle /\ stop # NoStop
  /\ stop' = NoStop
  /\ UNCHANGED <<serverVars, once, cmd, result, historyVars>>

\* The session ends at any point and another begins: the registry survives,
\* Runner.once does not.
NextSession ==
  /\ cmd' = Idle /\ result' = "none" /\ once' = {} /\ stop' = NoStop
  /\ wanted' = {} /\ shown' = {} /\ kept' = {}
  /\ UNCHANGED serverVars

----------------------------------------------------------------------------

Init ==
  /\ reg = {} /\ bp = [i \in Id |-> Blank] /\ nextId = 1
  /\ once = {} /\ cmd = Idle /\ result = "none" /\ stop = NoStop
  /\ wanted = {} /\ shown = {} /\ kept = {}

StartCommand ==
  \/ \E spec \in Bp, byFile, o \in BOOLEAN : BpAdd(spec, byFile, o)
  \/ \E op \in {"remove", "enable", "disable"}, ref \in Ref : BpRefOp(op, ref, NoCond)
  \/ \E ref \in Ref, c \in Cond : BpRefOp("condition", ref, c)
  \/ BpClear
  \/ CmdBlocking

Step ==
  \/ Create \/ Resolve \/ Remove \/ ReadEnabled \/ Toggle \/ ReadCond \/ Amend
  \/ ListToClear \/ ClearNext
  \/ RunEnds \/ TraceHit \/ PresentStop \/ RemoveOnce

Next ==
  \/ StartCommand
  \/ Step
  \/ \E i \in Id : Hit(i)
  \/ GuardDiscards
  \/ OtherClient
  \/ NextSession

Spec == Init /\ [][Next]_vars
----------------------------------------------------------------------------
(* Properties. *)

\* Type invariant of the registry and of the session that manages it.
BpTypeOK ==
  /\ reg \subseteq Id
  /\ bp \in [Id -> Bp]
  /\ nextId \in 1..MaxId + 1
  /\ once \subseteq Id
  /\ cmd \in Cmd
  /\ result \in {"none", "ok", "failed"}
  /\ stop \in Stop
  /\ \A h \in {wanted, shown, kept} : h \subseteq Id

\* The command ends with this step, without an error.
Succeeds(op) == cmd.op = op /\ cmd' = Idle /\ result' = "ok"

\* It does, and no other client has changed the registry in the meantime.
SucceedsAlone(op) == Succeeds(op) /\ cmd.alone

\* A breakpoint is removed behind the user's back only after a stop at it was
\* presented, and only if this very session added it with --once, whatever was
\* removed, cleared and created in between.
OnlyOnceRemoved ==
  [][cmd.op = "once" /\ cmd' = Idle => reg \ reg' \subseteq wanted \cap shown]_vars

\* A --once breakpoint is presented a second time only if the removal the first
\* time failed.
OnceShownOnce ==
  [][\A i \in wanted \cap shown : PresentStop /\ stop.id = i => i \in kept]_vars

\* A breakpoint that is removed by reference is the one referred to, though it
\* was looked up in an earlier Interrupt and others may have changed the registry.
RemovesReferred ==
  [][cmd.op = "remove" /\ cmd' = Idle
       => \A i \in reg \ reg' : cmd.ref = i \/ bp[i].name = cmd.ref]_vars

\* `bp enable' and `bp disable' leave the breakpoint as they say, whether it was
\* so already or not, unless another client changes it under the command.
EnabledAsAsked ==
  [][/\ SucceedsAlone("enable") => cmd.id \in reg' /\ ~bp'[cmd.id].disabled
     /\ SucceedsAlone("disable") => cmd.id \in reg' /\ bp'[cmd.id].disabled]_vars

\* `bp condition' changes the condition of its breakpoint and nothing else,
\* unless another client changes it under the command (see ConditionKeepsRest).
ConditionOnly ==
  [][SucceedsAlone("condition") /\ bp' # bp
       => bp' = [bp EXCEPT ![cmd.id].cond = cmd.spec.cond]]_vars

\* A successful `bp clear' leaves no breakpoint and a successful `bp remove' none
\* its reference could mean, unless another client adds one under the command.
RemovalsComplete ==
  [][/\ SucceedsAlone("clear") => reg' = {}
     /\ SucceedsAlone("remove") => \A i \in reg' : cmd.ref # i /\ bp'[i].name # cmd.ref]_vars

----------------------------------------------------------------------------
(* What comments and documents say and the code does not do. *)

\* breakpoints.go: "only toggle when it differs from the requested one".
TogglesWhatDiffers ==
  [][cmd.op \in {"enable", "disable"} /\ bp' # bp /\ cmd' = Idle
       => bp[cmd.id].disabled # (cmd.op = "disable")]_vars

\* breakpoints.go: bp condition "updates a breakpoint's condition expression": it
\* puts back what another client has changed since it read the breakpoint.
ConditionKeepsRest ==
  [][Succeeds("condition") /\ bp' # bp
       => bp' = [bp EXCEPT ![cmd.id].cond = cmd.spec.cond]]_vars

\* runner.go: "Tracepoint hits are reported but do not pause".
TraceNeverPresented == \A i \in reg : bp[i].trace => i \notin shown
=============================================================================
