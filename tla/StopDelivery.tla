---------------------------- MODULE StopDelivery ----------------------------
(***************************************************************************)
(* What the execution control promises its reader, with no generations,    *)
(* no channel and no server: at most one execution is current; its stop    *)
(* reaches the reader once at most; an execution that was abandoned (the   *)
(* target was halted on purpose) never reaches the reader.                 *)
(***************************************************************************)
CONSTANTS
  RunId,    \* names of the executions
  NoRun     \* stands for "no execution"

VARIABLES
  current,    \* the execution whose stop the reader may still be handed
  started,    \* the executions there have been
  delivered   \* those whose stop was handed to the reader

vars == <<current, started, delivered>>

\* The session may begin with an execution under way (the entry point's).
Init ==
  /\ current \in RunId \cup {NoRun}
  /\ started = {current} \ {NoRun}
  /\ delivered = {}

\* A new execution starts only when none is current.
Start(r) ==
  /\ current = NoRun
  /\ r \notin started
  /\ current' = r
  /\ started' = started \cup {r}
  /\ UNCHANGED delivered

\* The target is halted on purpose: the current execution's stop is forgotten.
Abandon ==
  /\ current # NoRun
  /\ current' = NoRun
  /\ UNCHANGED <<started, delivered>>

\* The reader is handed the stop of the current execution.
Deliver ==
  /\ current # NoRun
  /\ current' = NoRun
  /\ delivered' = delivered \cup {current}
  /\ UNCHANGED started

Next == (\E r \in RunId : Start(r)) \/ Abandon \/ Deliver

Spec == Init /\ [][Next]_vars
=============================================================================
