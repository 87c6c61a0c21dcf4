------------------------------- MODULE Delve -------------------------------
(***************************************************************************)
(* The remote debugger as agent-go-debugger sees it: one target process    *)
(* under a headless Delve server, reached over one JSON-RPC connection.    *)
(* Delve is a dependency, not part of the repository; this module is the   *)
(* environment the Go code is written against (see its comments in         *)
(* session.go and control.go) and nothing more:                            *)
(*                                                                         *)
(*   - the server answers GetStateNonBlocking at any time;                 *)
(*   - it executes one execution command (continue, next, step, stepOut)   *)
(*     at a time; a second one waits until the target has stopped;         *)
(*   - Halt stops the target, the interrupted command then returns;        *)
(*   - every other RPC waits while the target executes.                    *)
(*                                                                         *)
(* An execution command is sent by a background goroutine of the client.   *)
(* `run' records one such execution from the goroutine's creation to the   *)
(* fate of the stop it produced; the states after "returned" belong to the *)
(* client and are driven by module Control.                                *)
(***************************************************************************)
EXTENDS Naturals

CONSTANTS
  RunId,    \* names of the background executions; bounds how many there are
  NoRun,    \* stands for "no execution"
  Shared    \* another client of the server (--accept-multiclient) is at work

ASSUME NoRunAssumption == NoRun \notin RunId /\ Shared \in BOOLEAN

VARIABLES
  target,   \* the debugged process, as the server knows it
  conn,     \* the JSON-RPC connection
  run       \* the background executions

serverVars == <<target, conn, run>>

TargetState == {"running", "stopped", "exited"}

\* "next", "step" and "stepOut" differ only in where they land: "step" is all three.
Command == {"continue", "step"}

\* What an execution command returned: a breakpoint was hit, the step was
\* completed, our Halt cut it short, another client's did, the process ended,
\* the connection ended.
Reply == {"breakpoint", "step", "manual", "halted", "exited", "lost"}

\* unused -> issued (goroutine started) -> executing (accepted by the server)
\* -> returned -> posting (passed the staleness test), perhaps full (found no
\* room) and retrying (has cleared a slot) -> queued in stopCh -> reported to a
\* caller, or dropped as stale, or evicted (cleared from the channel, or refused
\* by it a second time).
RunState == {"unused", "issued", "executing", "returned", "posting", "full", "retrying",
             "queued", "reported", "dropped", "evicted"}

Run == [st : RunState, cmd : Command, gen : Nat, reply : Reply \cup {"none"}]

Unused == [st |-> "unused", cmd |-> "continue", gen |-> 0, reply |-> "none"]

\* Session.Running: an RPC error reads as "not running".
Running == conn = "open" /\ target = "running"

----------------------------------------------------------------------------

\* The server takes up an execution command sent by run r. It waits while
\* another command executes; on a dead process or connection it fails at once.
Accept(r) ==
  /\ run[r].st = "issued"
  /\ \/ /\ conn = "open"
        /\ target = "stopped"
        /\ target' = "running"
        /\ run' = [run EXCEPT ![r].st = "executing"]
     \/ /\ conn = "open"
        /\ target = "exited"
        /\ run' = [run EXCEPT ![r].st = "returned", ![r].reply = "exited"]
        /\ UNCHANGED target
     \/ /\ conn = "lost"
        /\ run' = [run EXCEPT ![r].st = "returned", ![r].reply = "lost"]
        /\ UNCHANGED target
  /\ UNCHANGED conn

\* The target ends the execution of run r for the reason `why'.
Finish(r, why) ==
  /\ run[r].st = "executing"
  /\ why \in {"breakpoint", "step", "halted", "exited"}
  /\ why = "step" => run[r].cmd = "step"
  /\ why = "halted" => Shared
  /\ run' = [run EXCEPT ![r].st = "returned", ![r].reply = why]
  /\ target' = IF why = "exited" THEN "exited" ELSE "stopped"
  /\ UNCHANGED conn

\* A target that runs for no goroutine of ours (for `dlv --continue', or for a
\* client that has left) stops by itself; another client that is still there
\* may also start it.
OtherClient ==
  /\ \A r \in RunId : run[r].st # "executing"
  /\ \/ target = "running" /\ target' \in {"stopped", "exited"}
     \/ Shared /\ target = "stopped" /\ target' = "running"
  /\ UNCHANGED <<conn, run>>

\* The connection ends. Executing commands return to the client with an error
\* while the target keeps running.
LoseConnection ==
  /\ conn = "open"
  /\ conn' = "lost"
  /\ run' = [r \in RunId |-> IF run[r].st = "executing"
                             THEN [run[r] EXCEPT !.st = "returned", !.reply = "lost"]
                             ELSE run[r]]
  /\ UNCHANGED target

\* The effect of a Halt RPC that succeeds: a running target stops and the
\* command it was executing returns; on a stopped target it does nothing.
HaltTarget ==
  /\ conn = "open"
  /\ target \in {"running", "stopped"}
  /\ target' = "stopped"
  /\ run' = [r \in RunId |-> IF run[r].st = "executing"
                             THEN [run[r] EXCEPT !.st = "returned", !.reply = "manual"]
                             ELSE run[r]]
  /\ UNCHANGED conn

ServerNext ==
  \/ \E r \in RunId : Accept(r)
  \/ \E r \in RunId, why \in Reply : Finish(r, why)
  \/ OtherClient
  \/ LoseConnection

ServerTypeOK ==
  /\ target \in TargetState
  /\ conn \in {"open", "lost"}
  /\ run \in [RunId -> Run]
=============================================================================
