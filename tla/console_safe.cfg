SPECIFICATION ConsoleSpec
CONSTANTS
  RunId = {r1, r2, r3}
  NoRun = NoRun
  Shared = FALSE
  Caller = {main, guard, resumer}
  NoCaller = NoCaller
  Cap = 1
  MaxGen = 2
  Main = main
  Guard = guard
  MainResumer = resumer
  SignalResumer = resumer
  Hold = TRUE
  Timed = FALSE
  ResumeAfter = TRUE
  Signal = FALSE
SYMMETRY Symmetry
INVARIANTS ConsoleTypeOK ReportedOnce ExitNoteTruthful DoneTruthful GuardQuietDuringCommand
PROPERTIES CommandsEndWithOwnStop
CHECK_DEADLOCK FALSE
