SPECIFICATION ConsoleSpec
CONSTANTS
  RunId = {r1, r2}
  NoRun = NoRun
  Shared = FALSE
  Caller = {main, guard, resumer}
  NoCaller = NoCaller
  Cap = 2
  MaxGen = 2
  Main = main
  Guard = guard
  MainResumer = resumer
  SignalResumer = resumer
  Hold = TRUE
  Timed = FALSE
  ResumeAfter = TRUE
  Signal = FALSE
SYMMETRY Symmetry
INVARIANT HitsReachConsole
CHECK_DEADLOCK FALSE
