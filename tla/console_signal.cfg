SPECIFICATION ConsoleSpec
CONSTANTS
  RunId = {r1, r2}
  NoRun = NoRun
  Shared = FALSE
  Caller = {main, guard, resumer, sigresumer}
  NoCaller = NoCaller
  Cap = 2
  MaxGen = 2
  Main = main
  Guard = guard
  MainResumer = resumer
  SignalResumer = sigresumer
  Hold = FALSE
  Timed = TRUE
  ResumeAfter = TRUE
  Signal = TRUE
SYMMETRY Symmetry
INVARIANTS ExitZeroMeansReleased
CHECK_DEADLOCK FALSE
