SPECIFICATION FairConsoleSpec
CONSTANTS
  RunId = {r1, r2}
  NoRun = NoRun
  Shared = FALSE
  Caller = {main, guard, resumer, sigresumer}
  NoCaller = NoCaller
  Cap = 2
  MaxGen = 2
  Main = main
  Guard = guard
  MainResumer = resumer
  SignalResumer = sigresumer
  Hold = TRUE
  Timed = FALSE
  ResumeAfter = FALSE
  Signal = TRUE
PROPERTY AbortEndsWork
CHECK_DEADLOCK FALSE
