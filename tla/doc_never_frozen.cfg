SPECIFICATION FairConsoleSpec
CONSTANTS
  RunId = {r1, r2}
  NoRun = NoRun
  Shared = FALSE
  Caller = {main, guard, resumer}
  NoCaller = NoCaller
  Cap = 2
  MaxGen = 2
  Main = main
  Guard = guard
  MainResumer = resumer
  SignalResumer = resumer
  Hold = TRUE
  Timed = TRUE
  ResumeAfter = TRUE
  Signal = FALSE
PROPERTY NeverFrozen
CHECK_DEADLOCK FALSE
