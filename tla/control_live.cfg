SPECIFICATION FairSpec
CONSTANTS
  RunId = {r1, r2}
  NoRun = NoRun
  Shared = TRUE
  Caller = {console}
  NoCaller = NoCaller
  Cap = 2
  MaxGen = 2
PROPERTIES TimedRunReturns OwnStopAnswers
CHECK_DEADLOCK FALSE
