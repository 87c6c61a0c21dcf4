SPECIFICATION Spec
CONSTANTS
  RunId = {r1, r2, r3}
  NoRun = NoRun
  Shared = TRUE
  Caller = {console}
  NoCaller = NoCaller
  Cap = 2
  MaxGen = 2
SYMMETRY Symmetry
INVARIANTS TypeOK TimedOutIsSettled ReaderInv InterruptedNeverReported OneLiveExecution ExitNoteTruthful ReportedOnce
PROPERTIES AnswersWithOwnStop DeliversCurrent
CHECK_DEADLOCK FALSE
