SPECIFICATION Spec
CONSTANTS
  RunId = {r1, r2}
  NoRun = NoRun
  Shared = FALSE
  Caller = {console}
  NoCaller = NoCaller
  Cap = 2
  MaxGen = 3
SYMMETRY Symmetry
PROPERTY InterruptResumes
CHECK_DEADLOCK FALSE
