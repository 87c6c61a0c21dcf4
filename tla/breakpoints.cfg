SPECIFICATION Spec
CONSTANTS
  Name = {n1, n2}
  NoName = NoName
  Cond = {c1}
  NoCond = NoCond
  MaxId = 2
  Other = TRUE
SYMMETRY Symmetry
INVARIANT BpTypeOK
PROPERTIES OnlyOnceRemoved OnceShownOnce RemovesReferred EnabledAsAsked ConditionOnly 
CHECK_DEADLOCK FALSE
