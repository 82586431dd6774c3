SPECIFICATION Spec
CONSTANT MaxUsed = 2
INVARIANTS
  NoFault
  FlagMeansMemory
  LeaksOnly
  ToldTruth
CHECK_DEADLOCK FALSE
