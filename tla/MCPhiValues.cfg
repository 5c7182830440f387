CONSTANTS
  P = 2
  Nums <- MCNums
  Step <- MCStep
  Test <- MCTest
  LoopsChecked <- MCLoops
SPECIFICATION PVSpec
INVARIANT PVTypeOK
PROPERTIES SequentialLoopsImplementLlvm LeavesWithLlvm
CHECK_DEADLOCK FALSE
