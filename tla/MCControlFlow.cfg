CONSTANTS
  N = 5
  MaxRets = 2
SPECIFICATION MCSpec
INVARIANTS
  TypeOK
  CFTypeOK
  HandledOnce
  GotosHaveOneLabel
  CodePrintedOnce
  NoReentrantInlining
  NeverFallsOff
  PhisFromPredecessor
  TestsOwnCondition
PROPERTIES
  ImplementsLlvm
