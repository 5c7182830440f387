CONSTANTS
  N = 8
  Shapes <- AllShapes
  SwitchPhis = FALSE
SPECIFICATION MCSpec
INVARIANTS
  TextIsWhole
PROPERTIES
  ImplementsLlvm
  EventuallyPrinted
