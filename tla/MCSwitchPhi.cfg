CONSTANTS
  N = 4
  Shapes <- SwitchMerge
  SwitchPhis = TRUE
SPECIFICATION MCSpec
INVARIANT PhisFromPredecessor
