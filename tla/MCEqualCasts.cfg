CONSTANTS
  Bits <- MCBits
  Leaves <- TwoWidths
  MaxInsts = 2
SPECIFICATION IESpec
PROPERTIES
  EqualityCastsKeepValue
CHECK_DEADLOCK FALSE
