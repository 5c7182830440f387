CONSTANTS
  Bits <- MCBits
  Leaves <- MCLeaves
  MaxInsts = 2
SPECIFICATION IESpec
INVARIANTS
  IETypeOK
  UnsignedValuesKept
  SignedValuesKept
PROPERTIES
  RedundantCastsKeepValue
CHECK_DEADLOCK FALSE
