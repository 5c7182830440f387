CONSTANTS
  Size = 3
  Kinds = {"load", "store", "call", "binary", "fcmp", "select", "insertvalue", "bitcast", "abs"}
SPECIFICATION IOSpec
INVARIANTS IOTypeOK SameEffects CallsInOneStatement
