CONSTANTS
  Statements <- MCStatements
  Memories <- MCMemories
  Undef = Undef
SPECIFICATION PESpec
INVARIANTS
  PETypeOK
  NothingLeftToSimplify
  TextDoesWhatLlvmDoes
