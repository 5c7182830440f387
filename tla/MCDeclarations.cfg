CONSTANTS
  Types <- MCTypes
  Depth <- MCDepth
  Inputs <- MCInputs
  Loop = Loop
SPECIFICATION DTSpec
INVARIANTS
  DETypeOK
  DefinedOnce
  DefinedBeforeNeeded
  MembersKeepTheirTypes
  NoCallWithinItself
  GlobalsInOrder
  CallsDeclared
  TypesStay
  NestedTypedefsMeanTheirTypes
