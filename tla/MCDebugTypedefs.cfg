CONSTANTS
  Types <- MCTypes
  Depth <- MCDepth
  Inputs <- SameLlvmType
  Loop = Loop
SPECIFICATION DTSpec
INVARIANT TypedefsMeanTheirTypes
