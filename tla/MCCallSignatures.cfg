CONSTANTS
  Modules <- MCModules
  IntInputs <- MCIntInputs
  FloatInputs <- MCFloatInputs
  Outputs <- MCOutputs
  FloatOutputs <- MCFloatOutputs
  Carrying <- MCCarrying
  Others <- MCOthers
  StackUnits <- MCStackUnits
  Width <- MCWidth
  FloatWidth <- MCFloatWidth
SPECIFICATION Signatures
CHECK_DEADLOCK FALSE
INVARIANTS
  ArgumentsInPlace
  StackArgumentsKnown
  ReturnsArrive
