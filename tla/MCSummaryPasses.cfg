CONSTANTS
  Registers = {"RAX", "RDX"}
  Bits = {0, 1}
  Slots = {}
  Values = {"e1"}
  Ignored = {}
  Unaffected = {}
  StackPointer = "RSP"
  AbiInputs = {"RDX"}
  SegmentBases = {}
  UnknownReadsAbi = TRUE
  Modules <- MCModules
  ReturnRegisters = {"RAX"}
  ReturnBits = {0, 1}
  FloatReturns = {}
  DemandModules <- MCDemandModules
SPECIFICATION PassesSpec
INVARIANTS
  ComponentsAreRecursionGroups
  EffectsAreFixpoint
  EffectsCoverRuns
  StableFlowsUseFinalEffects
  ObservedBitsDemanded
  DemandsAreLeast
PROPERTIES
  PassesTerminate
CHECK_DEADLOCK FALSE
