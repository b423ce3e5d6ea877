CONSTANTS
  Registers = {"RDX", "FS"}
  Bits = {0, 1}
  Slots = {}
  Values = {"e1"}
  Ignored = {}
  Unaffected = {}
  StackPointer = "RSP"
  AbiInputs = {"RDX"}
  SegmentBases = {"FS"}
  UnknownReadsAbi = TRUE
  Modules <- MCRingModules
  ReturnRegisters = {}
  ReturnBits = {0, 1}
  FloatReturns = {}
  DemandModules = {}
SPECIFICATION PassesSpec
PROPERTIES
  PassesTerminate
CHECK_DEADLOCK FALSE
