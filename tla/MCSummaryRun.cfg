CONSTANTS
  Registers = {"RDI", "RBX", "RSP"}
  Bits = {0, 1}
  Slots = {"slot"}
  Values = {"e1", "b1", "x1"}
  Ignored = {}
  Unaffected = {"RBX", "RSP"}
  StackPointer = "RSP"
  AbiInputs = {"RDI"}
  SegmentBases = {}
  UnknownReadsAbi = TRUE
  CollectEvidence = TRUE
  Programs <- MCPrograms
SPECIFICATION RunSpec
INVARIANTS
  TypeOK
  ResultsAreFixpoint
  EntryValuesInPlace
  CallsiteEvidenceHolds
  EffectHolds
  ReadsAtExitRecorded
PROPERTIES
  Terminates
  SolvesChaotically
CHECK_DEADLOCK FALSE
