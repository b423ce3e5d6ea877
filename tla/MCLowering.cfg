SPECIFICATION LoweringSpec
CONSTANTS
  PcodeFunctions <- MCPcodeFunctions
  Uniques = {"u"}
  ByteBits = 2
  PointerSize = 2
  BigEndian = FALSE
  RegisterTable <- MCRegisterTable
  StackPointer <- MCStackPointer
  Thunks <- MCThunks
  Codes <- MCCodes
  RegisterStarts <- MCRegisterStarts
  X87Functions <- MCX87Functions
  Arith <- MCArith
  Unary <- MCUnary
  Values = {0, 1, 2}
  MaxStack = 5
INVARIANTS
  SamePlace
  UniquesAgree
  OpsAgree
  WindowHoldsStack
  DepthIsExact
CHECK_DEADLOCK FALSE
