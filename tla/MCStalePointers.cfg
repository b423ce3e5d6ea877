SPECIFICATION LoweringSpec
CONSTANTS
  PcodeFunctions <- MCStalePointers
  Uniques = {"u"}
  ByteBits = 2
  PointerSize = 2
  BigEndian = FALSE
  RegisterTable <- MCRegisterTable
  StackPointer <- MCStackPointer
  Thunks <- MCThunks
  Codes = {}
  RegisterStarts <- MCRegisterStarts
  X87Functions = {}
  Arith <- MCArith
  Unary <- MCUnary
  Values = {0, 1, 2}
  MaxStack = 5
INVARIANTS
  SlotCallsLoadedSlot
CHECK_DEADLOCK FALSE
