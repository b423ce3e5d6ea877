SPECIFICATION SSASpec
CONSTANTS
  Functions <- MCFunctions
  Regs = {"a", "b"}
  Width = 2
  AbiPreserved = {}
INVARIANTS
  ReadsAgree
  ExitsAgree
  ArgumentsAgree
CHECK_DEADLOCK FALSE
