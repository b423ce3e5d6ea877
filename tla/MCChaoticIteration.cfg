CONSTANTS
  Size = 3
  Facts = {f1, f2}
  Bottom = {}
  Graphs <- MCGraphs
  Nodes <- MCNodes
  Succs <- MCSuccs
  Inputs <- MCInputs
  Transfer <- MCTransfer
  Same <- MCSame
SPECIFICATION Spec
INVARIANTS
  Fixpoint
  PathSolution
CHECK_DEADLOCK FALSE
