CONSTANT
  Images <- MCImages
SPECIFICATION Spec
INVARIANTS
  EdgesStayLocal
  EdgesKept
  FoldedHasOneOwner
  BlocksDisjoint
PROPERTIES
  CodeStays
CHECK_DEADLOCK FALSE
