CONSTANT
  Images <- LostImages
SPECIFICATION Spec
INVARIANTS
  CodeKept
CHECK_DEADLOCK FALSE
