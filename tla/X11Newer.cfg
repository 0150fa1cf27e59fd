SPECIFICATION Spec
CONSTANTS
  Wrap = 8
  MaxTime = 2
  MaxQueue = 2
  MaxCopies = 1
CHECK_DEADLOCK FALSE
PROPERTIES
  NewerOwnerKept
