SPECIFICATION Spec
CHECK_DEADLOCK FALSE
INVARIANTS
  TypeOK
  CopiedMeansHeld
  FailureLeavesNothing
  ReportsOnce
PROPERTIES
  CopyReturns
  OrphanEnds
