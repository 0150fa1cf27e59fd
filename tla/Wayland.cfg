SPECIFICATION Spec
CONSTANTS
  MaxEvents = 2
  MaxPastes = 3
  MaxCopies = 2
CHECK_DEADLOCK FALSE
INVARIANTS
  TypeOK
  FallbackIsClean
PROPERTIES
  IsBackend
  DeadlineReturns
  ValueGoesAway
  LossEnds
