SPECIFICATION Spec
CONSTANTS
  Wrap = 8
  MaxTime = 3
  MaxQueue = 2
  MaxCopies = 1
CHECK_DEADLOCK FALSE
INVARIANTS
  TypeOK
  PastesJudgedByTime
PROPERTIES
  IsBackend
  DeadlineEnds
  PastesAnswered
