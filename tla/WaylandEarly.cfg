SPECIFICATION Spec
CONSTANTS
  MaxEvents = 2
  MaxPastes = 2
  MaxCopies = 1
CHECK_DEADLOCK FALSE
INVARIANTS
  ErrorMeansUnserved
