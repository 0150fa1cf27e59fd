SPECIFICATION Spec
CHECK_DEADLOCK FALSE
CONSTANTS
  MaxPrompts = 1
INVARIANTS
  EchoSurvivesInterrupt
