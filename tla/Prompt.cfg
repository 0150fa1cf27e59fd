SPECIFICATION Spec
CHECK_DEADLOCK FALSE
CONSTANTS
  MaxPrompts = 2
INVARIANTS
  TypeOK
  TerminalRestored
PROPERTIES
  InterruptEnds
