SPECIFICATION Spec
CHECK_DEADLOCK FALSE
CONSTANTS
  Absent = Absent
  Unreadable = Unreadable
  SortedNames <- MCNames
  InitialVaults <- MCVaults
  Invocations <- MCInvocations
  Environments <- MCEnvironments
  MaxWrites = 1
  MaxToken = 12
  BufSize = 20
PROPERTIES
  StoredExactly
