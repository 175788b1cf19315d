SPECIFICATION Spec
CONSTANTS
  Heights = {1, 2, 3}
  MaxOps = 5
INVARIANTS
  LogsKept
  IInv
  Coordinated
PROPERTY
  Terminates
CHECK_DEADLOCK FALSE
