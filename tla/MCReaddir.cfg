SPECIFICATION Spec
CONSTANTS
  Names = {1, 2, 3, 4}
  Ino <- MCIno
  Faults = TRUE
  MaxEdits = 3
INVARIANTS
  IInv
  Complete
CHECK_DEADLOCK FALSE
