SPECIFICATION Spec
CONSTANTS
  Names = {1, 2, 3, 4}
  Ino <- MCIno
  Faults = TRUE
  MaxEdits = 1
INVARIANTS
  EofAtEnd
CHECK_DEADLOCK FALSE
