SPECIFICATION Spec
CONSTANTS
  Names = {1, 2, 3, 4}
  Ino <- MCIno
  Faults = FALSE
  MaxEdits = 2
INVARIANTS
  SkipsVanished
CHECK_DEADLOCK FALSE
