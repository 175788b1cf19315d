SPECIFICATION Spec
CONSTANTS
  p1 = p1
  p2 = p2
  Procs = {p1, p2}
  Fs <- MCFs
  NoVg = "none"
  Mirror = TRUE
  Gosure = TRUE
  MaxRuns = 2
SYMMETRY Alike
INVARIANTS
  IInv
  RightSource
  AllFrozen
  LeavesNothing
PROPERTY
  OnlyOwn
CHECK_DEADLOCK FALSE
