SPECIFICATION Spec
CONSTANTS
  p1 = p1
  p2 = p2
  Procs = {p1}
  Fs <- MCFs
  NoVg = "none"
  Mirror = TRUE
  Gosure = TRUE
  MaxRuns = 1
INVARIANT
  UndoneWhenFinished
CHECK_DEADLOCK FALSE
