SPECIFICATION Spec
CONSTANTS
  Me = me
  Root = "r"
  Dirs = {"r", "s", "m"}
  Files = {"b", "c"}
  Links = {"l"}
  Foreign = {"m"}
  Children <- MCChildren
  Path <- MCPath
  Ino <- MCIno
  Contents <- MCContents
  Start <- MCStart
  Ages = {1}
  MaxClock = 2
  MaxEdits = 2
  MaxDumps = 2
  MaxRegens = 1
INVARIANTS
  FaithInv
  Closed
  Vouched
  Faithful
  BoundedTrust
  RegenRebuilds
CHECK_DEADLOCK FALSE
