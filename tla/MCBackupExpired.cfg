SPECIFICATION Spec
CONSTANTS
  Me = me
  Root = "r"
  Dirs = {"r", "s", "m"}
  Files = {"b", "c"}
  Links = {"l"}
  Foreign = {"m"}
  Children <- MCChildren
  Path <- MCPath
  Ino <- MCIno
  Contents <- TinyContents
  Start <- TinyStart
  Ages = {1, 2}
  MaxClock = 2
  MaxEdits = 1
  MaxDumps = 1
  MaxRegens = 1
INVARIANTS
  ExpiredDiscarded
CHECK_DEADLOCK FALSE
