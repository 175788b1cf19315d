SPECIFICATION LifeSpec
CONSTANTS
  p1 = p1
  p2 = p2
  c1 = c1
  c2 = c2
  small = small
  even = even
  big1 = big1
  big2 = big2
  Procs = {p1, p2}
  Chunks = {small, even, big1, big2}
  DirOf <- MCDirOf
  DataLen <- MCDataLen
  ZLen <- MCZLen
  FileLimit = 5
  Creators = {c1, c2}
  Tables <- MCTables
  Lines <- MCLines
  Version = "new"
  Lacks <- MCLacks
SYMMETRY Alike
CHECK_DEADLOCK FALSE
INVARIANTS
  IInv
  Retrievable
  LifeInv
  OpenedIsWhole
  CreatedIsWhole
  OldPoolsReadOnly
PROPERTIES
  CommittedFilesStable
  InsertFailsOnlyOnFault
  DisturbedLateOnly
  Implements
