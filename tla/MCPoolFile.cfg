SPECIFICATION Spec
CONSTANTS
  Chunks = {0, 1, 4, 5}
  KindOf <- MCKindOf
  DataLen <- MCDataLen
  ZLen <- MCZLen
  HeaderLen = 4
  Align = 4
  NotPacked = 99
  Bytes = 4
  Rest = 2
  MaxIndexes = 2
INVARIANTS
  ScansWhole
  IndexCovers
CHECK_DEADLOCK FALSE
