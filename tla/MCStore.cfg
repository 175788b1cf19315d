SPECIFICATION AllSpec
CONSTANTS
  Limit = 2
  DirLimit = 3
  Lengths = {1, 2}
  Blocks = {"x", "y"}
  MaxBlobs = 11
  MaxEntries = 11
  NodeKinds <- MCNodeKinds
  Keys <- MCKeys
  Texts <- MCTexts
  CtimeKey <- MCCtimeKey
  Seconds <- MCSeconds
  Base = 8
  Ten = 3
  Width = 3
INVARIANTS
  TypeOK
  RoundTrip
  WellFormed
  SameEncoding
  ReadsBack
  TimesExact
CHECK_DEADLOCK FALSE
