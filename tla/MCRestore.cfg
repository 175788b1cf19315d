SPECIFICATION Spec
CONSTANTS
  Trees <- MCTrees
  User = 1
  MaxInt = 3
  Now = 0
  MaxOthers = 2
INVARIANTS IInv Matches PrivateUntilComplete FailsOnlyWhenHindered
PROPERTY NoClobber
CHECK_DEADLOCK FALSE
