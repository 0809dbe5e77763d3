CONSTANTS
  Services <- MCServices
  Deps <- MCDeps
  Budget = 1
  MaxOps = 1
  MaxExits = 0
  MaxCrashes = 1
  MaxProcs = 4
SPECIFICATION Spec
INVARIANT NothingIsLost
CHECK_DEADLOCK FALSE
