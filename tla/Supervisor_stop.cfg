CONSTANTS
  Services <- MCServices
  Deps <- MCDeps
  Budget = 1
  MaxOps = 2
  MaxExits = 1
  MaxCrashes = 0
  MaxProcs = 4
SPECIFICATION Spec
PROPERTY StopIsTrue
CHECK_DEADLOCK FALSE
