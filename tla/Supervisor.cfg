CONSTANTS
  Services <- MCServices
  Deps <- MCDeps
  Budget = 1
  MaxOps = 2
  MaxExits = 1
  MaxCrashes = 2
  MaxProcs = 4
SPECIFICATION FairSpec
INVARIANTS SupervisorInv NoStrayProcess
PROPERTIES StopEndsProcess OperationSettles
CHECK_DEADLOCK FALSE
