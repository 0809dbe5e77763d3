CONSTANTS
  Nodes <- AskNodes
  Kind <- AskKind
  Guarded <- AskGuarded
  Edges <- AskEdges
  Workers = {w1, w2}
  Devices = {d1, d2}
  Boot = Boot
  MaxRequests = 1
  MaxJobs = 2
  MaxCrashes = 0
  MaxOverruns = 0
  MaxFaults = 0
SPECIFICATION Spec
PROPERTY RefusedOnlyWhileRunning
CHECK_DEADLOCK FALSE
