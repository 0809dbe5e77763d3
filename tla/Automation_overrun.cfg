CONSTANTS
  Nodes <- ShortNodes
  Kind <- ShortKind
  Guarded <- ShortGuarded
  Edges <- ShortEdges
  Workers = {w1, w2}
  Devices = {d1, d2}
  Boot = Boot
  MaxRequests = 0
  MaxJobs = 1
  MaxCrashes = 0
  MaxOverruns = 1
  MaxFaults = 1
SPECIFICATION Spec
INVARIANT NodeNotRerun
CHECK_DEADLOCK FALSE
