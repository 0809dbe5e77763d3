CONSTANTS
  Nodes <- ToolNodes
  Kind <- ToolKind
  Guarded <- ToolGuarded
  Edges <- ToolEdges
  Workers = {w1, w2}
  Devices = {d1, d2}
  Boot = Boot
  MaxRequests = 1
  MaxJobs = 2
  MaxCrashes = 1
  MaxOverruns = 1
  MaxFaults = 2
SPECIFICATION Spec
INVARIANTS AutomationInv EffectStartedOnce
SYMMETRY Symmetry
CHECK_DEADLOCK FALSE
