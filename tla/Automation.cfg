CONSTANTS
  Nodes <- AskNodes
  Kind <- AskKind
  Guarded <- AskGuarded
  Edges <- AskEdges
  Workers = {w1, w2}
  Devices = {d1, d2}
  Boot = Boot
  MaxRequests = 2
  MaxJobs = 3
  MaxCrashes = 1
  MaxOverruns = 1
  MaxFaults = 1
SPECIFICATION Spec
INVARIANTS AutomationInv EffectStartedOnce GuardedRunsOnApproval
PROPERTIES StaleWritesHaveCause EndedRunStaysEnded
SYMMETRY Symmetry
CHECK_DEADLOCK FALSE
