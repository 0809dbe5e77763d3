CONSTANTS
  Nodes <- AskNodes
  Kind <- AskKind
  Guarded <- AskGuarded
  Edges <- AskEdges
  Workers = {w1, w2}
  Devices = {d1, d2}
  Boot = Boot
  MaxRequests = 2
  MaxJobs = 3
  MaxCrashes = 1
  MaxOverruns = 0
  MaxFaults = 1
SPECIFICATION FairSpec
PROPERTY QueuedRunIsTaken
CHECK_DEADLOCK FALSE
