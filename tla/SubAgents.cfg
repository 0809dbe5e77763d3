CONSTANTS
  f = f
  x = x
  FollowUps = {f}
  Cancels = {x}
  MaxCalls = 2
  MaxBegins = 2
  MaxTurns = 2
  MaxFaults = 1
SPECIFICATION FairSpec
INVARIANTS SubAgentsInv ToldOnlyItsCall CancelDecides
PROPERTY QueuedIsSettled
CHECK_DEADLOCK FALSE
