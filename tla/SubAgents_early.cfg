CONSTANTS
  f = f
  x = x
  FollowUps = {f}
  Cancels = {x}
  MaxCalls = 2
  MaxBegins = 2
  MaxTurns = 2
  MaxFaults = 0
SPECIFICATION Spec
PROPERTY RejectedIsForeign
CHECK_DEADLOCK FALSE
