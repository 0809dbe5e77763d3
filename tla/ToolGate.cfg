CONSTANTS
  agent = agent
  c1 = c1
  c2 = c2
  c3 = c3
  Calls = {agent, c1, c2, c3}
  Agents = {agent}
  MaxInner = 3
SPECIFICATION FairSpec
INVARIANTS NoMissedWakeup OperationExclusion
PROPERTIES NoOvertaking RevokedNeverRuns CallSettles
