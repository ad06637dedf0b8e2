\* Every request is used once, so the instance stops.
CONSTANTS
  a1 = a1
  a2 = a2
  o1 = o1
  e1 = e1
  a3 = a3
  e2 = e2
  p3 = p3
  x = x
  y = y
  Requests <- MCRequests
  Agents = {a1, a2, a3}
  Kind <- MCKind
  AgentOf <- MCAgentOf
  Branches <- MCBranches
  MaxAgents = 2
  MaxFaults = 1
SPECIFICATION Spec
CHECK_DEADLOCK FALSE
INVARIANTS
  SlotsGoRound
  StatusTellsTheTruth
  SubagentsAreTransient
PROPERTIES
  EveryRequestEnds
