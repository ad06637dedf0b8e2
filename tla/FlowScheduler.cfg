\* The number of runs is bounded, so the instance stops.
CONSTANTS
  Flows = {"f", "g"}
  Nodes <- MCNodes
  Sessions = {"e1", "e2", "k1"}
  Opened = {"e1", "k1"}
  Claw = {"k1"}
  FlowOf <- MCFlowOf
  SessionOf <- MCSessionOf
  Edges <- MCEdges
  Conditional <- MCConditional
  MaxRuns <- MCMaxRuns
  MaxTasks = 2
  MaxStrays = 1
  NoFlow = NoFlow
  NoClient = NoClient
SPECIFICATION Spec
CHECK_DEADLOCK FALSE
INVARIANTS
  MergeIsExact
PROPERTIES
  CancelHolds
  ResultStands
  FlowEnds
