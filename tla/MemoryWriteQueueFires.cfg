\* The three tasks stop for good once they hold every slot between them.
CONSTANTS
  a1 = a1
  a2 = a2
  t1 = t1
  t2 = t2
  f1 = f1
  f2 = f2
  f3 = f3
  Turns = {}
  Fires = {f1, f2, f3}
  Agents = {a1}
  AgentOf <- OneAgent
  Concurrency = 2
SPECIFICATION FairSpec
CHECK_DEADLOCK FALSE
PROPERTY NestedSubmitReturns
