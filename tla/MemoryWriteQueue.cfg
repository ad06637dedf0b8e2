CONSTANTS
  a1 = a1
  a2 = a2
  t1 = t1
  t2 = t2
  f1 = f1
  f2 = f2
  f3 = f3
  Turns = {t1, t2}
  Fires = {f1, f2}
  Agents = {a1, a2}
  AgentOf <- TwoAgents
  Concurrency = 3
SPECIFICATION FairSpec
INVARIANTS
  WritesInOrder
  NothingHeldWhenOver
  DrainAccounts
PROPERTY EveryCallEnds
