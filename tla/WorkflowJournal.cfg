CONSTANTS
  r1 = r1
  r2 = r2
  a = a
  b = b
  c = c
  Runs = {r1}
  Nodes = {a, b, c}
  RunOf <- OneRun
  Key <- OneKeys
  MaxDeaths = 3
SPECIFICATION FairSpec
INVARIANTS
  UsageExact
  CompletedCoversAll
PROPERTIES
  SettledNeverRerun
  Recovers
