CONSTANTS
  r1 = r1
  r2 = r2
  a = a
  b = b
  c = c
  Runs = {r1, r2}
  Nodes = {a, b}
  RunOf <- TwoRuns
  Key <- TwoKeys
  MaxDeaths = 2
SPECIFICATION Spec
PROPERTY SettledNeverRerun
