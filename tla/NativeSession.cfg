\* Every request is used once, so the instance stops.
CONSTANTS
  Sessions = {s1, s2}
  Requests = {r1, r2, r3}
  MaxRestarts = 1
  MaxFaults = 1
  MaxBranches = 1
  Boot = Boot
  NoRec = NoRec
  Client = Client
  NoRow = NoRow
SPECIFICATION Spec
SYMMETRY Symmetry
CHECK_DEADLOCK FALSE
INVARIANTS
  RowHoldsHistory
  HistoryIsOwn
  DeleteIsFinal
PROPERTIES
  TurnLostOnlyByOverlap
  CancelIsFinal
