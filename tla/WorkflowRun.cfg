CONSTANTS
  N = 4
  Concurrency = 2
  Limit = 2
  MaxPrior = 3
  MaxUse = 2
SPECIFICATION FairSpec
INVARIANTS
  TypeOK
  BudgetBound
  SpentInOrder
  SlotsConserved
  BudgetSignalExact
PROPERTIES
  NoSpawnAfterTrip
  Termination
  ImplementsFanOut
