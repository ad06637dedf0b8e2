CONSTANTS
  Agents = {"a"}
  Orphans = {"o"}
  Items = {"i1", "i2"}
  Owner <- MCOwner
  Requests = {"r"}
  IdleThreshold = 1
  Cadence = 2
  BatchLimit = 1
  MaxOwn = 1
  MaxFailures = 1
  MaxSweeps = 1
  Nobody = Nobody
SPECIFICATION Spec
INVARIANTS
  OwnWritesQuiet
PROPERTIES
  DebounceHolds
  AllDigested
