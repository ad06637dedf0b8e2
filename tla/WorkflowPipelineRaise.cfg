CONSTANTS
  N = 2
  M = 2
  Concurrency = 2
SPECIFICATION PipelineFairSpec
CHECK_DEADLOCK FALSE
PROPERTY EveryItemComesOut
