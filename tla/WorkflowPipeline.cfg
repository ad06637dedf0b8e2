\* A worker that died leaves the main coroutine waiting for good, so the
\* instance may stop before it returned.
CONSTANTS
  N = 3
  M = 3
  Concurrency = 2
SPECIFICATION PipelineFairSpec
CHECK_DEADLOCK FALSE
INVARIANTS
  SinkInOrder
  ResultsKeepSuccesses
  NothingLeftBehind
PROPERTY ReturnsUnlessWorkerDies
