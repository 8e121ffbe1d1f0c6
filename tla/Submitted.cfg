CONSTANTS
  a = a
  b = b
  d = d
  r = r
  Submitters <- MCSubmitters
  Requesters <- MCRequesters
  MaxQueueDepth = 2
  MaxWorkers = 2
SPECIFICATION FairSpec
CHECK_DEADLOCK FALSE
INVARIANTS
  PermitsExact
  OneWorkerRuns
PROPERTIES
  NeverBricked
  EveryCallReturns
