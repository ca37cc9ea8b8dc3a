SPECIFICATION FairSpec
CONSTANTS
  w1 = w1
  w2 = w2
  Sweeper = sweeper
  Workers <- MCOneWorker
  Handled <- MCHandled
  NSteps = 1
  MaxAttempts = 2
  MaxRuns = 2
  MaxFaults = 1
CHECK_DEADLOCK FALSE
INVARIANTS
  TypeOK
  AtMostOnePush
PROPERTIES
  NeverSwallowed
  OldRunChangesNothing
  QueuedIsProcessed
