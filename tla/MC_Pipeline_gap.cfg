SPECIFICATION Spec
CONSTANTS
  w1 = w1
  w2 = w2
  Sweeper = sweeper
  Workers <- MCWorkers
  Handled <- MCHandledGap
  NSteps = 3
  MaxAttempts = 2
  MaxRuns = 1
  MaxFaults = 1
SYMMETRY Symmetry
CHECK_DEADLOCK FALSE
INVARIANTS
  FailedNamesStep
