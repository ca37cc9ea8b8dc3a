SPECIFICATION StreamSpec
CONSTANTS
  Attempts = 1
  Backlog = 1
  MaxRuns = 2
  MaxOpens = 3
  MaxFrames = 2
INVARIANTS
  AudioFlows
CHECK_DEADLOCK FALSE
