SPECIFICATION Spec
CONSTANTS
  Meetings = {1}
  Adopted = {1}
  MaxSeq = 2
  MaxPresses = 0
  BulkThreshold = 1
  BulkLimit = 1
  Window = 1
  Env = {"load_fails"}
  MaxFaults = 0
CHECK_DEADLOCK FALSE
INVARIANTS
  NoLoss
