SPECIFICATION Spec
CONSTANTS
  Meetings = {1, 2}
  Adopted = {2}
  MaxSeq = 2
  MaxPresses = 0
  BulkThreshold = 1
  BulkLimit = 1
  Window = 1
  Env = {"delete", "new_consent"}
  MaxFaults = 0
CHECK_DEADLOCK FALSE
INVARIANTS
  NoLoss
