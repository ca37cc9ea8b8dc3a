SPECIFICATION FairSpec
CONSTANTS
  Meetings = {1}
  Adopted = {}
  MaxSeq = 2
  MaxPresses = 0
  BulkThreshold = 1
  BulkLimit = 2
  Window = 1
  Env = {}
  MaxFaults = 1
CHECK_DEADLOCK FALSE
INVARIANTS
  NeverEndsAnyway
PROPERTIES
  Synced
  BacklogIsSent
