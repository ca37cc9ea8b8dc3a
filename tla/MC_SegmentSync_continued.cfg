SPECIFICATION Spec
CONSTANTS
  Meetings = {1}
  Adopted = {1}
  MaxSeq = 3
  MaxPresses = 1
  BulkThreshold = 1
  BulkLimit = 1
  Window = 1
  Env = {"auto_close"}
  MaxFaults = 1
CHECK_DEADLOCK FALSE
INVARIANTS
  TranscriptComplete
