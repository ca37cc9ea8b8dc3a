SPECIFICATION FairSpec
CONSTANTS
  Meetings = {1}
  Adopted = {}
  MaxSeq = 1
  MaxPresses = 0
  BulkThreshold = 1
  BulkLimit = 1
  Window = 1
  Env = {"new_consent"}
  MaxFaults = 0
CHECK_DEADLOCK FALSE
PROPERTIES
  BlockedUntilConsent
