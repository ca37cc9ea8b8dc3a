SPECIFICATION LiveSpec
CONSTANTS
  MaxWords = 4
  MaxSeams = 2
  RingWords = 3
  OverlapWords = 2
  SeamWords = 4
  FreshMatch = 2
  ShortestText = 2
INVARIANTS
  FirstFinalsMatched
CHECK_DEADLOCK FALSE
