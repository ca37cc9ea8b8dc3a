SPECIFICATION Spec
CONSTANTS
  NSegs = 2
  Late = {1}
  TaskKeys = {"k"}
  MaxEdits = 2
  MaxRequeues = 2
  MaxTouches = 1
  NLines = 4
  Sizes = {1, 4, 8}
  Pauses = {0, 1, 2}
  Target = 8
  OverlapPct = 15
  MinBoundPct = 70
  LongPause = 1
  Names = {1, 2, 3}
  Chunks <- MCChunks
  Extraction <- MCExtraction
  MaxEntities = 3
  MaxMerges = 2
  MaxChanges = 1
  TLines = 2
  MaxNotFound = 2
  MaxTEdits = 1
  MaxRetaps = 1
  MaxTTrouble = 2
  MaxStatuses = 2
  MaxRoomTrouble = 3
INVARIANTS
  FreshOrFlagged
  ReadyIsConsistent
  CutsAreSound
  GraphIsFlat
  MentionsAtHome
  UndoRestoresInOrder
  TranslationsKept
  HeardIsShown
PROPERTIES
  OnlyChangedChunksRedone
  UserTasksSurviveRuns
CHECK_DEADLOCK FALSE
