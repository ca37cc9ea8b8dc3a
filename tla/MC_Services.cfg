SPECIFICATION Spec
CONSTANTS
  MaxWords = 4
  MaxSeams = 2
  RingWords = 3
  OverlapWords = 2
  SeamWords = 4
  FreshMatch = 2
  ShortestText = 2
  Sockets = {s1, s2}
  OwnerOf <- MCOwnerOf
  MaxStreams = 3
  MaxLive = 1
  TokenBudget = 1
  Callers = {c1, c2}
  Keys = {1, 2}
  MaxConcurrency = 1
  Retries = 1
  MaxTime = 1
  MaxErrors = 2
  CallBudget = 2
  People = {ann, bob}
  MaxTokens = 3
  MaxTrouble = 2
  Requests = {r1, r2, r3}
  MaxDays = 3
  Grace = 2
  Notice = 1
  Terms = {0, 1}
  Mtgs = {m1}
  Talks = {1, 2}
  Spots = {1, 2}
  MaxRows = 6
  ContextBudget = 2
  Asks = {a1}
  MaxHeard = 2
  MaxListens = 2
  MaxSessions = 3
  MaxOnTheWay = 3
  GapMarkMin = 2
  DeadTimes = {1}
  Attempts = 2
  Backlog = 1
  MaxRuns = 2
  MaxOpens = 3
  MaxFrames = 3
  MaxPending = 1
  MaxChunks = 3
  MaxChunkRuns = 2
  MaxMeetings = 1
  MaxSpoken = 1
  MaxWaiting = 2
  MaxOps = 4
  MaxKills = 1
  MaxCalls = 2
  Members = {ann, bob}
  NoMember = nobody
  MaxPushRuns = 4
  MaxLosses = 1
INVARIANTS
  NeverDeaf
  NoStraySession
  SpokenOrder
  StreamsAreHeld
  PlacesAddUp
  OwnersDataStaysHome
  NoFalseAlarm
  SignInsMeet
  CitationsLead
  SavedOnce
  DeathsAreMarked
  KeepsListening
  LossIsShown
  EveryChunkAccounted
  EndIsComplete
  PushesFollowTheUser
PROPERTIES
  OnlyOwnPauseUndone
CHECK_DEADLOCK FALSE
