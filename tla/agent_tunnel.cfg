SPECIFICATION FairSpec
CONSTANTS
  MaxSessions = 2
  MaxReconnectAttempts = 2
  Heartbeats = TRUE
  CallSets <- Shutdowns
INVARIANTS TypeOK OneSession ShutdownIsClean
PROPERTIES CancelStops LostLinkReplaced
CHECK_DEADLOCK FALSE
