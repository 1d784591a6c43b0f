SPECIFICATION FairSpec
CONSTANTS
  MaxSessions = 2
  MaxReconnectAttempts = 2
  Heartbeats = TRUE
  CallSets <- Shutdowns
PROPERTY DisconnectHeard
CHECK_DEADLOCK FALSE
