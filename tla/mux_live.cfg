SPECIFICATION FairSpec
CONSTANTS
  MaxObj = 1
  MaxWrites = 1
  WriteOutCap = 1
  Scenarios <- Lifecycles
PROPERTIES  GracefulRelease DrainEnds ResetReachesPeer CloseUnblocks
CHECK_DEADLOCK FALSE
