SPECIFICATION ServicesSpec
CONSTANTS
  MaxChunks = 1
  Caller = {"e1", "e2", "e3"}
  Closer = {"c1", "c2"}
  BufferSize = 1
  MaxVersion = 3
  Consumer = {"w1", "w2"}
  Width = 3
  InitialSize = 2
  MaxUpdates = 3
  IP = {"ip1", "ip2"}
  Call = {1, 2, 3, 4}
  Source <- SourceOf
  Burst = 2
  StaleTimeout = 2
  MaxPause = 1
  MaxTime = 4
INVARIANTS TypeOK NothingLeft WholeTransfer LoggedInOrder AcceptedIsLogged WindowConserved NoSleepWithCredit SweepGrantsNothing
PROPERTIES ForwardReturns CloseFlushes RotationServed
CHECK_DEADLOCK FALSE
