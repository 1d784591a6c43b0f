SPECIFICATION FairSpec
CONSTANTS
  Customer <- MCCustomer
  MaxConn = 3
  MaxClient = 2
  Scenarios <- All
INVARIANTS TypeOK NoOrphan RoutedToOwner
PROPERTIES ReplacedCloses StopClosesAgents CopyReleases
CHECK_DEADLOCK FALSE
