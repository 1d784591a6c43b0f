SPECIFICATION FairSpec
CONSTANTS
  Customer <- MCCustomer
  MaxConn = 1
  MaxClient = 0
  Scenarios <- Dies
PROPERTIES ClosedLeaves
CHECK_DEADLOCK FALSE
