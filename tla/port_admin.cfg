SPECIFICATION Spec
CONSTANTS
  Port <- MCPort
  Customer <- MCCustomer
  Service <- MCService
  MaxRequests = 3
  Scenarios <- All
INVARIANTS TypeOK  RestartRestores  LimitsInForce
 
CHECK_DEADLOCK FALSE
