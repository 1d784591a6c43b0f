SPECIFICATION Spec
CONSTANTS
  Port <- MCPort
  Customer <- MCCustomer
  Service <- MCService
  MaxRequests = 2
  Scenarios <- PostThenFile
PROPERTIES ReloadKeepsTenant
CHECK_DEADLOCK FALSE
