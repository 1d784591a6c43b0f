SPECIFICATION Spec
CONSTANTS
  MaxObj = 3
  MaxWrites = 0
  WriteOutCap = 1
  Scenarios <- CloseThrice
INVARIANT UniqueIDs
CHECK_DEADLOCK FALSE
