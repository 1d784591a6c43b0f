SPECIFICATION Spec
CONSTANTS
  MaxObj = 2
  MaxWrites = 0
  WriteOutCap = 1
  Scenarios <- ResetTwice
INVARIANT NoCrossTalk
CHECK_DEADLOCK FALSE
