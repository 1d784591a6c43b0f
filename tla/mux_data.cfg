SPECIFICATION Spec
CONSTANTS
  MaxObj = 1
  MaxWrites = 2
  WriteOutCap = 1
  Scenarios <- Data
INVARIANTS TypeOK NoTruncation 
PROPERTIES ImplementsPipe
CHECK_DEADLOCK FALSE
