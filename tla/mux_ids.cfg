SPECIFICATION Spec
CONSTANTS
  MaxObj = 2
  MaxWrites = 1
  WriteOutCap = 1
  Scenarios <- Streams2
INVARIANTS IdSpacesDisjoint FinLast
CHECK_DEADLOCK FALSE
