CONSTANTS
  Archives = {trellis, eigen}
  MaxFaults = 3
SPECIFICATION FairSpec
CHECK_DEADLOCK TRUE
INVARIANTS
  DoneIsDerived
  OldOrNewExists
  FailedCallRestores
  FailedCallIsClean
PROPERTIES
  CallCompletes
