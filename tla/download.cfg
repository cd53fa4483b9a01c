CONSTANTS
  Size = 2
  Retries = 3
SPECIFICATION Spec
CHECK_DEADLOCK TRUE
INVARIANTS
  HonestServerSuffices
  ProgressIsKept
  DoneIsClean
PROPERTY EnsuresAsAssumed
