CONSTANTS
  MaxSignals = 2
SPECIFICATION FairSpec
CHECK_DEADLOCK FALSE
INVARIANTS
  GroupEndsWithCall
  ReturnMeansCompleteRun
PROPERTIES
  CallEnds
  InfersAsAssumed
