SPECIFICATION Spec
CHECK_DEADLOCK FALSE
INVARIANTS
  PublishedIsComplete
  DoneMeansResult
  AnsweredOnce
  NothingIsLeft
  FirstErrorIsSent
