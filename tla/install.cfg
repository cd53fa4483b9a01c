CONSTANTS
  Starts <- MCStarts
  Wheels = {old, new}
  Absent = Absent
  Foreign = Foreign
  MaxFaults = 1
  MaxChanges = 2
SPECIFICATION Spec
CHECK_DEADLOCK FALSE
INVARIANTS
  SelectedPlanIsSupported
  RecordDescribesTree
  LateFailureIsUnforeseen
PROPERTIES
  BuildsAsAssumed
  ServiceableHostIsServed
