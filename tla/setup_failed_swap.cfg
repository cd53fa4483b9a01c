CONSTANTS
  Plans = {native, portable}
  Absent = Absent
  Foreign = Foreign
  MaxFaults = 1
  MaxCrashes = 0
SPECIFICATION Spec
SYMMETRY PlanSymmetry
CHECK_DEADLOCK TRUE
INVARIANT FailedSwapKeepsConfiguration
