CONSTANTS
  Plans = {native, portable}
  Absent = Absent
  Foreign = Foreign
  MaxFaults = 2
  MaxCrashes = 2
SPECIFICATION FairSpec
CHECK_DEADLOCK TRUE
INVARIANTS
  ConfigDescribesEnvironment
  BackupIsRestorable
  SuccessIsClean
  FailedRepairRestores
PROPERTIES
  ImplementsInstallation
  RepairConverges
