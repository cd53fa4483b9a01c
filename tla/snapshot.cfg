CONSTANTS
  Weights = {weights}
  Sources = {lato, dino}
  MaxFaults = 2
SPECIFICATION FairSpec
CHECK_DEADLOCK TRUE
PROPERTIES
  ImplementsInstallation
  RepairCompletes
