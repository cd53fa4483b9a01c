CONSTANTS
  Setups = {s1, s2}
  Jobs = {j1, j2}
  Environments = {native, portable}
  Remains = {torn}
  Nothing = Nothing
  MaxTries = 1
  MaxKills = 1
SPECIFICATION LeaseFairSpec
CHECK_DEADLOCK TRUE
INVARIANTS
  SetupWorksAlone
  LeasedEnvironmentIsStable
PROPERTY EveryWaiterIsAnswered
