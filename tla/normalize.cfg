CONSTANTS
  Package = {library, init}
  Library = library
  Fixed = {}
  MaxWrites = 2
  MaxFaults = 1
SPECIFICATION FairSpec
CHECK_DEADLOCK TRUE
INVARIANTS
  ReportedWasThere
PROPERTIES
  PublicationIsOrdered
  UndisturbedCallCompletes
