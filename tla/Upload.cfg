CONSTANTS
  N = 2
  Target = {t1, t2, t3}
  MaxInFlight = 1
  ProcCap = 1
  MaxCalls = 2
  MaxCrashes = 1
SPECIFICATION FairSpec
CHECK_DEADLOCK FALSE
INVARIANTS
  ManifestInOrder
  
PROPERTIES
  CallsEnd
