CONSTANTS
  N = 2
  Versions = {1, 2}
  MaxParallel = 2
  MaxCalls = 3
  MaxCrashes = 2
SPECIFICATION FairSpec

  
PROPERTIES
  FailureKeepsProgress
  CallsEnd
