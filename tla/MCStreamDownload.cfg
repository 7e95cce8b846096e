CONSTANTS
  N = 6
  WindowSize = 3
  RootMatches = TRUE
SPECIFICATION FairSpec
INVARIANTS
  MemoryBounded
  SendNeverBlocks
PROPERTIES
  Termination
  RefinesOrderedStream
