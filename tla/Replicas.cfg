CONSTANTS
  n1 = n1
  n2 = n2
  n3 = n3
  n4 = n4
  Node = {n1, n2, n3, n4}
  Self = n1
  Op = {1, 2, 3}
  By <- MCBy
  Kind <- MCKind
  NoCall = none
  W = 2
  R = 2
  Stamps = {1}
  File = {1, 2, 3}
  FileOrder <- MCFileOrder
  ManifestOrder <- MCManifestOrder
  Factor = 3
  Scenario <- MCScenario
  MaxSamples = 3
SPECIFICATION Spec
INVARIANTS
  
  DeadIsSilent
  
  DiffExact
CONSTRAINT Telling
CHECK_DEADLOCK FALSE
