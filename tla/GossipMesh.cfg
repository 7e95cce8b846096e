CONSTANTS
  n1 = n1
  n2 = n2
  n3 = n3
  Node = {n1, n2, n3}
  Bootstrap <- Star
  MaxInFlight = 1
  MaxConnects = 4
  MaxFailures = 1
SPECIFICATION MeshSpec
CHECK_DEADLOCK FALSE
INVARIANTS
  AliveIsOwned
  
PROPERTIES
  EntriesAdvance
  Converges
