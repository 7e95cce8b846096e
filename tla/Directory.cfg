CONSTANTS
  File = {1, 2}
  Chunks <- MCChunks
  Resized = {1}
  Worker = {w1, w2}
  Absent = Absent
  MaxVersion = 2
  MaxRetries = 1
  MaxCalls = 2
SPECIFICATION Spec
CHECK_DEADLOCK FALSE
INVARIANTS
  
  FinalWhole
  
PROPERTY
  CallsEnd
