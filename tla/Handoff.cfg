CONSTANTS
  Target = {t1, t2}
  Key = {1, 2}
  Size <- SizeIsKey
  MaxHints = 2
  MaxDataSize = 4
  MaxAttempts = 2
  MaxAdds = 3
  MaxCrashes = 1
SPECIFICATION FairSpec
CHECK_DEADLOCK FALSE
INVARIANTS
  Accounted
  
PROPERTIES
  NothingComesBack
  Drains
