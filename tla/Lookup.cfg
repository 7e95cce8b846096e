CONSTANTS
  o = o
  a = a
  b = b
  d = d
  Node = {o, a, b, d}
  Origin = o
  Link = {{o, a}, {o, b}, {a, b}, {b, d}}
  Target = {a, b}
  HasManifest = {a, b}
  Sharing = {a, b, d}
  Seeder = {a, d}
  Call = {c1, c2}
  None = None
  TTL = 2
  SearchCap = 2
  MaxLosses = 1
  MaxTasks = 2
SPECIFICATION LookupSpec
CHECK_DEADLOCK FALSE
INVARIANTS
  LoopNeverWaits
  SearchFinds
PROPERTY
  SeedersListed
