CONSTANTS
  Worker = {w1, w2}
  Peer = {p1, p2}
  Key = {k1, k2}
  Encrypted = {k1}
  Buf = {b1, b2}
  Chan = {c1, c2}
  None = None
  Bad = Bad
  MaxRetries = 1
  MaxFetches = 2
  CasQueue = 1
SYMMETRY Symmetry
SPECIFICATION Spec
CHECK_DEADLOCK FALSE
INVARIANTS
  WrittenVerifiedUnshared
  OwnerReachable
