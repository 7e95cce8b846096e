CONSTANTS
  MaxConns = 3
SPECIFICATION PeersSpec
CHECK_DEADLOCK FALSE
INVARIANTS
  NoStalePeer
  NoMapLeak
  OutboundLeavesRing
