SPECIFICATION FairSpec
CONSTANTS
  p1 = p1
  p2 = p2
  s1 = s1
  Peer <- TwoPeers
  Seed <- OneSeed
  Nobody = Nobody
  Misses = 3
  MaxLinks = 2
  MaxThreads = 2
  MaxFaults = 1
INVARIANTS TypeOK NeighborsWatched
PROPERTIES DeadForgotten NeighborsMutual
CHECK_DEADLOCK FALSE
