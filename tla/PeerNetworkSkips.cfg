SPECIFICATION FairSpec
CONSTANTS
  p1 = p1
  p2 = p2
  s1 = s1
  Peer <- TwoPeers
  Seed <- OneSeed
  Nobody = Nobody
  Misses = 1
  MaxLinks = 0
  MaxThreads = 1
  MaxFaults = 0
PROPERTY RequestsServed
CHECK_DEADLOCK FALSE
