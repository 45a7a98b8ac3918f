SPECIFICATION FairSpec
CONSTANTS
  k1 = k1
  Node <- FourNodes
  Founders = {5}
  Key = {k1}
  Bits = 3
  Paced = TRUE
  MaxLosses = 1
  MaxClients = 1
  MaxRequests = 1
  MaxHangups = 1
INVARIANTS TypeOK OneRing OneOwner FingersRight JamsOnlyBelowSmallest
PROPERTIES RefreshEnds
CHECK_DEADLOCK FALSE
