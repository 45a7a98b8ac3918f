SPECIFICATION FairSpec
CONSTANTS
  k1 = k1
  Node <- TwoNodes
  Founders = {1}
  Key = {k1}
  Bits = 2
  Paced = TRUE
  MaxLosses = 0
  MaxClients = 2
  MaxRequests = 0
  MaxHangups = 0
PROPERTIES KeyOnSameNode
CHECK_DEADLOCK FALSE
