SPECIFICATION FairSpec
CONSTANTS
  c1 = c1
  c2 = c2
  w1 = w1
  w2 = w2
  k1 = k1
  k2 = k2
  v1 = v1
  v2 = v2
  Clients <- MCClients
  Workers <- OneWorker
  Keys <- OneKey
  Values <- TwoValues
  Empty = Empty
  Success = Success
  None = None
  MaxEvents = 2
  MaxRequests = 2
  MayClose = FALSE
INVARIANTS ReadsSeeEarlierWrites DrainedStoreIsExpected
PROPERTY EveryRequestAnswered
