SPECIFICATION Spec
CONSTANTS
  k1 = k1
  k2 = k2
  k3 = k3
  v1 = v1
  v2 = v2
  Keys <- MCKeys
  Values <- MCValues
  Empty = Empty
  Success = Success
  NoKey = NoKey
  NoLine = NoLine
  Absent = Absent
  NoCall = NoCall
  NoOfEntries = 2
SYMMETRY Symmetry
INVARIANTS TypeOK DistinctKeys CacheCoherent
PROPERTIES DiskKeepsPairs ImplementsMap
