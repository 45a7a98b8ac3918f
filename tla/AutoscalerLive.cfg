SPECIFICATION FairSpec
CONSTANTS
  a = a
  b = b
  None = None
  VMs <- TwoVMs
  OverloadTime = 0
  IdleTime = 1
  ResetTime = 1
  Levels <- BusyOrIdle
  MaxWatchers = 1
  MaxEvents = 1
PROPERTIES ScalesUp AlwaysServed
