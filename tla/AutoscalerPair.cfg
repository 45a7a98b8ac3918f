SPECIFICATION Spec
CONSTANTS
  a = a
  b = b
  None = None
  VMs <- TwoVMs
  OverloadTime = 1
  IdleTime = 1
  ResetTime = 1
  Levels <- NotMid
  MaxWatchers = 1
  MaxEvents = 1
SYMMETRY Symmetry
INVARIANTS TypeOK FlagsAgree
PROPERTIES IdleIsEarned OverloadIsEarned
