SPECIFICATION Spec
CONSTANTS
  b1 = b1
  b2 = b2
  b3 = b3
  b4 = b4
  Genesis = Genesis
  None = None
  Blocks <- FourBlocks
PROPERTY MinesOnHighest
CHECK_DEADLOCK FALSE
