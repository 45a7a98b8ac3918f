SPECIFICATION FairSpec
CONSTANTS
  b1 = b1
  b2 = b2
  b3 = b3
  b4 = b4
  Genesis = Genesis
  None = None
  Blocks <- ThreeBlocks
INVARIANTS TypeOK ChainConnected OrphansRequested OwnBlocksConnected
PROPERTIES MinesOnTip ReadyIsInserted
CHECK_DEADLOCK FALSE
