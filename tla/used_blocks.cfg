CONSTANTS
  c1 = c1
  c2 = c2
  Pools = {c1}
  NoPool = NoPool
  AutoCreated = {}
  Namespace <- OwnNamespaces
  NumBlocks = 2
  BlockSize = 2
  Sizes <- UpToThree
  MaxEdits = 1
  MaxAllocs = 1
  MaxFaults = 0
SPECIFICATION Spec
PROPERTY UsedBlocksKept
CHECK_DEADLOCK FALSE
