CONSTANTS
  c1 = c1
  c2 = c2
  Pools = {c1}
  NoPool = NoPool
  AutoCreated = {}
  Namespace <- OwnNamespaces
  NumBlocks = 3
  BlockSize = 2
  Sizes <- UpToFour
  MaxEdits = 3
  MaxAllocs = 0
  MaxFaults = 0
SPECIFICATION Spec
INVARIANT RangesBacked
CHECK_DEADLOCK FALSE
