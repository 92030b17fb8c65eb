CONSTANTS
  c1 = c1
  c2 = c2
  Pools = {c1, c2}
  NoPool = NoPool
  AutoCreated = {}
  Namespace <- OwnNamespaces
  NumBlocks = 2
  BlockSize = 2
  Sizes <- OneOrTwoBlocks
  MaxEdits = 1
  MaxAllocs = 0
  MaxFaults = 0
SPECIFICATION Spec
INVARIANTS TypeOK DisjointRanges RangesBacked OwnershipInv
PROPERTIES OwnBlocksDeleted Leases
CHECK_DEADLOCK FALSE
