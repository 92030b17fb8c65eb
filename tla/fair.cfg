CONSTANTS
  c1 = c1
  c2 = c2
  Pools = {c1}
  NoPool = NoPool
  AutoCreated = {c1}
  Namespace <- OwnNamespaces
  NumBlocks = 2
  BlockSize = 2
  Sizes <- NoneOneOrTwoBlocks
  MaxEdits = 1
  MaxAllocs = 1
  MaxFaults = 1
SPECIFICATION FairSpec
INVARIANTS NoBlockLeak StatusExact ClaimServed
PROPERTIES Recycled ScaledUp
CHECK_DEADLOCK FALSE
