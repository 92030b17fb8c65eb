CONSTANTS
  s0 = s0
  s1 = s1
  d1 = d1
  Pods = {s0, d1}
  NoPod = NoPod
  STSPods = {s0}
  Ordinal <- OrdinalOf
  Versions = {"v4"}
  Wants <- DualStack
  IPPool <- SmallPools
  Hash <- EqualHashes
  Nodes = {1}
  MaxReplicas = 1
  MaxStart = 0
  MaxEdits = 2
  MaxFaults = 1
SPECIFICATION PacedSpec
INVARIANTS TypeOK UsedHeld OneToOne AllocationInv
PROPERTIES Static Reserves
CHECK_DEADLOCK FALSE
