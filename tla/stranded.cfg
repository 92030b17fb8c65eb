CONSTANTS
  s0 = s0
  s1 = s1
  d1 = d1
  Pods = {s0, d1}
  NoPod = NoPod
  STSPods = {s0}
  Ordinal <- OrdinalOf
  Versions = {"v4", "v6"}
  Wants <- DualStack
  IPPool <- SmallPools
  Hash <- EqualHashes
  Nodes = {1}
  MaxReplicas = 1
  MaxStart = 1
  MaxEdits = 1
  MaxFaults = 0
SPECIFICATION Spec
INVARIANT Released
CHECK_DEADLOCK FALSE
