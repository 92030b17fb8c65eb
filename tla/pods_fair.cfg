CONSTANTS
  s0 = s0
  s1 = s1
  d1 = d1
  Pods = {s0, d1}
  NoPod = NoPod
  STSPods = {s0}
  Ordinal <- OrdinalOf
  Versions = {"v4", "v6"}
  Wants <- DualStack
  IPPool <- ScarceIPv4
  Hash <- EqualHashes
  Nodes = {1}
  MaxReplicas = 1
  MaxStart = 0
  MaxEdits = 0
  MaxFaults = 1
SPECIFICATION FairSpec
INVARIANT OneEach
PROPERTIES Served Reserves
CHECK_DEADLOCK FALSE
