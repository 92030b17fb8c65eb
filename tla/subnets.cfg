CONSTANTS
  n1 = n1
  n2 = n2
  c1 = c1
  SubnetNames = {n1, n2}
  Claims = {c1}
  NoPool = NoPool
  Space <- AllAddresses
  CIDRs <- SomeCIDRs
  V6 <- SixAddresses
  Candidates <- TwoCandidates
  ClaimVersion <- AllIPv4
  Replicas <- ThreeReplicas
  Requests <- SomeRequests
  MaxRequests = 2
  MaxAdmissions = 1
  MaxEvents = 1
SPECIFICATION FairSpec
INVARIANTS TypeOK SharedAtMost SubnetInv StatusExact
PROPERTIES StaysInside FirstSufficient Retired
CHECK_DEADLOCK FALSE
