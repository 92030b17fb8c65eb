CONSTANTS
  Names = {"app"}
  Versions = {"IPv4", "IPv6"}
  Specs = {1, 2}
  NoSpec = 0
  Templates <- TwoTemplates
  MaxUIDs = 2
  MaxEdits = 1
  MaxFaults = 1
SPECIFICATION FairSpec
INVARIANTS TypeOK ClaimsFollow FollowInv
PROPERTIES Provided Collected
CHECK_DEADLOCK FALSE
