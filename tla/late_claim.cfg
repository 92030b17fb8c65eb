CONSTANTS
  Names = {"app"}
  Versions = {"IPv4", "IPv6"}
  Specs = {1, 2}
  NoSpec = 0
  Templates <- TwoTemplates
  MaxUIDs = 1
  MaxEdits = 1
  MaxFaults = 0
SPECIFICATION OwnersSpec
INVARIANT ClaimsFollow
CHECK_DEADLOCK FALSE
