SPECIFICATION FairSpec
CONSTANTS
  Replicas = {p1, p2}
  Single = p1
  Rows = {plain, sparse}
  Sparse = {sparse}
  LegacyAudit = 2
  MaxAudit = 3
  MaxFaults = 2
INVARIANT DatabaseIsWhole
PROPERTY BootsComplete
CHECK_DEADLOCK FALSE
