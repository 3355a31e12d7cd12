SPECIFICATION Spec
CONSTANTS
  p1 = p1
  p2 = p2
  t1 = t1
  t2 = t2
  Processes = {p1, p2}
  Tenants = {t1, t2}
  NoTenant = NoTenant
  Configs <- MCConfigs
  Events <- MCEvents
  ToldIntents = {"B"}
  ToldVerdicts = {"YELLOW"}
  MayDisable = {"recipe"}
  Costs = {1}
  MaxCost = 1
  Budget = 2
  Thresholds = {TRUE}
  MaxRuns = 2
  MaxFaults = 1
INVARIANTS SpendIsBounded RunsKeepApart ModelStaysInBounds
CHECK_DEADLOCK FALSE
