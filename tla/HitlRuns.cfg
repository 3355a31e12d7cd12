SPECIFICATION MCSpec
CONSTANTS
  ana = ana
  mgr = mgr
  adm = adm
  NoUser = NoUser
  MaxRecords = 2
  Cases = {c1}
  Analysts <- OneAnalyst
  Managers <- OneManager
  Admins <- OneAdmin
  Kinds <- AllKinds
  Outcomes <- BroadOutcomes
  ReanalysisMaxAttempts = 2
  PageLimit = 2
  LiveRecords = FALSE
  CaseCosign = TRUE
INVARIANTS FourEyes RowsAreCoherent CaseFollowsChildren
PROPERTY AuditTrailConnected
CHECK_DEADLOCK FALSE
