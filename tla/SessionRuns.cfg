SPECIFICATION Spec
CONSTANTS
  p1 = p1
  p2 = p2
  c1 = c1
  t1 = t1
  t2 = t2
  Processes = {p1, p2}
  Home = p1
  Tenants = {t1, t2}
  Clients = {c1}
  Org <- MCOrg
  Settings <- MCSettings
  AccessTtl = 2
  RefreshTtl = 3
  Window = 1
  Recent = 2
  KeyTtl = 1
  MaxKeys = 2
INVARIANTS FeedIsComplete StaleIntentsAreKnown CredentialsLapse
CHECK_DEADLOCK FALSE
