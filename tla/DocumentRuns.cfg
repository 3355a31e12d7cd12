SPECIFICATION Spec
CONSTANTS
  p1 = p1
  p2 = p2
  a1 = a1
  a2 = a2
  a3 = a3
  t1 = t1
  t2 = t2
  Processes = {p1, p2}
  Home = p1
  Attachments = {a1, a2, a3}
  Tenant <- MCTenant
  Sha <- MCSha
  Template <- MCTemplate
  Settings <- MCSettings
  Ttl = 1
  MaxKeys = 3
INVARIANTS BytesAreAccounted LinksLast CachesFit
PROPERTY ImplementsErasure
CHECK_DEADLOCK FALSE
