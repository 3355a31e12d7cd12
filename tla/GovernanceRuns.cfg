SPECIFICATION Spec
CONSTANTS
  p1 = p1
  p2 = p2
  t1 = t1
  t2 = t2
  None = None
  Processes = {p1, p2}
  Tenants = {t1, t2}
  Owner = t1
  Layers <- MCLayers
  Signals = {"po", "amount"}
  Whole = 10
  Platform <- MCPlatform
  Behaviour <- MCBehaviour
  Overrides <- MCOverrides
  Settings <- MCSettings
INVARIANTS AuditIsWhole ResolvedFitsRows SeedIsSound
CHECK_DEADLOCK FALSE
