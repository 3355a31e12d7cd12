SPECIFICATION FairSpec
CONSTANTS
  Callers = {c1, c2, c3}
  MinSamples = 2
  Window = 1
  Cooldown = 4
  CallDeadline = 2
  ErrorRatePct = 50
  MaxSamples = 5
INVARIANT ProbeRules
PROPERTIES RetripNeedsNewFault Recovers
