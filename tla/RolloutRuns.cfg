SPECIFICATION FairSpec
CONSTANTS
  q1 = q1
  q2 = q2
  q3 = q3
  w1 = w1
  h1 = h1
  k1 = k1
  k2 = k2
  NoCase = NoCase
  Calls = {q1, q2, q3, w1, h1}
  Asks <- MCAsks
  Budget <- MCBudget
  DefaultTimeout = 2
  LiveOperations <- MCLiveOperations
  Slot <- MCSlot
  Slots = 2
  Workers = 2
  MinSamples = 2
  Settings <- MCSettings
INVARIANTS FailuresAreFiled CallsAreServed
PROPERTY CallsAreAnswered
CHECK_DEADLOCK FALSE
