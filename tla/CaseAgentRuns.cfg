SPECIFICATION Spec
CONSTANTS
  r1 = r1
  r2 = r2
  p1 = p1
  p2 = p2
  Runs = {r1, r2}
  NoRun = NoRun
  Process <- MCProcess
  Verdicts = {"GREEN", "RED"}
  Responses <- MCResponses
  Costs = {1}
  MaxIterations = 2
  MaxCost = 3
  MaxWallClock = 1
  CompactAt = 2
  AgeAt = 2
  Lease = 1
  MaxTime = 2
  MaxFaults = 1
INVARIANTS OneRunPerCase TraceIsTrue
PROPERTY NotesAreKept
CHECK_DEADLOCK FALSE
