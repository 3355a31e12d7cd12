SPECIFICATION ReplySpec
CONSTANTS
  p1 = p1
  p2 = p2
  e1 = e1
  e2 = e2
  Replicas = {p1, p2}
  Effects = {e1, e2}
  NoEffect = NoEffect
  NoBuyer = NoBuyer
  MaxAttempts = 2
  Deployments <- MCDeployments
INVARIANTS LedgerIsTrue RepliesAreTrue RevisionsChain
PROPERTY FailuresAreDrained
CHECK_DEADLOCK FALSE
