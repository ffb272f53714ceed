SPECIFICATION AutomaticSpec
CONSTANTS
  w1 = w1
  w2 = w2
  Workers = {w1, w2}
  Reconcilers = {w2}
  NoOwner = NoOwner
  MaxAttempts = 2
  LeaseTicks = 1
  NRoutes = 2
  MaxDeferrals = 0
  MaxAccountChanges = 0
  Stalls = FALSE
  RpcSnapshot = FALSE
INVARIANT AtMostOneEffect
CHECK_DEADLOCK FALSE
