SPECIFICATION RaceSpec
CONSTANTS
  w1 = w1
  w2 = w2
  w3 = w3
  Executor = w1
  Workers = {w1, w2, w3}
  Reconcilers = {w2, w3}
  NoOwner = NoOwner
  MaxAttempts = 3
  LeaseTicks = 1
  NRoutes = 2
  MaxDeferrals = 1
  MaxAccountChanges = 0
  Stalls = TRUE
  RpcSnapshot = TRUE
INVARIANT SupersededAttemptsAreDead
CHECK_DEADLOCK FALSE
