SPECIFICATION Spec
CONSTANTS
  w1 = w1
  w2 = w2
  Workers = {w1, w2}
  Reconcilers = {w2}
  NoOwner = NoOwner
  MaxAttempts = 1
  LeaseTicks = 1
  NRoutes = 1
  MaxDeferrals = 0
  MaxAccountChanges = 0
  Stalls = FALSE
  RpcSnapshot = TRUE
INVARIANT NoTerminalHeldReservation
CHECK_DEADLOCK FALSE
