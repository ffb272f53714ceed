SPECIFICATION FairSpec
CONSTANTS
  w1 = w1
  w2 = w2
  Workers = {w1, w2}
  Reconcilers = {w2}
  NoOwner = NoOwner
  MaxAttempts = 2
  LeaseTicks = 1
  NRoutes = 1
  MaxDeferrals = 1
  MaxAccountChanges = 2
  Stalls = FALSE
  RpcSnapshot = FALSE
INVARIANT ConfirmedHasEffect
INVARIANT TerminalNotHeld
INVARIANT NoOrphanedPayment
PROPERTY EventuallySettled
CHECK_DEADLOCK FALSE
