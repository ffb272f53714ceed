SPECIFICATION AutomaticSpec
CONSTANTS
  w1 = w1
  w2 = w2
  Workers = {w1, w2}
  Reconcilers = {w2}
  NoOwner = NoOwner
  MaxAttempts = 2
  LeaseTicks = 1
  NRoutes = 2
  MaxDeferrals = 0
  MaxAccountChanges = 2
  Stalls = FALSE
  RpcSnapshot = TRUE
INVARIANT AtMostOneEffect
INVARIANT SupersededAttemptsAreDead
INVARIANT SentOnlyIfDurable
INVARIANT NoEffectProofIsTrue
CHECK_DEADLOCK FALSE
