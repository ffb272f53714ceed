SPECIFICATION FairSpec
CONSTANTS
  Workers = {w1, w2}
  NoOwner = NoOwner
  MaxAttempts = 2
  LeaseTicks = 2
  Items = {i1, i2}
  MaxDeferrals = 2
INVARIANT BudgetRespected
INVARIANT ClaimsBounded
INVARIANT NoStrandedItem
PROPERTY LeaseIsExclusive
PROPERTY EventuallyFinished
CHECK_DEADLOCK FALSE
