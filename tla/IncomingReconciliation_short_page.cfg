SPECIFICATION Spec
CONSTANTS
  Workers = {w1, w2}
  Slots = {1, 2}
  Kinds = {TRUE}
  Unreadable = {1}
  WholeHistory = FALSE
  Nothing = Nothing
  Gone = Gone
  MaxRetries = 1
  MaxFaults = 1
INVARIANT NoTransferLost
