SPECIFICATION Spec
CONSTANTS
  r1 = r1
  s1 = s1
  Requests <- MCRequests
  Terms <- MCTermsV2
  AtomicPerCent = 2
  Slots = {1}
  Unseen = Unseen
  Nothing = Nothing
  Gone = Gone
  Transfers <- MCTransfers
  Subscriptions = {s1}
  EventTypes <- MCEventTypes
  Owners = {o1}
  Calls = {c1, c2}
  MaxAttempts = 2
  MaxTime = 3
  MaxFaults = 1
INVARIANT PaidAsAsked
CHECK_DEADLOCK FALSE
