SPECIFICATION FairSpec
CONSTANTS
  r1 = r1
  s1 = s1
  Requests <- MCRequests
  Terms <- MCTerms
  AtomicPerCent = 2
  Slots = {1}
  Unseen = Unseen
  Nothing = Nothing
  Gone = Gone
  Transfers <- MCTransfers
  Subscriptions = {s1}
  EventTypes <- MCEventTypes
  Owners = {o1}
  Calls = {c1, c2}
  MaxAttempts = 2
  MaxTime = 3
  MaxFaults = 1
INVARIANT PaidAsAsked
INVARIANT SendsBounded
PROPERTY ManagedPaymentMatched
PROPERTY EventuallyAnnounced
PROPERTY OutcomesAreFinal
CHECK_DEADLOCK FALSE
