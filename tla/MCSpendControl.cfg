SPECIFICATION Spec
CONSTANTS
  c1 = c1
  c2 = c2
  Clients = {c1, c2}
  Keys = {k1, k2}
  Unlimited = Unlimited
  Intents <- MCIntents
  OriginalAmount = 3
  Routes = {1, 2}
  DefaultRoute = 2
  Underway <- MCUnderway
  Policies <- MCPolicies
  FirstPolicy <- Strict
  Numerator = 2
  Denominator = 1
  InitialUnits = 6
  Dust = 1
  ApprovalTtl = 1
  MaxCalls = 2
  MaxSwitches = 1
  MaxTime = 1
INVARIANT RefundsBounded
INVARIANT AnswersAreFaithful
INVARIANT ApprovalGovernsFunds
PROPERTY AdmissionWithinLimits
CHECK_DEADLOCK FALSE
SYMMETRY Symmetry
