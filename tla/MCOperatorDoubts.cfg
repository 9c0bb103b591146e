\* The sellers may ask for another price when it is read again, and a person may
\* decline the policy that is shown.  Both invariants fail (tlc -continue).
SPECIFICATION Spec
CHECK_DEADLOCK FALSE
CONSTANTS
  None = None
  g1 = g1
  g2 = g2
  a1 = a1
  t1 = t1
  t2 = t2
  x1 = x1
  weather = weather
  p1 = p1
  Requests = {g1, g2, a1, t1, t2, x1}
  PolicyReqs = {g1, g2}
  ApproveReqs = {a1}
  ToolReqs = {t1, t2}
  OtherReqs = {x1}
  PolicyOf <- MCPolicyOf
  KeyOf <- MCKeyOf
  OffersOf <- MCOffersOf
  PaysAsSeen = {x1}
  Prices = {1, 2, 3}
  Policies = {p1}
  Class <- MCClass
  MaxPayment <- MCMax
  Budget <- MCBudget
  MaxCrashes = 1
INVARIANT PaidAsApproved
INVARIANT PolicyApprovedOnDevice
