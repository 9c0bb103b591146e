\* One user, one phone, both channels: a purchase and a test, one restart; codes
\* and approvals live one tick, so that one is asked after another lapsed and
\* replies come late.
SPECIFICATION Spec
CONSTANTS
  alice = alice
  bob = bob
  s1 = s1
  s2 = s2
  k1 = k1
  k2 = k2
  a1 = a1
  a2 = a2
  a3 = a3
  Users = {alice}
  Senders = {s1}
  Codes = {k1}
  Nothing = Nothing
  PairingTTL = 1
  Approvals = {a1, a2}
  OwnerOf <- MCOwnerOf
  Tests = {a2}
  TestTTL = 1
  ApprovalTTL = 1
  EchoId = FALSE
  RequireId = FALSE
  MaxCrashes = 1
  MaxTime = 1
  MaxCalls = 1
INVARIANT ButtonDecidesItsOwn
INVARIANT StrayReplyIsLate
PROPERTY LinkedByPairingOnly
PROPERTY ImplementsConsent
