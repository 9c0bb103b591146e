\* One phone that moves from one user to the other while approvals of both are
\* open, lapsing or being answered.
SPECIFICATION Spec
CONSTANTS
  alice = alice
  bob = bob
  s1 = s1
  s2 = s2
  k1 = k1
  k2 = k2
  a1 = a1
  a2 = a2
  a3 = a3
  Users = {alice, bob}
  Senders = {s1}
  Codes = {k1, k2}
  Nothing = Nothing
  PairingTTL = 1
  Approvals = {a1, a3}
  OwnerOf <- MCOwnerOf
  Tests = {}
  TestTTL = 1
  ApprovalTTL = 1
  EchoId = FALSE
  RequireId = FALSE
  MaxCrashes = 0
  MaxTime = 1
  MaxCalls = 1
INVARIANT OneLinkEachWay
INVARIANT ApprovedByAReply
INVARIANT OneActivePairing
