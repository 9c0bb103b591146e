\* What does not hold of approvals, with a sidecar that names the approval it reads
\* from /agent/imessage/pending when the reply comes and a gateway that demands the
\* name.  Run with -continue: both are violated.
SPECIFICATION Spec
CONSTANTS
  alice = alice
  bob = bob
  s1 = s1
  s2 = s2
  k1 = k1
  k2 = k2
  a1 = a1
  a2 = a2
  a3 = a3
  Users = {alice}
  Senders = {s1}
  Codes = {k1}
  Nothing = Nothing
  PairingTTL = 1
  Approvals = {a1, a2}
  OwnerOf <- MCOwnerOf
  Tests = {}
  TestTTL = 1
  ApprovalTTL = 1
  EchoId = TRUE
  RequireId = TRUE
  MaxCrashes = 0
  MaxTime = 2
  MaxCalls = 1
INVARIANT ReplyDecidesItsOwn
INVARIANT NobodyAsksInVain
