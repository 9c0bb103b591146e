\* A request and its redelivery, limits changing under way, one crash, a payer
\* that may raise after the money moved, calls to the store and the memory that
\* may fail.  Unit 120 s: AskMax, PayMax and ClaimTTL are one, the hold lives
\* longer than AskMax + PayMax.  The operator's default is below the price, so
\* that the first refusal is the per-payment one, until the user raises it.
SPECIFICATION FairToolSpec
CONSTANTS
  alice = alice
  usdc = usdc
  a1 = a1
  a2 = a2
  r1 = r1
  Users = {alice}
  Assets = {usdc}
  Ids = {a1, a2}
  DirectIds = {}
  OwnerOf <- MCOwnerOf
  AssetOf <- MCAssetOf
  AmountOf <- MCAmountOf
  Requests = {r1}
  RequestOf <- MCRequestOf
  NoLimit = NoLimit
  OperatorPerTx = 1
  OperatorDaily = 4
  CeilingPerTx = 2
  CeilingDaily = 4
  LimitChoices = {2, 4}
  RetentionDays = 30
  DayLength = 2
  MemoryOn = TRUE
  AmbiguousPay = TRUE
  StoreFaults = TRUE
  MaxCrashes = 1
  HoldTTL = 3
  AskMax = 1
  PayMax = 1
  ClaimTTL = 1
  MaxTime = 3
INVARIANT MovedIsCounted
INVARIANT EndedHoldsNothing
INVARIANT AutoPaidTwiceOnlyWhenClaimAged
PROPERTY EveryAttemptEnds
