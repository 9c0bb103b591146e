\* A request a person approves, then its redelivery.
SPECIFICATION ToolSpec
CONSTANTS
  alice = alice
  usdc = usdc
  a1 = a1
  a2 = a2
  r1 = r1
  Users = {alice}
  Assets = {usdc}
  Ids = {a1, a2}
  DirectIds = {}
  OwnerOf <- MCOwnerOf
  AssetOf <- MCAssetOf
  AmountOf <- MCAmountOf
  Requests = {r1}
  RequestOf <- MCRequestOf
  NoLimit = NoLimit
  OperatorPerTx = 2
  OperatorDaily = 4
  CeilingPerTx = 2
  CeilingDaily = 4
  LimitChoices = {2}
  RetentionDays = 30
  DayLength = 2
  MemoryOn = TRUE
  AmbiguousPay = FALSE
  StoreFaults = FALSE
  MaxCrashes = 0
  HoldTTL = 4
  AskMax = 1
  PayMax = 1
  ClaimTTL = 2
  MaxTime = 3
INVARIANT PaidOncePerRequest
