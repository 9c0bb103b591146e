\* A payer slower than the hold, as in lanes that fund, swap and fulfil
\* between the reservation and the settlement.
SPECIFICATION ToolSpec
CONSTANTS
  alice = alice
  usdc = usdc
  a1 = a1
  a2 = a2
  r1 = r1
  Users = {alice}
  Assets = {usdc}
  Ids = {a1, a2}
  DirectIds = {}
  OwnerOf <- MCOwnerOf
  AssetOf <- MCAssetOf
  AmountOf <- MCAmountOf
  Requests = {r1}
  RequestOf <- MCRequestOf
  NoLimit = NoLimit
  OperatorPerTx = 2
  OperatorDaily = 4
  CeilingPerTx = 2
  CeilingDaily = 4
  LimitChoices = {2}
  RetentionDays = 30
  DayLength = 2
  MemoryOn = TRUE
  AmbiguousPay = FALSE
  StoreFaults = FALSE
  MaxCrashes = 0
  HoldTTL = 2
  AskMax = 1
  PayMax = 3
  ClaimTTL = 4
  MaxTime = 4
INVARIANT SlowPaymentCounted
