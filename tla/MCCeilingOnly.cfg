\* The daily default switched off (0), the daily ceiling 3 still configured.
SPECIFICATION Spec
CONSTANTS
  alice = alice
  usdc = usdc
  p1 = p1
  p2 = p2
  p3 = p3
  b1 = b1
  Users = {alice}
  Assets = {usdc}
  Ids = {p1, p2, p3, b1}
  DirectIds = {b1}
  OwnerOf <- MCOwnerOf
  AssetOf <- MCAssetOf
  AmountOf <- MCAmountOf
  NoLimit = NoLimit
  OperatorPerTx = 2
  OperatorDaily = NoLimit
  CeilingPerTx = 2
  CeilingDaily = 3
  LimitChoices = {2}
  HoldTTL = 2
  DayLength = 3
  RetentionDays = 1
  MaxTime = 7
INVARIANT ReservedWithinCeiling
