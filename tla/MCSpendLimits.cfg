\* One user with three reserved purchases (2, 1, 1) and one direct one (1),
\* ceiling 3 a day, days of 3 ticks, holds of 2 ticks: holds straddle midnight.
SPECIFICATION Spec
CONSTANTS
  alice = alice
  usdc = usdc
  p1 = p1
  p2 = p2
  p3 = p3
  b1 = b1
  Users = {alice}
  Assets = {usdc}
  Ids = {p1, p2, p3, b1}
  DirectIds = {b1}
  OwnerOf <- MCOwnerOf
  AssetOf <- MCAssetOf
  AmountOf <- MCAmountOf
  NoLimit = NoLimit
  OperatorPerTx = 2
  OperatorDaily = 2
  CeilingPerTx = 2
  CeilingDaily = 3
  LimitChoices = {0, 1, 2, 3, 4}
  HoldTTL = 2
  DayLength = 3
  RetentionDays = 1
  MaxTime = 7
INVARIANT CountedOnce
INVARIANT ReservedWithinCeiling
