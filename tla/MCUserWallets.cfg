\* Two withdrawals of ETH that together would leave less than the reserve, a
\* /wallet beside them, two live tokens, tokens that live two ticks.
SPECIFICATION WalletSpec
CONSTANTS
  d1 = d1
  d2 = d2
  w1 = w1
  None = None
  Commands = {d1, d2, w1}
  Withdrawals = {d1, d2}
  OnSolana = {w1}
  Native = {d1, d2}
  AmountOf <- MCAmountOf
  Funds <- MCFunds
  Reserve = 1
  MaxActive = 2
  TokenTTL = 2
  Skew = 1
INVARIANT OneAddress
INVARIANT TokenTurnover
INVARIANT AssuranceIsTrue
