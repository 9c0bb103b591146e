CONSTANTS
  q1 = q1
  q2 = q2
  w1 = w1
  w2 = w2
  o1 = o1
  f1 = f1
  c1 = c1
  alice = alice
  Nobody = Nobody
  Quotes = {q1, q2}
  Buys = {w1, w2}
  BankrCalls = {}
  UserBuys = {w1, w2}
  FireflyBuys = {}
  QuoteOf <- MCTwoQuotes
  Requests <- MCRequests
  BuyOf <- MCBuyOf
  BuyerOf <- MCBuyerOf
  QuoteTTL = 1
  VerdictTTL = 0
  EventFails = {w1}
  MaxCrashes = 0
  MaxTime = 1
SPECIFICATION Spec
INVARIANT OwnVerdict
CHECK_DEADLOCK FALSE
