CONSTANTS
  q1 = q1
  q2 = q2
  w1 = w1
  w2 = w2
  o1 = o1
  f1 = f1
  c1 = c1
  alice = alice
  Nobody = Nobody
  Quotes = {q1, q2}
  Buys = {w1, w2, f1, o1}
  BankrCalls = {c1}
  UserBuys = {w1, w2}
  FireflyBuys = {f1}
  QuoteOf <- MCOneQuote
  Requests <- MCRequests
  BuyOf <- MCBuyOf
  BuyerOf <- MCBuyerOf
  QuoteTTL = 1
  VerdictTTL = 0
  EventFails = {o1}
  MaxCrashes = 1
  MaxTime = 1
SPECIFICATION Spec
INVARIANT OnePaymentPerOrder
INVARIANT StatesTellTheTruth
INVARIANT RefundIsWhole
INVARIANT FundedIsAccountedFor
CHECK_DEADLOCK FALSE
PROPERTY EveryBuyEnds
