\* What does not hold of these purchases without an exception.  Run with -continue:
\* both are violated.
CONSTANTS
  r1 = r1
  r2 = r2
  sweep = sweep
  Unknown = Unknown
  Purchases = {1}
  Requests = {r1, r2}
  Sweeper = sweep
  OtpTTL = 1
  MaxOtpAttempts = 2
  SettleAge = 0
  SettleLimit = 1
  MaxEvents = 3
  MaxCrashes = 0
  MaxTime = 1
SPECIFICATION Spec
CHECK_DEADLOCK FALSE
INVARIANT SecondTopUpIsReconciled
PROPERTY LateCreditIsFound
