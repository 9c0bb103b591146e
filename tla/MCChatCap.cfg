CONSTANTS
  m1 = m1
  m2 = m2
  m3 = m3
  a1 = a1
  a2 = a2
  NoOne = NoOne
  Never = Never
  Messages = {m1, m2}
  Searching = {}
  Merchants = {a1, a2}
  Configured = a1
  Chunk = 2
  Caps = {2}
  MaxOutstanding = 4
  MaxSearches = 1
  DayLength = 2
  ClaimTTL = 2
  PolicyLife = 2
  MaxTime = 2
  MaxFaults = 1
  MaxChanges = 1
SPECIFICATION Spec
INVARIANT DayWithinCap
CHECK_DEADLOCK FALSE
