\* Two threads serving two requests, one crash, one pause, hooks that fail,
\* approvals that expire.
SPECIFICATION Spec
CONSTANTS
  r1 = r1
  r2 = r2
  t1 = t1
  t2 = t2
  Requests = {r1, r2}
  Threads = {t1, t2}
  NoRequest = NoRequest
  TTL = 1
  HooksFail = TRUE
  MaxCrashes = 1
  MaxPauses = 2
  MaxTime = 2
SYMMETRY Symmetry
INVARIANT SentKeepsEvidence
PROPERTY ImplementsAtMostOnce
CHECK_DEADLOCK FALSE
