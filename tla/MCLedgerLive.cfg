\* The gateway stays up and its hooks do not fail: two threads, two requests,
\* a pause, approvals that expire.
SPECIFICATION FairSpec
CONSTANTS
  r1 = r1
  r2 = r2
  t1 = t1
  t2 = t2
  Requests = {r1, r2}
  Threads = {t1, t2}
  NoRequest = NoRequest
  TTL = 1
  HooksFail = FALSE
  MaxCrashes = 0
  MaxPauses = 1
  MaxTime = 2
PROPERTY ExecutionResolves
CHECK_DEADLOCK FALSE
