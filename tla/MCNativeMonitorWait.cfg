SPECIFICATION MCSpec
CONSTANTS
  Threads = {t1,t2,t3}
  Waiters = {t1}
  TimedWaiters = {t1}
  Suspendable = {}
  MaxCalls = 2
  Brief = {t3}
  t1 = t1
  t2 = t2
  t3 = t3
  NULL = NULL
  LBIT = LBIT
CHECK_DEADLOCK FALSE
INVARIANTS OnePlace
