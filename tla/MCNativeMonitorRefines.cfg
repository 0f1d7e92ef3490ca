SPECIFICATION FairSpec
CONSTANTS
  Threads = {t1,t2}
  Waiters = {t1,t2}
  TimedWaiters = {t1}
  Suspendable = {t1,t2}
  t1 = t1
  t2 = t2
  t3 = t3
  NULL = NULL
  LBIT = LBIT
INVARIANTS OwnerInside NotifiedLeftWaitSet WaitResult
PROPERTIES ImplementsMonitor
