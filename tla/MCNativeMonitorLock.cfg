SPECIFICATION Spec
CONSTANTS
  Threads = {t1,t2,t3}
  Waiters = {}
  TimedWaiters = {}
  Suspendable = {}
  t1 = t1
  t2 = t2
  t3 = t3
  NULL = NULL
  LBIT = LBIT
SYMMETRY AllSymmetric
INVARIANTS MutualExclusion InnerLock Succession
PROPERTIES HeirStays
