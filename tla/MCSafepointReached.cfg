SPECIFICATION FairSpec
CONSTANTS
  t1 = t1
  t2 = t2
  Threads = {t1, t2}
  Suspendable = {t1}
  CriticalUsers = {}
  VM = VM
  NoOne = NoOne
  UseMembar = TRUE
  BufferSize = 1
PROPERTIES StopsTheWorld SafepointReached
