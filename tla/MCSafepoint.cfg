SPECIFICATION Spec
CONSTANTS
  t1 = t1
  t2 = t2
  Threads = {t1, t2}
  Suspendable = {t1}
  CriticalUsers = {t2}
  VM = VM
  NoOne = NoOne
  UseMembar = FALSE
  BufferSize = 2
INVARIANTS AllStopped WaitingCount CriticalCount BlockedAsExpected
PROPERTIES NothingMoves
