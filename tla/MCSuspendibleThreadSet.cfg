SPECIFICATION FairSpec
CONSTANTS
  w1 = w1
  w2 = w2
  w3 = w3
  w4 = w4
  Workers = {w1, w2, w3, w4}
  VM = VM
INVARIANTS Counts AllYielded SomeoneToWaitFor
PROPERTIES StopsTheSet SynchronizeReturns
