SPECIFICATION FairSpec
CONSTANTS
  j1 = j1
  j2 = j2
  g1 = g1
  JavaThreads = {j1, j2}
  OtherThreads = {}
  Modes = {"safepoint", "no_safepoint"}
  NestedModes = {}
  GuaranteedSafepointInterval = 0
  MaxQueued = 1
CHECK_DEADLOCK FALSE
PROPERTIES OperationReturns TerminationEnds
