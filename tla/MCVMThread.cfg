SPECIFICATION Spec
CONSTANTS
  j1 = j1
  j2 = j2
  g1 = g1
  JavaThreads = {j1}
  OtherThreads = {g1}
  Modes = {"safepoint", "no_safepoint", "concurrent", "async_safepoint"}
  NestedModes = {"safepoint", "no_safepoint"}
  GuaranteedSafepointInterval = 1000
  MaxQueued = 1
CHECK_DEADLOCK FALSE
INVARIANTS HeldWhileWaiting EvaluatedWhereAsked WaitersRemembered
