SPECIFICATION FairSpec
CONSTANTS
  t1 = t1
  t2 = t2
  t3 = t3
  Threads = {t1, t2, t3}
  MaxNesting = 2
INVARIANTS CountExact SomeoneCollects OneCollector
PROPERTIES RegionsDrain NeedMet HeldOffEnds HeldOffGoOn
