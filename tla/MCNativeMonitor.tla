--------------------------- MODULE MCNativeMonitor ---------------------------
EXTENDS NativeMonitor, TLC
CONSTANTS t1, t2, t3
AllSymmetric == Permutations(Threads)
=============================================================================
