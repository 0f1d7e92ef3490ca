------------------------------ MODULE MCMuxLock ------------------------------
(* MuxLock for TLC. *)
EXTENDS MuxLock
CONSTANTS t1, t2, t3
=============================================================================
