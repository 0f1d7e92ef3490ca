----------------------------- MODULE MCGCLocker -----------------------------
(* GCLocker for TLC. *)
EXTENDS GCLocker
CONSTANTS t1, t2, t3
=============================================================================
