----------------------------- MODULE MCSafepoint -----------------------------
(* Safepoint for TLC. *)
EXTENDS Safepoint
CONSTANTS t1, t2
=============================================================================
