----------------------------- MODULE MCVMThread -----------------------------
(* VMThread for TLC. *)
EXTENDS VMThread
CONSTANTS j1, j2, g1
=============================================================================
