----------------------- MODULE MCSuspendibleThreadSet -----------------------
(* SuspendibleThreadSet for TLC. *)
EXTENDS SuspendibleThreadSet
CONSTANTS w1, w2, w3, w4
=============================================================================
