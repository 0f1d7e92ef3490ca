--------------------------- MODULE MCPlatformEvent ---------------------------
(* PlatformEvent for TLC: one parking thread and two that unpark it. *)
EXTENDS PlatformEvent
CONSTANTS u1, u2
=============================================================================
