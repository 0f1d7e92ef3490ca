---------------------------- MODULE MCForcedPermit ----------------------------
(***************************************************************************)
(* PlatformEvent with a history variable for what the comment in unpark()  *)
(* says of the transition of _Event from -1 to 1.                          *)
(***************************************************************************)
EXTENDS PlatformEvent
CONSTANTS u1, u2

\* An unpark() took _Event from -1 to 1 and no park() was called since.
VARIABLE forced

MCInit == Init /\ forced = FALSE
MCNext ==
    /\ Next
    /\ forced' = \/ Event = -1 /\ Event' = 1
                 \/ forced /\ ~Reset /\ ~Decrement
MCSpec == MCInit /\ [][MCNext]_<<vars, forced>>

\* The comment in unpark(): the transition from -1 to 1 "means that it will
\* take two back-to-back park() calls for the owning thread to block", the
\* first of which returns at once.
ForcedPermitSurvives ==
    [][~(forced /\ pc = "dec" /\ pc' = "lock")]_<<vars, forced>>
=============================================================================
