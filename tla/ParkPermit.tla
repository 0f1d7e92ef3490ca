------------------------------ MODULE ParkPermit ------------------------------
(***************************************************************************)
(* What park() and unpark() promise: a permit, at most one, that unpark()  *)
(* makes available and park() waits for and consumes.  Only a timed park() *)
(* gives up; the permit of an unpark() that comes with its timeout is lost.*)
(***************************************************************************)
VARIABLES
    permit,
    parking,    \* "no", "untimed" or "timed"
    result      \* of the last park(), "none" while one is under way

vars == <<permit, parking, result>>

Init == permit = FALSE /\ parking = "no" /\ result = "OK"

Unpark == permit' = TRUE /\ UNCHANGED <<parking, result>>
Clear == parking = "no" /\ permit' = FALSE /\ UNCHANGED <<parking, result>>
Park == /\ parking = "no" /\ parking' \in {"untimed", "timed"}
        /\ result' = "none" /\ UNCHANGED permit
Return == /\ parking # "no" /\ permit
          /\ permit' = FALSE /\ parking' = "no" /\ result' = "OK"
Timeout == /\ parking = "timed"
           /\ permit' = FALSE /\ parking' = "no" /\ result' = "TIMEOUT"

Next == Unpark \/ Clear \/ Park \/ Return \/ Timeout

Spec == Init /\ [][Next]_vars /\ WF_vars(Return)
=============================================================================
