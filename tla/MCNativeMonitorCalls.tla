------------------------- MODULE MCNativeMonitorCalls -------------------------
(* NativeMonitor used by callers that make a bounded number of calls each,   *)
(* MaxCalls, or one for the threads in Brief.                                *)
EXTENDS NativeMonitor, TLC
CONSTANTS t1, t2, t3, MaxCalls, Brief
VARIABLE calls

MCvars == <<vars, calls>>
MCInit == Init /\ calls = [t \in Threads |-> 0]

Budget(t) == IF t \in Brief THEN 1 ELSE MaxCalls

\* unlock() is not counted: a caller inside can always leave.
Ask(t) ==
    /\ calls[t] < Budget(t)
    /\ calls' = [calls EXCEPT ![t] = @ + 1]
    /\ lock(t) \/ notify(t) \/ wait(t)
Proceed(t) == (Step(t) \/ unlock(t)) /\ UNCHANGED calls

MCNext == \E t \in Threads : Ask(t) \/ Proceed(t)
MCSpec == MCInit /\ [][MCNext]_MCvars
=============================================================================
