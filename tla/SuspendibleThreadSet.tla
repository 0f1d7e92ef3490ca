------------------------ MODULE SuspendibleThreadSet ------------------------
(***************************************************************************)
(* SuspendibleThreadSet (suspendibleThreadSet.cpp): concurrent GC threads  *)
(* join a set, yield now and then, and leave; the VM thread suspends the   *)
(* whole set around a safepoint.  Everything but the first test in yield() *)
(* happens under STS_lock, so a step is what one thread does between two   *)
(* acquisitions of the lock.  A notify_all empties the wait set; the       *)
(* threads released so take the lock again in their next step.             *)
(***************************************************************************)
EXTENDS Integers, FiniteSets

CONSTANTS
    Workers,    \* the concurrent GC threads
    VM          \* the VM thread

ASSUME WorkersAssumption == IsFiniteSet(Workers) /\ VM \notin Workers

VARIABLES
    nthreads, nthreads_stopped, suspend_all,
    pc,         \* of each worker: "out", "join", "in", "yield" or "stopped"
    vpc,        \* of the VM thread: "idle", "synchronize" or "safe"
    waiting     \* threads on the wait set of STS_lock

vars == <<nthreads, nthreads_stopped, suspend_all, pc, vpc, waiting>>

Init ==
    /\ nthreads = 0 /\ nthreads_stopped = 0 /\ suspend_all = FALSE
    /\ pc = [w \in Workers |-> "out"] /\ vpc = "idle" /\ waiting = {}

Goto(w, l) == pc' = [pc EXCEPT ![w] = l]

\* The loop "while (_suspend_all) wait" of a worker, first time or again.
Wait(w, l) == Goto(w, l) /\ waiting' = waiting \cup {w}

-----------------------------------------------------------------------------
(* Mutated operations: slips that the properties below must notice. *)

\* A waiter is let in without looking at the flag again.
JoinUnchecked(w) ==
    /\ pc[w] = "out" \/ (pc[w] = "join" /\ w \notin waiting)
    /\ IF suspend_all /\ pc[w] = "out"
       THEN Wait(w, "join") /\ UNCHANGED nthreads
       ELSE Goto(w, "in") /\ nthreads' = nthreads + 1 /\ UNCHANGED waiting
    /\ UNCHANGED <<nthreads_stopped, suspend_all, vpc>>

\* A thread that leaves tells nobody.
LeaveSilently(w) ==
    /\ pc[w] = "in"
    /\ nthreads' = nthreads - 1
    /\ Goto(w, "out")
    /\ UNCHANGED <<nthreads_stopped, suspend_all, vpc, waiting>>

\* Desynchronizing forgets who stopped.
DesynchronizeResetting ==
    /\ vpc = "safe"
    /\ suspend_all' = FALSE /\ nthreads_stopped' = 0
    /\ vpc' = "idle" /\ waiting' = {}
    /\ UNCHANGED <<nthreads, pc>>

\* The test under the lock is the wrong way round.
YieldInverted(w) ==
    /\ pc[w] = "yield"
    /\ IF ~suspend_all
       THEN /\ nthreads_stopped' = nthreads_stopped + 1
            /\ Goto(w, "stopped") /\ waiting' = {w}
       ELSE Goto(w, "in") /\ UNCHANGED <<nthreads_stopped, waiting>>
    /\ UNCHANGED <<nthreads, suspend_all, vpc>>

\* The VM thread is content with all members but one.
AwaitAllButOne ==
    IF nthreads_stopped + 1 < nthreads
    THEN vpc' = "synchronize" /\ waiting' = waiting \cup {VM}
    ELSE vpc' = "safe" /\ UNCHANGED waiting

-----------------------------------------------------------------------------
(* The workers *)

\* join(), from its call and from each return of wait().
join(w) ==
    /\ pc[w] = "out" \/ (pc[w] = "join" /\ w \notin waiting)
    /\ IF suspend_all
       THEN Wait(w, "join") /\ UNCHANGED nthreads
       ELSE Goto(w, "in") /\ nthreads' = nthreads + 1 /\ UNCHANGED waiting
    /\ UNCHANGED <<nthreads_stopped, suspend_all, vpc>>

leave(w) ==
    /\ pc[w] = "in"
    /\ nthreads' = nthreads - 1
    /\ waiting' = IF suspend_all THEN {} ELSE waiting
    /\ Goto(w, "out")
    /\ UNCHANGED <<nthreads_stopped, suspend_all, vpc>>

\* yield() reads the flag without the lock ...
yield(w) ==
    /\ pc[w] = "in" /\ suspend_all
    /\ Goto(w, "yield")
    /\ UNCHANGED <<nthreads, nthreads_stopped, suspend_all, vpc, waiting>>

\* ... and again with it, counts itself stopped and tells everybody ...
YieldLocked(w) ==
    /\ pc[w] = "yield"
    /\ IF suspend_all
       THEN /\ nthreads_stopped' = nthreads_stopped + 1
            /\ Goto(w, "stopped") /\ waiting' = {w}
       ELSE Goto(w, "in") /\ UNCHANGED <<nthreads_stopped, waiting>>
    /\ UNCHANGED <<nthreads, suspend_all, vpc>>

\* ... until the flag is down when it wakes up.
YieldAwake(w) ==
    /\ pc[w] = "stopped" /\ w \notin waiting
    /\ IF suspend_all
       THEN Wait(w, "stopped") /\ UNCHANGED nthreads_stopped
       ELSE /\ nthreads_stopped' = nthreads_stopped - 1
            /\ Goto(w, "in") /\ waiting' = {}
    /\ UNCHANGED <<nthreads, suspend_all, vpc>>

-----------------------------------------------------------------------------
(* The VM thread *)

\* The test of the loop in synchronize().
AwaitStopped ==
    IF nthreads_stopped < nthreads
    THEN vpc' = "synchronize" /\ waiting' = waiting \cup {VM}
    ELSE vpc' = "safe" /\ UNCHANGED waiting

synchronize ==
    /\ vpc = "idle"
    /\ suspend_all' = TRUE
    /\ AwaitStopped
    /\ UNCHANGED <<nthreads, nthreads_stopped, pc>>

SynchronizeAwake ==
    /\ vpc = "synchronize" /\ VM \notin waiting
    /\ AwaitStopped
    /\ UNCHANGED <<nthreads, nthreads_stopped, suspend_all, pc>>

desynchronize ==
    /\ vpc = "safe"
    /\ suspend_all' = FALSE
    /\ vpc' = "idle" /\ waiting' = {}
    /\ UNCHANGED <<nthreads, nthreads_stopped, pc>>

-----------------------------------------------------------------------------
Work(w) == join(w) \/ leave(w) \/ yield(w) \/ YieldLocked(w) \/ YieldAwake(w)

Next == (\E w \in Workers : Work(w)) \/ synchronize \/ SynchronizeAwake \/ desynchronize

Spec == Init /\ [][Next]_vars

\* Threads that are not waiting run; a member of the set yields or leaves.
Fairness ==
    /\ WF_vars(SynchronizeAwake)
    /\ \A w \in Workers :
          /\ WF_vars(leave(w) \/ yield(w))
          /\ WF_vars(YieldLocked(w)) /\ WF_vars(YieldAwake(w))
FairSpec == Spec /\ Fairness

-----------------------------------------------------------------------------
Members == {w \in Workers : pc[w] \in {"in", "yield", "stopped"}}
Stopped == {w \in Workers : pc[w] = "stopped"}

TypeOK ==
    /\ nthreads \in Nat /\ nthreads_stopped \in Nat /\ suspend_all \in BOOLEAN
    /\ pc \in [Workers -> {"out", "join", "in", "yield", "stopped"}]
    /\ vpc \in {"idle", "synchronize", "safe"}
    /\ waiting \subseteq Workers \cup {VM}

\* The two counters agree with what the threads are doing, a thread that is
\* still on its way out of yield() after a desynchronize() included: a second
\* synchronize() that overtakes it must still find it counted.
Counts == nthreads = Cardinality(Members) /\ nthreads_stopped = Cardinality(Stopped)

\* From the return of synchronize() to desynchronize() no member of the set
\* runs, and so the assertion of desynchronize() holds.
AllYielded == vpc = "safe" => suspend_all /\ Members = Stopped

\* While the VM thread waits there is somebody left to wake it: a member that
\* has not stopped yet, unless it has been notified already.
SomeoneToWaitFor == VM \in waiting => vpc = "synchronize" /\ Members # Stopped

World == IF ~suspend_all THEN "go" ELSE IF vpc = "safe" THEN "stopped" ELSE "stopping"
RoleAt(l) == IF l \in {"out", "join"} THEN "absent" ELSE IF l = "stopped" THEN "safe" ELSE "mutator"
Role(w) == RoleAt(pc[w])

Abstract == INSTANCE StopTheWorld
                WITH Threads <- Workers, world <- World, role <- [w \in Workers |-> Role(w)]

\* The set implements the stopping of a world of its own.
StopsTheSet == Abstract!Spec

\* synchronize() returns.
SynchronizeReturns == Abstract!Stops
=============================================================================
