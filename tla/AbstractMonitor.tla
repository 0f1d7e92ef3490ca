--------------------------- MODULE AbstractMonitor ---------------------------
(***************************************************************************)
(* What a Monitor promises its callers, without its queues: one thread in  *)
(* at a time, any contender may be admitted when the monitor is free, and  *)
(* wait() gives the monitor up and joins the wait set in a single step.    *)
(***************************************************************************)
CONSTANTS Threads, TimedWaiters, Suspendable
VARIABLE status

Statuses == {"out", "entering", "in", "waiting", "suspended"}
Free == \A t \in Threads : status[t] # "in"

Move(t, from, to) == status[t] = from /\ status' = [status EXCEPT ![t] = to]

Init == status = [t \in Threads |-> "out"]

Request(t) == Move(t, "out", "entering")
Acquire(t) == Free /\ Move(t, "entering", "in")
TryAcquire(t) == Free /\ Move(t, "out", "in")
Release(t) == Move(t, "in", "out")
Wait(t) == Move(t, "in", "waiting")
\* A thread inside moves one waiter to the contenders; it stays inside.
Notify(t, u) == status[t] = "in" /\ Move(u, "waiting", "entering")
Timeout(t) == t \in TimedWaiters /\ Move(t, "waiting", "entering")
\* A thread suspended while it waited gives the monitor up again.
Suspend(t) == t \in Suspendable /\ Move(t, "in", "suspended")
Resume(t) == Move(t, "suspended", "entering")

Next ==
    \E t \in Threads :
        \/ Request(t) \/ Acquire(t) \/ TryAcquire(t) \/ Release(t) \/ Wait(t)
        \/ \E u \in Threads : Notify(t, u)
        \/ Timeout(t) \/ Suspend(t) \/ Resume(t)

\* Some contender is admitted to a free monitor.  Not a given one: a thread
\* that arrives later may be admitted first, again and again.
Fairness == WF_status(\E t \in Threads : Acquire(t))

Spec == Init /\ [][Next]_status /\ Fairness
=============================================================================
