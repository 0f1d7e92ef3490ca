---------------------------- MODULE PlatformEvent ----------------------------
(***************************************************************************)
(* The Linux ParkEvent: os::PlatformEvent of os_linux.cpp.  Its associated *)
(* thread parks on it; any of Unparkers may unpark it at any time.  The    *)
(* pthread mutex is the name of its holder, and the condition variable     *)
(* says whether the associated thread waits on it.                         *)
(***************************************************************************)
EXTENDS Integers

CONSTANTS
    Unparkers,
    Self, NoOne             \* the associated thread; nobody

ASSUME EventAssumption ==
    Self \notin Unparkers /\ NoOne \notin Unparkers \cup {Self}

VARIABLES
    Event, nParked,         \* _Event: 1 a permit, 0 none, -1 none and parked
    mutex, onCond,
    pc, timed, ret,         \* the associated thread; the pending result
    upc, anyWaiters,        \* the unparkers
    signalUnderMutex        \* WorkAroundNPTLTimedWaitHang, fixed at the start

parkVars == <<pc, timed, ret, signalUnderMutex>>
unparkVars == <<upc, anyWaiters, signalUnderMutex>>
vars == <<Event, nParked, mutex, onCond, parkVars, unparkVars>>

Init ==
    /\ Event = 0 /\ nParked = 0 /\ mutex = NoOne /\ onCond = FALSE
    /\ pc = "run" /\ timed = FALSE /\ ret = "OK"
    /\ upc = [u \in Unparkers |-> "run"]
    /\ anyWaiters = [u \in Unparkers |-> FALSE]
    /\ signalUnderMutex \in BOOLEAN

-----------------------------------------------------------------------------
(* Mutated operations: slips that the properties below must notice. *)

\* park() waits before it has looked at _Event under the mutex.
LoopUnchecked ==
    /\ pc = "loop"
    /\ pc' = "cond" /\ onCond' = TRUE /\ mutex' = NoOne
    /\ UNCHANGED <<Event, nParked, timed, ret, unparkVars>>

\* park() leaves the permit behind.
ReturnUncleared ==
    /\ pc = "clear"
    /\ mutex' = NoOne
    /\ pc' = "run"
    /\ UNCHANGED <<Event, nParked, onCond, timed, ret, unparkVars>>

-----------------------------------------------------------------------------
(* The associated thread *)

\* park() or park(millis) is called.
Call ==
    /\ pc = "run"
    /\ pc' = "dec"
    /\ timed' \in BOOLEAN
    /\ UNCHANGED <<Event, nParked, mutex, onCond, ret, unparkVars>>

\* reset(), and TryPark(), which also reports what it cleared.
Reset ==
    /\ pc = "run"
    /\ Event' = 0
    /\ UNCHANGED <<nParked, mutex, onCond, parkVars, unparkVars>>

\* The compare-and-swap loop that decrements _Event: a permit ends the call.
Decrement ==
    /\ pc = "dec"
    /\ Event' = Event - 1
    /\ pc' = IF Event = 0 THEN "lock" ELSE "run"
    /\ ret' = IF Event = 0 THEN ret ELSE "OK"
    /\ UNCHANGED <<nParked, mutex, onCond, timed, unparkVars>>

Lock ==
    /\ pc = "lock" /\ mutex = NoOne
    /\ mutex' = Self
    /\ nParked' = nParked + 1
    /\ pc' = "loop"
    /\ UNCHANGED <<Event, onCond, timed, ret, unparkVars>>

\* while (_Event < 0) pthread_cond_[timed]wait(_cond, _mutex)
Loop ==
    /\ pc = "loop"
    /\ IF Event < 0
       THEN pc' = "cond" /\ onCond' = TRUE /\ mutex' = NoOne
       ELSE pc' = "leave" /\ UNCHANGED <<onCond, mutex>>
    /\ UNCHANGED <<Event, nParked, timed, ret, unparkVars>>

\* The wait ends, signalled or spuriously, and has its mutex back.
CondReturn ==
    /\ pc = "cond" /\ mutex = NoOne
    /\ mutex' = Self /\ onCond' = FALSE
    /\ pc' = "loop"
    /\ UNCHANGED <<Event, nParked, timed, ret, unparkVars>>

\* A timed wait reports ETIMEDOUT: the loop is left without looking at _Event.
CondTimeout ==
    /\ pc = "cond" /\ timed /\ mutex = NoOne
    /\ mutex' = Self /\ onCond' = FALSE
    /\ pc' = "leave"
    /\ UNCHANGED <<Event, nParked, timed, ret, unparkVars>>

\* --_nParked, and park(millis) decides its result ...
Leave ==
    /\ pc = "leave"
    /\ nParked' = nParked - 1
    /\ ret' = IF timed /\ Event < 0 THEN "TIMEOUT" ELSE "OK"
    /\ pc' = "clear"
    /\ UNCHANGED <<Event, mutex, onCond, timed, unparkVars>>

\* ... before it clears _Event and releases the mutex.
ClearAndReturn ==
    /\ pc = "clear"
    /\ Event' = 0 /\ mutex' = NoOne
    /\ pc' = "run"
    /\ UNCHANGED <<nParked, onCond, timed, ret, unparkVars>>

-----------------------------------------------------------------------------
(* unpark() by u *)

\* xchg(1, &_Event): nothing more to do unless the thread had gone to park.
Exchange(u) ==
    /\ upc[u] = "run"
    /\ Event' = 1
    /\ upc' = [upc EXCEPT ![u] = IF Event >= 0 THEN "run" ELSE "mutex"]
    /\ UNCHANGED <<nParked, mutex, onCond, parkVars, anyWaiters>>

\* Wait for the thread to vacate the mutex, and see whether it waits.
Vacate(u) ==
    /\ upc[u] = "mutex" /\ mutex = NoOne
    /\ IF signalUnderMutex
       THEN /\ onCond' = (onCond /\ nParked = 0)
            /\ upc' = [upc EXCEPT ![u] = "run"]
            /\ UNCHANGED anyWaiters
       ELSE /\ anyWaiters' = [anyWaiters EXCEPT ![u] = nParked # 0]
            /\ upc' = [upc EXCEPT ![u] = "signal"]
            /\ UNCHANGED onCond
    /\ UNCHANGED <<Event, nParked, mutex, parkVars>>

\* pthread_cond_signal() after the mutex is released.
Signal(u) ==
    /\ upc[u] = "signal"
    /\ onCond' = (onCond /\ ~anyWaiters[u])
    /\ anyWaiters' = [anyWaiters EXCEPT ![u] = FALSE]
    /\ upc' = [upc EXCEPT ![u] = "run"]
    /\ UNCHANGED <<Event, nParked, mutex, parkVars>>

-----------------------------------------------------------------------------
ParkStep ==
    Decrement \/ Lock \/ Loop \/ CondReturn \/ CondTimeout \/ Leave \/ ClearAndReturn
UnparkStep(u) == Exchange(u) \/ Vacate(u) \/ Signal(u)

Next == Call \/ Reset \/ ParkStep \/ \E u \in Unparkers : UnparkStep(u)

\* A thread that is not blocked runs.  A wait on the condition variable is
\* only sure to end when it is signalled, and nobody is bound to call unpark().
Fairness ==
    /\ WF_vars(Decrement \/ Lock \/ Loop \/ Leave \/ ClearAndReturn)
    /\ WF_vars(~onCond /\ CondReturn)
    /\ \A u \in Unparkers : WF_vars(Vacate(u) \/ Signal(u))

Spec == Init /\ [][Next]_vars /\ Fairness

-----------------------------------------------------------------------------
TypeOK ==
    /\ Event \in {-1, 0, 1} /\ nParked \in {0, 1}
    /\ mutex \in {Self, NoOne} /\ onCond \in BOOLEAN
    /\ pc \in {"run", "dec", "lock", "loop", "cond", "leave", "clear"}
    /\ timed \in BOOLEAN /\ ret \in {"OK", "TIMEOUT"}
    /\ upc \in [Unparkers -> {"run", "mutex", "signal"}]
    /\ anyWaiters \in [Unparkers -> BOOLEAN] /\ signalUnderMutex \in BOOLEAN

\* No lost wakeup: a thread that waits on the condition variable after a
\* permit was published will be signalled, by an unparker that saw it parked
\* and has not finished.
WakeupPending ==
    onCond /\ Event = 1
        => \E u \in Unparkers : upc[u] = "mutex" \/ (upc[u] = "signal" /\ anyWaiters[u])

Permit == INSTANCE ParkPermit
            WITH permit <- Event = 1,
                 parking <- IF pc = "run" THEN "no" ELSE IF timed THEN "timed" ELSE "untimed",
                 result <- IF pc = "run" THEN ret ELSE "none"

\* Mutex, condition variable and counter together are a single permit: an
\* untimed park() returns, and a timed one reports OK, only with a permit,
\* which it consumes; and a thread parked with a permit does return.
ImplementsPermit == Permit!Spec
=============================================================================
