---------------------------- MODULE NativeMonitor ----------------------------
(***************************************************************************)
(* The VM's own lock and condition variable, Monitor (runtime/mutex.cpp).  *)
(*                                                                         *)
(* LockWord is one machine word: the lock byte and the head of the         *)
(* "contention queue" cxq, a stack that contending threads push themselves *)
(* on.  OnDeck is an inner lock (value LBIT) that becomes the name of the  *)
(* heir presumptive; its holder drains cxq into EntryList and picks the    *)
(* heir.  All lists are threaded through ListNext, so the compare-and-swap *)
(* steps below compare exactly what the machine compares: a head pointer   *)
(* and a bit, never the rest of the list.                                  *)
(*                                                                         *)
(* One step is one access to shared memory.  A loop that retries TryLock   *)
(* is one step: a failed attempt changes nothing, so the last attempt      *)
(* stands for the loop.  The ParkEvent is its permit (see PlatformEvent);  *)
(* WaitLock, a muxAcquire lock, is the name of its holder (see MuxLock).   *)
(* Memory is sequentially consistent.  Experimental flags are off, as they *)
(* are by default: NativeMonitorFlags (ILock barging on the inner lock,    *)
(* notify() waking its thread early, wait() ending with any wakeup) and    *)
(* NativeMonitorTimeout (parks that end now and then).                     *)
(***************************************************************************)
EXTENDS Naturals, FiniteSets

CONSTANTS
    Threads,        \* threads that use the monitor, each with one _MutexEvent
    Waiters,        \* the ones whose callers use wait()
    TimedWaiters,   \* the ones whose wait() has a timeout
    Suspendable,    \* the ones that wait() as_suspend_equivalent
    NULL, LBIT      \* the null pointer; _LBIT stored in OnDeck

ASSUME ConstantsAssumption ==
    /\ Waiters \subseteq Threads
    /\ TimedWaiters \subseteq Waiters /\ Suspendable \subseteq Waiters
    /\ NULL \notin Threads /\ LBIT \notin Threads /\ NULL # LBIT

VARIABLES
    LockWord,       \* [cxq |-> head of the stack, lbit |-> the lock byte]
    OnDeck, EntryList, WaitSet, WaitLock, owner,
    ListNext, Notified, Event,      \* fields of each thread's ParkEvent
    pc, v, w,       \* per thread: control, locals "v/cxq" and "w/nfy"
    ctx             \* its caller, and in wait() what IWait will return

vars == <<LockWord, OnDeck, EntryList, WaitSet, WaitLock, owner,
          ListNext, Notified, Event, pc, ctx, v, w>>

Ptr == Threads \cup {NULL}
Word == [cxq : Ptr, lbit : BOOLEAN]
NoWord == [cxq |-> NULL, lbit |-> FALSE]

\* Where a thread is while it holds the lock byte.
Holding == {"clear", "got", "cs", "nfyAcq", "nfyCas", "nfyMark",
            "wReset", "wEnq", "drop"}
\* Where a thread is while it holds the inner lock, OnDeck = LBIT.
Arranging == {"select", "detach", "attach", "wakeOne", "pass", "punt"}
\* The other places of ILock, IUnlock and IWait.
Elsewhere == {"idle", "try", "reset", "aop", "queued", "parkQ", "ondeck",
              "parkD", "readOnDeck", "unpark", "readWord", "readEntry",
              "lockDeck", "recheck", "resample", "wCheck", "wPark",
              "wTimeout", "wRemove", "suspended"}

\* In wait(): from IWait's start, with WasOnWaitSet set, and each of the two
\* once the thread has to suspend itself.
InWait == {"wait", "timeout", "susp", "suspTimeout"}
TimedOut == {"timeout", "suspTimeout"}
Suspending == {"susp", "suspTimeout"}

Init ==
    /\ LockWord = NoWord
    /\ OnDeck = NULL /\ EntryList = NULL /\ WaitSet = NULL
    /\ WaitLock = NULL /\ owner = NULL
    /\ ListNext = [t \in Threads |-> NULL]
    /\ Notified = [t \in Threads |-> FALSE]
    /\ Event = [t \in Threads |-> FALSE]
    /\ pc = [t \in Threads |-> "idle"]
    /\ ctx = [t \in Threads |-> "lock"]
    /\ v = [t \in Threads |-> NoWord]
    /\ w = [t \in Threads |-> NULL]

\* The word with its lock byte written and the stack left alone.
WithByte(b) == [cxq |-> LockWord.cxq, lbit |-> b]

\* The threads on the list that starts at h.
On(h) ==
    LET R[n \in Nat] == IF n = 0 THEN {h} \ {NULL}
                        ELSE R[n-1] \cup ({ListNext[x] : x \in R[n-1]} \ {NULL})
    IN  R[Cardinality(Threads)]

Goto(t, l) == pc' = [pc EXCEPT ![t] = l]

\* IUnlock returns to its caller: unlock(), IWait(), or wait() suspending itself.
Return(t) ==
    /\ Goto(t, IF ctx[t] = "wait" THEN "wCheck"
               ELSE IF ctx[t] \in Suspending THEN "suspended" ELSE "idle")
    /\ v' = [v EXCEPT ![t] = NoWord]
    /\ w' = [w EXCEPT ![t] = NULL]

-----------------------------------------------------------------------------
(* Mutated operations: slips that the properties below must notice. *)

\* Detach clears the word even if the lock has been taken meanwhile.
DetachOverOwner(t) ==
    /\ pc[t] = "detach"
    /\ IF LockWord = v[t]
       THEN LockWord' = NoWord /\ Goto(t, "attach") /\ UNCHANGED v
       ELSE v' = [v EXCEPT ![t] = LockWord] /\ UNCHANGED <<LockWord, pc>>
    /\ UNCHANGED <<OnDeck, EntryList, WaitSet, WaitLock, owner,
                   ListNext, Notified, Event, ctx, w>>

\* The inner lock is taken by a store instead of a compare-and-swap.
LockOnDeckByStore(t) ==
    /\ pc[t] = "lockDeck"
    /\ OnDeck' = LBIT /\ Goto(t, "select")
    /\ UNCHANGED <<LockWord, EntryList, WaitSet, WaitLock, owner,
                   ListNext, Notified, Event, ctx, v, w>>

\* After Punt nobody looks at the queue again.
ResampleNothing(t) ==
    /\ pc[t] = "resample"
    /\ Return(t)
    /\ UNCHANGED <<LockWord, OnDeck, EntryList, WaitSet, WaitLock, owner,
                   ListNext, Notified, Event, ctx>>

\* The heir gives up its turn before it has the lock.
OnDeckSpinLeaving(t) ==
    /\ pc[t] = "ondeck"
    /\ LockWord' = WithByte(TRUE)
    /\ OnDeck' = NULL
    /\ Goto(t, IF LockWord.lbit THEN "reset" ELSE "got")
    /\ UNCHANGED <<EntryList, WaitSet, WaitLock, owner,
                   ListNext, Notified, Event, ctx, v, w>>

\* wait() keeps the owner field.
WaitKeepingOwner(t) ==
    /\ pc[t] = "cs" /\ t \in Waiters
    /\ ctx' = [ctx EXCEPT ![t] = "wait"]
    /\ Goto(t, "wReset")
    /\ UNCHANGED <<LockWord, OnDeck, EntryList, WaitSet, WaitLock, owner,
                   ListNext, Notified, Event, v, w>>

\* wait() starts with the Notified of an earlier wait().
WaitResetEvent(t) ==
    /\ pc[t] = "wReset"
    /\ Event' = [Event EXCEPT ![t] = FALSE]
    /\ Goto(t, "wEnq")
    /\ UNCHANGED <<LockWord, OnDeck, EntryList, WaitSet, WaitLock, owner,
                   ListNext, Notified, ctx, v, w>>

\* A timed-out thread contends although it was notified meanwhile.
WaitRecheckTrusting(t) ==
    /\ pc[t] = "wTimeout"
    /\ Goto(t, "try")
    /\ UNCHANGED <<LockWord, OnDeck, EntryList, WaitSet, WaitLock, owner,
                   ListNext, Notified, Event, ctx, v, w>>

\* There is no second look at Notified under the WaitLock.
WaitRemoveUnchecked(t) ==
    /\ pc[t] = "wRemove" /\ WaitLock = NULL
    /\ WaitSet' = IF WaitSet = t THEN ListNext[t] ELSE WaitSet
    /\ ctx' = [ctx EXCEPT ![t] = "timeout"]
    /\ Goto(t, "try")
    /\ UNCHANGED <<LockWord, OnDeck, EntryList, WaitLock, owner,
                   ListNext, Notified, Event, v, w>>

-----------------------------------------------------------------------------
(* lock(), try_lock() and ILock() *)

lock(t) ==
    /\ pc[t] = "idle"
    /\ Goto(t, "try")
    /\ UNCHANGED <<LockWord, OnDeck, EntryList, WaitSet, WaitLock, owner,
                   ListNext, Notified, Event, ctx, v, w>>

\* The successful outcome of try_lock(); a failed one changes nothing.
try_lock(t) ==
    /\ pc[t] = "idle"
    /\ ~LockWord.lbit
    /\ LockWord' = WithByte(TRUE)
    /\ Goto(t, "got")
    /\ UNCHANGED <<OnDeck, EntryList, WaitSet, WaitLock, owner,
                   ListNext, Notified, Event, ctx, v, w>>

\* TryFast() and TrySpin(): take a free lock, or give up having seen it held.
TryFast(t) ==
    /\ pc[t] = "try"
    /\ LockWord' = WithByte(TRUE)
    /\ Goto(t, IF LockWord.lbit THEN "reset" ELSE "got")
    /\ UNCHANGED <<OnDeck, EntryList, WaitSet, WaitLock, owner,
                   ListNext, Notified, Event, ctx, v, w>>

\* ESelf->reset(), then AcquireOrPush() fetches the word.
Reset(t) ==
    /\ pc[t] = "reset"
    /\ Event' = [Event EXCEPT ![t] = FALSE]
    /\ v' = [v EXCEPT ![t] = LockWord]
    /\ Goto(t, "aop")
    /\ UNCHANGED <<LockWord, OnDeck, EntryList, WaitSet, WaitLock, owner,
                   ListNext, Notified, ctx, w>>

\* One turn of the AcquireOrPush() loop: compare-and-swap against the word
\* last seen, taking the lock if that word was free, else pushing ESelf.
AcquireOrPush(t) ==
    /\ pc[t] = "aop"
    /\ ListNext' = IF v[t].lbit THEN [ListNext EXCEPT ![t] = v[t].cxq] ELSE ListNext
    /\ IF LockWord = v[t]
       THEN /\ LockWord' = [cxq |-> IF v[t].lbit THEN t ELSE v[t].cxq, lbit |-> TRUE]
            /\ v' = [v EXCEPT ![t] = NoWord]
            /\ Goto(t, IF v[t].lbit THEN "queued" ELSE "got")
       ELSE /\ v' = [v EXCEPT ![t] = LockWord]
            /\ UNCHANGED <<LockWord, pc>>
    /\ UNCHANGED <<OnDeck, EntryList, WaitSet, WaitLock, owner,
                   Notified, Event, ctx, w>>

\* while (_OnDeck != ESelf) ParkCommon(ESelf, 0)
AwaitOnDeck(t) ==
    /\ pc[t] = "queued"
    /\ Goto(t, IF OnDeck = t THEN "ondeck" ELSE "parkQ")
    /\ UNCHANGED <<LockWord, OnDeck, EntryList, WaitSet, WaitLock, owner,
                   ListNext, Notified, Event, ctx, v, w>>

\* The OnDeck_LOOP: only the heir contends for the lock byte.
OnDeckSpin(t) ==
    /\ pc[t] = "ondeck"
    /\ LockWord' = WithByte(TRUE)
    /\ Goto(t, IF LockWord.lbit THEN "parkD" ELSE "clear")
    /\ UNCHANGED <<OnDeck, EntryList, WaitSet, WaitLock, owner,
                   ListNext, Notified, Event, ctx, v, w>>

\* ParkCommon() returns: the permit is consumed.
Park(t) ==
    /\ pc[t] \in {"parkQ", "parkD", "wPark"}
    /\ Event[t]
    /\ Event' = [Event EXCEPT ![t] = FALSE]
    /\ Goto(t, IF pc[t] = "parkQ" THEN "queued"
               ELSE IF pc[t] = "parkD" THEN "ondeck" ELSE "wCheck")
    /\ UNCHANGED <<LockWord, OnDeck, EntryList, WaitSet, WaitLock, owner,
                   ListNext, Notified, ctx, v, w>>

\* The heir, now holding the lock, drops the inner lock.
ClearOnDeck(t) ==
    /\ pc[t] = "clear"
    /\ OnDeck' = NULL
    /\ Goto(t, "got")
    /\ UNCHANGED <<LockWord, EntryList, WaitSet, WaitLock, owner,
                   ListNext, Notified, Event, ctx, v, w>>

\* set_owner(Self) at the end of lock(), try_lock() and wait().
set_owner(t) ==
    /\ pc[t] = "got"
    /\ owner' = t
    /\ ctx' = [ctx EXCEPT ![t] = "lock"]
    /\ Goto(t, "cs")
    /\ UNCHANGED <<LockWord, OnDeck, EntryList, WaitSet, WaitLock,
                   ListNext, Notified, Event, v, w>>

-----------------------------------------------------------------------------
(* unlock() and IUnlock() *)

unlock(t) ==
    /\ pc[t] = "cs"
    /\ owner' = NULL
    /\ Goto(t, "drop")
    /\ UNCHANGED <<LockWord, OnDeck, EntryList, WaitSet, WaitLock,
                   ListNext, Notified, Event, ctx, v, w>>

\* The release_store of 0 to the lock byte.
DropLock(t) ==
    /\ pc[t] = "drop"
    /\ LockWord' = WithByte(FALSE)
    /\ Goto(t, "readOnDeck")
    /\ UNCHANGED <<OnDeck, EntryList, WaitSet, WaitLock, owner,
                   ListNext, Notified, Event, ctx, v, w>>

\* An heir exists: wake it.  The inner lock is taken: its holder will.
ReadOnDeck(t) ==
    /\ pc[t] = "readOnDeck"
    /\ \/ OnDeck \in Threads
          /\ Goto(t, "unpark") /\ w' = [w EXCEPT ![t] = OnDeck] /\ UNCHANGED v
       \/ OnDeck = LBIT /\ Return(t)
       \/ OnDeck = NULL /\ Goto(t, "readWord") /\ UNCHANGED <<v, w>>
    /\ UNCHANGED <<LockWord, OnDeck, EntryList, WaitSet, WaitLock, owner,
                   ListNext, Notified, Event, ctx>>

Unpark(t) ==
    /\ pc[t] = "unpark"
    /\ Event' = [Event EXCEPT ![w[t]] = TRUE]
    /\ Return(t)
    /\ UNCHANGED <<LockWord, OnDeck, EntryList, WaitSet, WaitLock, owner,
                   ListNext, Notified, ctx>>

ReadWord(t) ==
    /\ pc[t] = "readWord"
    /\ v' = [v EXCEPT ![t] = LockWord]
    /\ Goto(t, "readEntry")
    /\ UNCHANGED <<LockWord, OnDeck, EntryList, WaitSet, WaitLock, owner,
                   ListNext, Notified, Event, ctx, w>>

\* Nobody to wake, or somebody else took the lock and the duty with it.
ReadEntryList(t) ==
    /\ pc[t] = "readEntry"
    /\ IF (v[t].cxq = NULL /\ EntryList = NULL) \/ v[t].lbit
       THEN Return(t)
       ELSE Goto(t, "lockDeck") /\ v' = [v EXCEPT ![t] = NoWord] /\ UNCHANGED w
    /\ UNCHANGED <<LockWord, OnDeck, EntryList, WaitSet, WaitLock, owner,
                   ListNext, Notified, Event, ctx>>

\* Succession: CAS(&_OnDeck, NULL, _LBIT).
LockOnDeck(t) ==
    /\ pc[t] = "lockDeck"
    /\ \/ OnDeck = NULL /\ OnDeck' = LBIT /\ Goto(t, "select") /\ UNCHANGED <<v, w>>
       \/ OnDeck # NULL /\ Return(t) /\ UNCHANGED OnDeck
    /\ UNCHANGED <<LockWord, EntryList, WaitSet, WaitLock, owner,
                   ListNext, Notified, Event, ctx>>

\* Take the heir from EntryList, or else look at cxq.
Select(t) ==
    /\ pc[t] = "select"
    /\ IF EntryList # NULL
       THEN Goto(t, "wakeOne") /\ UNCHANGED v
       ELSE /\ Goto(t, IF LockWord.cxq = NULL THEN "punt" ELSE "detach")
            /\ v' = [v EXCEPT ![t] = IF LockWord.cxq = NULL THEN NoWord ELSE LockWord]
    /\ UNCHANGED <<LockWord, OnDeck, EntryList, WaitSet, WaitLock, owner,
                   ListNext, Notified, Event, ctx, w>>

\* One turn of the loop that detaches cxq, leaving the stack empty.
Detach(t) ==
    /\ pc[t] = "detach"
    /\ \/ v[t].lbit
          /\ Goto(t, "punt") /\ v' = [v EXCEPT ![t] = NoWord] /\ UNCHANGED LockWord
       \/ ~v[t].lbit /\ LockWord = v[t]
          /\ LockWord' = NoWord /\ Goto(t, "attach") /\ UNCHANGED v
       \/ ~v[t].lbit /\ LockWord # v[t]
          /\ v' = [v EXCEPT ![t] = LockWord] /\ UNCHANGED <<LockWord, pc>>
    /\ UNCHANGED <<OnDeck, EntryList, WaitSet, WaitLock, owner,
                   ListNext, Notified, Event, ctx, w>>

Attach(t) ==
    /\ pc[t] = "attach"
    /\ EntryList' = v[t].cxq
    /\ v' = [v EXCEPT ![t] = NoWord]
    /\ Goto(t, "wakeOne")
    /\ UNCHANGED <<LockWord, OnDeck, WaitSet, WaitLock, owner,
                   ListNext, Notified, Event, ctx, w>>

\* WakeOne: unlink the head of EntryList ...
WakeOne(t) ==
    /\ pc[t] = "wakeOne"
    /\ w' = [w EXCEPT ![t] = EntryList]
    /\ EntryList' = ListNext[EntryList]
    /\ Goto(t, "pass")
    /\ UNCHANGED <<LockWord, OnDeck, WaitSet, WaitLock, owner,
                   ListNext, Notified, Event, ctx, v>>

\* ... make it the heir, which also releases the inner lock ...
PassOnDeck(t) ==
    /\ pc[t] = "pass"
    /\ OnDeck' = w[t]
    /\ Goto(t, "recheck")
    /\ UNCHANGED <<LockWord, EntryList, WaitSet, WaitLock, owner,
                   ListNext, Notified, Event, ctx, v, w>>

\* ... and wake it, unless a new owner will do so when it unlocks.
Recheck(t) ==
    /\ pc[t] = "recheck"
    /\ IF LockWord.lbit THEN Return(t) ELSE Goto(t, "unpark") /\ UNCHANGED <<v, w>>
    /\ UNCHANGED <<LockWord, OnDeck, EntryList, WaitSet, WaitLock, owner,
                   ListNext, Notified, Event, ctx>>

\* Punt: release the inner lock without an heir ...
Punt(t) ==
    /\ pc[t] = "punt"
    /\ OnDeck' = NULL
    /\ Goto(t, "resample")
    /\ UNCHANGED <<LockWord, EntryList, WaitSet, WaitLock, owner,
                   ListNext, Notified, Event, ctx, v, w>>

\* ... and look again, for a thread that queued while we held it.
Resample(t) ==
    /\ pc[t] = "resample"
    /\ IF LockWord.cxq # NULL /\ ~LockWord.lbit
       THEN Goto(t, "lockDeck") /\ UNCHANGED <<v, w>>
       ELSE Return(t)
    /\ UNCHANGED <<LockWord, OnDeck, EntryList, WaitSet, WaitLock, owner,
                   ListNext, Notified, Event, ctx>>

-----------------------------------------------------------------------------
(* notify() and notify_all() *)

\* An empty wait set is noticed without the WaitLock and changes nothing.
notify(t) ==
    /\ pc[t] = "cs" /\ WaitSet # NULL
    /\ Goto(t, "nfyAcq")
    /\ UNCHANGED <<LockWord, OnDeck, EntryList, WaitSet, WaitLock, owner,
                   ListNext, Notified, Event, ctx, v, w>>

notify_all(t) ==
    /\ pc[t] = "cs" /\ WaitSet # NULL
    /\ ctx' = [ctx EXCEPT ![t] = "all"]
    /\ Goto(t, "nfyAcq")
    /\ UNCHANGED <<LockWord, OnDeck, EntryList, WaitSet, WaitLock, owner,
                   ListNext, Notified, Event, v, w>>

\* notify() returns: notify_all() goes on while the wait set has a thread.
NotifyReturn(t) ==
    IF ctx[t] = "all" /\ WaitSet # NULL
    THEN Goto(t, "nfyAcq") /\ UNCHANGED ctx
    ELSE Goto(t, "cs") /\ ctx' = [ctx EXCEPT ![t] = "lock"]

\* Under WaitLock unlink the head, if a timeout has not emptied the wait set.
NotifyUnlink(t) ==
    /\ pc[t] = "nfyAcq" /\ WaitLock = NULL
    /\ IF WaitSet # NULL
       THEN /\ WaitLock' = t
            /\ w' = [w EXCEPT ![t] = WaitSet]
            /\ WaitSet' = ListNext[WaitSet]
            /\ v' = [v EXCEPT ![t] = LockWord]
            /\ Goto(t, "nfyCas") /\ UNCHANGED ctx
       ELSE NotifyReturn(t) /\ UNCHANGED <<WaitLock, w, WaitSet, v>>
    /\ UNCHANGED <<LockWord, OnDeck, EntryList, owner, ListNext, Notified, Event>>

\* One turn of the loop that pushes nfy on cxq.
NotifyPush(t) ==
    /\ pc[t] = "nfyCas"
    /\ ListNext' = [ListNext EXCEPT ![w[t]] = v[t].cxq]
    /\ IF LockWord = v[t]
       THEN /\ LockWord' = [cxq |-> w[t], lbit |-> TRUE]
            /\ v' = [v EXCEPT ![t] = NoWord]
            /\ Goto(t, "nfyMark")
       ELSE v' = [v EXCEPT ![t] = LockWord] /\ UNCHANGED <<LockWord, pc>>
    /\ UNCHANGED <<OnDeck, EntryList, WaitSet, WaitLock, owner,
                   Notified, Event, ctx, w>>

\* nfy->Notified = 1 and muxRelease(_WaitLock).
NotifyMark(t) ==
    /\ pc[t] = "nfyMark"
    /\ Notified' = [Notified EXCEPT ![w[t]] = TRUE]
    /\ w' = [w EXCEPT ![t] = NULL]
    /\ WaitLock' = NULL
    /\ NotifyReturn(t)
    /\ UNCHANGED <<LockWord, OnDeck, EntryList, WaitSet, owner,
                   ListNext, Event, v>>

-----------------------------------------------------------------------------
(* wait() and IWait() *)

wait(t) ==
    /\ pc[t] = "cs" /\ t \in Waiters
    /\ owner' = NULL
    /\ ctx' = [ctx EXCEPT ![t] = "wait"]
    /\ Goto(t, "wReset")
    /\ UNCHANGED <<LockWord, OnDeck, EntryList, WaitSet, WaitLock,
                   ListNext, Notified, Event, v, w>>

WaitReset(t) ==
    /\ pc[t] = "wReset"
    /\ Notified' = [Notified EXCEPT ![t] = FALSE]
    /\ Event' = [Event EXCEPT ![t] = FALSE]
    /\ Goto(t, "wEnq")
    /\ UNCHANGED <<LockWord, OnDeck, EntryList, WaitSet, WaitLock, owner,
                   ListNext, ctx, v, w>>

\* muxAcquire, prepend to WaitSet, muxRelease; IUnlock(true) follows.
WaitEnqueue(t) ==
    /\ pc[t] = "wEnq" /\ WaitLock = NULL
    /\ ListNext' = [ListNext EXCEPT ![t] = WaitSet]
    /\ WaitSet' = t
    /\ Goto(t, "drop")
    /\ UNCHANGED <<LockWord, OnDeck, EntryList, WaitLock, owner,
                   Notified, Event, ctx, v, w>>

WaitCheck(t) ==
    /\ pc[t] = "wCheck"
    /\ Goto(t, IF Notified[t] THEN "queued" ELSE "wPark")
    /\ UNCHANGED <<LockWord, OnDeck, EntryList, WaitSet, WaitLock, owner,
                   ListNext, Notified, Event, ctx, v, w>>

\* park(timo) returns OS_TIMEOUT.  It clears the event last, so an unpark()
\* that comes with the timeout is lost.
WaitTimeout(t) ==
    /\ pc[t] = "wPark" /\ t \in TimedWaiters
    /\ Event' = [Event EXCEPT ![t] = FALSE]
    /\ Goto(t, "wTimeout")
    /\ UNCHANGED <<LockWord, OnDeck, EntryList, WaitSet, WaitLock, owner,
                   ListNext, Notified, ctx, v, w>>

\* First look at Notified after a timeout, without the WaitLock.
WaitRecheck(t) ==
    /\ pc[t] = "wTimeout"
    /\ Goto(t, IF Notified[t] THEN "queued" ELSE "wRemove")
    /\ UNCHANGED <<LockWord, OnDeck, EntryList, WaitSet, WaitLock, owner,
                   ListNext, Notified, Event, ctx, v, w>>

\* Second look, under WaitLock: unlink ESelf (WasOnWaitSet), then contend
\* with ILock().
WaitRemove(t) ==
    /\ pc[t] = "wRemove" /\ WaitLock = NULL
    /\ IF Notified[t]
       THEN Goto(t, "queued") /\ UNCHANGED <<WaitSet, ListNext, ctx>>
       ELSE /\ IF WaitSet = t
               THEN WaitSet' = ListNext[t] /\ UNCHANGED ListNext
               ELSE /\ ListNext' = [q \in Threads |->
                                      IF q \in On(WaitSet) /\ ListNext[q] = t
                                      THEN ListNext[t] ELSE ListNext[q]]
                    /\ UNCHANGED WaitSet
            /\ ctx' = [ctx EXCEPT ![t] = "timeout"]
            /\ Goto(t, "try")
    /\ UNCHANGED <<LockWord, OnDeck, EntryList, WaitLock, owner,
                   Notified, Event, v, w>>

\* wait() was a suspend equivalent and the thread has been suspended: it does
\* not keep the lock while suspended.
SuspendSelf(t) ==
    /\ pc[t] = "got" /\ ctx[t] \in InWait \ Suspending /\ t \in Suspendable
    /\ ctx' = [ctx EXCEPT ![t] = IF @ = "wait" THEN "susp" ELSE "suspTimeout"]
    /\ Goto(t, "drop")
    /\ UNCHANGED <<LockWord, OnDeck, EntryList, WaitSet, WaitLock, owner,
                   ListNext, Notified, Event, v, w>>

Resume(t) ==
    /\ pc[t] = "suspended"
    /\ Goto(t, "try")
    /\ UNCHANGED <<LockWord, OnDeck, EntryList, WaitSet, WaitLock, owner,
                   ListNext, Notified, Event, ctx, v, w>>

-----------------------------------------------------------------------------
\* What a thread does once it has entered an operation of the monitor.
Step(t) ==
    \/ TryFast(t) \/ Reset(t) \/ AcquireOrPush(t) \/ AwaitOnDeck(t)
    \/ OnDeckSpin(t) \/ Park(t) \/ ClearOnDeck(t) \/ set_owner(t)
    \/ DropLock(t) \/ ReadOnDeck(t) \/ Unpark(t) \/ ReadWord(t)
    \/ ReadEntryList(t) \/ LockOnDeck(t) \/ Select(t) \/ Detach(t)
    \/ Attach(t) \/ WakeOne(t) \/ PassOnDeck(t) \/ Recheck(t)
    \/ Punt(t) \/ Resample(t)
    \/ NotifyUnlink(t) \/ NotifyPush(t) \/ NotifyMark(t)
    \/ WaitReset(t) \/ WaitEnqueue(t) \/ WaitCheck(t) \/ WaitTimeout(t)
    \/ WaitRecheck(t) \/ WaitRemove(t) \/ SuspendSelf(t) \/ Resume(t)

\* What its caller asks for.
Call(t) ==
    lock(t) \/ try_lock(t) \/ unlock(t) \/ notify(t) \/ notify_all(t) \/ wait(t)

Next == \E t \in Threads : Step(t) \/ Call(t)

Spec == Init /\ [][Next]_vars

-----------------------------------------------------------------------------
TypeOK ==
    /\ LockWord \in Word
    /\ OnDeck \in Ptr \cup {LBIT}
    /\ EntryList \in Ptr /\ WaitSet \in Ptr /\ WaitLock \in Ptr /\ owner \in Ptr
    /\ ListNext \in [Threads -> Ptr]
    /\ Notified \in [Threads -> BOOLEAN] /\ Event \in [Threads -> BOOLEAN]
    /\ pc \in [Threads -> Holding \cup Arranging \cup Elsewhere]
    /\ ctx \in [Threads -> {"lock", "all"} \cup InWait]
    /\ v \in [Threads -> Word] /\ w \in [Threads -> Ptr]

-----------------------------------------------------------------------------
\* The lock byte is set exactly while one thread is between the acquiring
\* compare-and-swap of TryFast, TrySpin or AcquireOrPush and the releasing
\* store of IUnlock: no push, detach or notify changes it.
MutualExclusion ==
    /\ \A t, u \in Threads : pc[t] \in Holding /\ pc[u] \in Holding => t = u
    /\ LockWord.lbit <=> \E t \in Threads : pc[t] \in Holding

\* OnDeck = LBIT is a lock: at most one exiting thread at a time works on
\* EntryList or detaches cxq, and it works there only while OnDeck = LBIT.
InnerLock ==
    /\ \A t, u \in Threads : pc[t] \in Arranging /\ pc[u] \in Arranging => t = u
    /\ OnDeck = LBIT <=> \E t \in Threads : pc[t] \in Arranging

\* _owner names the thread inside, and is NULL whenever a thread that has the
\* lock byte is about to write it: the assertions of lock() and wait().
OwnerInside ==
    \A t \in Threads : owner = t <=> pc[t] \in {"cs", "nfyAcq", "nfyCas", "nfyMark"}

\* The lists, the OnDeck position, and the hands of a thread that is moving an
\* element from one to the next.
Places(t) ==
    {p \in {"cxq", "EntryList", "WaitSet", "OnDeck"} :
        \/ p = "cxq" /\ t \in On(LockWord.cxq)
        \/ p = "EntryList" /\ t \in On(EntryList)
        \/ p = "WaitSet" /\ t \in On(WaitSet)
        \/ p = "OnDeck" /\ OnDeck = t}
    \cup {u \in Threads : \/ pc[u] = "attach" /\ t \in On(v[u].cxq)
                          \/ pc[u] \in {"pass", "nfyCas"} /\ w[u] = t}

\* Where a thread is between joining a list and taking the lock again.
Exiting == {"readOnDeck", "unpark", "readWord", "readEntry", "lockDeck",
            "recheck", "resample"} \cup Arranging
Enlisted(t) ==
    \/ pc[t] \in {"queued", "parkQ", "ondeck", "parkD", "clear",
                  "wCheck", "wPark", "wTimeout", "wRemove"}
    \/ ctx[t] = "wait" /\ pc[t] \in {"drop"} \cup Exiting

\* A thread that waits for the lock or for a notification is in exactly one
\* place, so that it can be found and is never chosen twice, and any other
\* thread is in none: "A thread appears on at most one list at any time".
OnePlace ==
    \A t \in Threads : Cardinality(Places(t)) = IF Enlisted(t) THEN 1 ELSE 0

\* A thread that still has to act on the state of the queues it will see.
Responsible(t) ==
    \/ pc[t] \in {"readOnDeck", "readWord", "lockDeck", "resample"} \cup Arranging
    \/ pc[t] = "readEntry" /\ ~v[t].lbit /\ (v[t].cxq # NULL \/ EntryList # NULL)
    \/ pc[t] = "recheck"
    \/ pc[t] = "unpark" /\ w[t] = OnDeck
    \/ OnDeck = t /\ (Event[t] \/ pc[t] \notin {"parkQ", "parkD", "wPark"})

\* Succession: while the lock is free and a thread is queued for it, some
\* thread is still bound to wake an heir, or the heir is awake.  Every early
\* return of IUnlock hands this duty to somebody.
Succession ==
    ~LockWord.lbit /\ (LockWord.cxq # NULL \/ EntryList # NULL \/ OnDeck # NULL)
        => \E t \in Threads : Responsible(t)

\* Notified is set only on the way out of the wait set, so that the two looks
\* at it in IWait tell a notified thread from one that timed out.
NotifiedLeftWaitSet ==
    \A t \in On(WaitSet) : ~Notified[t] /\ ctx[t] = "wait"

\* A thread about to return from wait() with the lock reports a timeout if, and
\* only if, no notify() chose it ("return true IFF timeout"), though the two may
\* come at once and the thread may have been suspended in between: it never
\* takes a notification with it that its caller does not learn of.
WaitResult ==
    \A t \in Threads :
        pc[t] = "got" /\ ctx[t] \in InWait => (ctx[t] \in TimedOut <=> ~Notified[t])

\* "Once OnDeck, a thread stays OnDeck until it acquires the lock": nobody
\* but the heir, holding the lock, ends its turn.
HeirStays ==
    [][OnDeck' # OnDeck /\ OnDeck \in Threads
         => LockWord.lbit /\ pc[OnDeck] = "clear" /\ OnDeck' = NULL]_vars

-----------------------------------------------------------------------------
\* The threads are scheduled, and a caller inside the monitor leaves it.
Fairness ==
    \A t \in Threads : WF_vars(Step(t)) /\ SF_vars(unlock(t))
FairSpec == Spec /\ Fairness

Status(t) ==
    IF pc[t] \in Holding THEN "in"
    ELSE IF t \in On(WaitSet) THEN "waiting"
    ELSE IF pc[t] = "suspended" \/ (ctx[t] \in Suspending /\ pc[t] \in Exiting) THEN "suspended"
    ELSE IF pc[t] = "idle" \/ (ctx[t] = "lock" /\ pc[t] \in Exiting) THEN "out"
    ELSE "entering"

Abstract == INSTANCE AbstractMonitor WITH status <- [t \in Threads |-> Status(t)]

\* The monitor with its queues is the abstract monitor: wait() is atomic, a
\* notification is never lost or given to two threads, and a free monitor
\* with contenders admits one.
ImplementsMonitor == Abstract!Spec
=============================================================================
