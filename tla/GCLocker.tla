------------------------------ MODULE GCLocker ------------------------------
(***************************************************************************)
(* GC_locker (gcLocker.cpp, gcLocker.inline.hpp): JNI critical regions     *)
(* hold off garbage collections, and the collections of GenCollectedHeap   *)
(* that meet it.  A thread in the VM reaches no safepoint, so what it does *)
(* between two places where it may block - JNICritical_lock, its wait set, *)
(* a VM operation - is one step; the unlocked test of _needs_gc comes in a *)
(* step of its own whenever JNICritical_lock is taken after it.            *)
(*                                                                         *)
(* The heap's total_collections() is only ever copied and compared for     *)
(* equality with a copy, so the model has for each copy whether the two    *)
(* are still equal, and there may be any number of collections.  (The      *)
(* counter is 32 bits wide; that one copy outlives 2^32 collections is     *)
(* left out.)                                                              *)
(***************************************************************************)
EXTENDS Integers, FiniteSets

CONSTANTS
    Threads,
    MaxNesting          \* how deep critical regions nest

VARIABLES
    jni_lock_count, needs_gc, doing_gc,
    total_collections,  \* whether _total_collections is the heap's count
    gc_count_before,    \* the threads whose gc_count_before is the heap's count
    active_critical,    \* _jni_active_critical of each thread
    pc, waiting,
    collected           \* history: a collection since _needs_gc was set

vars == <<jni_lock_count, needs_gc, doing_gc, total_collections, gc_count_before,
          active_critical, pc, waiting, collected>>

Init ==
    /\ jni_lock_count = 0 /\ needs_gc = FALSE /\ doing_gc = FALSE
    /\ total_collections = TRUE /\ gc_count_before = {}
    /\ active_critical = [t \in Threads |-> 0]
    /\ pc = [t \in Threads |-> "run"]
    /\ waiting = {} /\ collected = FALSE

Goto(t, l) == pc' = [pc EXCEPT ![t] = l]
enter_critical(t) == active_critical' = [active_critical EXCEPT ![t] = @ + 1]
exit_critical(t) == active_critical' = [active_critical EXCEPT ![t] = @ - 1]
in_critical(t) == active_critical[t] > 0
Active == {t \in Threads : in_critical(t)}
is_active_and_needs_gc == needs_gc /\ jni_lock_count > 0

-----------------------------------------------------------------------------
(* Mutated operations: slips that the properties below must notice. *)

\* A region may be entered while a collection waits for the regions to end.
LockUncounted(t) ==
    /\ pc[t] = "run" /\ active_critical[t] < MaxNesting
    /\ enter_critical(t)
    /\ UNCHANGED <<jni_lock_count, needs_gc, doing_gc, total_collections,
                   gc_count_before, pc, waiting, collected>>

\* Threads are let in again as soon as the last one is out.
LockWhileDoing(t) ==
    /\ pc[t] = "lock" /\ t \notin waiting
    /\ IF is_active_and_needs_gc
       THEN waiting' = waiting \cup {t} /\ UNCHANGED <<active_critical, jni_lock_count, pc>>
       ELSE /\ enter_critical(t) /\ jni_lock_count' = jni_lock_count + 1
            /\ Goto(t, "run") /\ UNCHANGED waiting
    /\ UNCHANGED <<needs_gc, doing_gc, total_collections, gc_count_before, collected>>

\* The last thread out is recognised by the count before it is decremented.
UnlockTestingFirst(t) ==
    /\ pc[t] = "unlock"
    /\ jni_lock_count' = jni_lock_count - 1
    /\ exit_critical(t)
    /\ IF needs_gc /\ jni_lock_count = 0
       THEN total_collections' = TRUE /\ doing_gc' = TRUE /\ Goto(t, "collect")
       ELSE Goto(t, "run") /\ UNCHANGED <<total_collections, doing_gc>>
    /\ UNCHANGED <<needs_gc, gc_count_before, waiting, collected>>

\* The collection of the last thread out is discarded when none has happened.
DiscardAlways(t) ==
    /\ pc[t] = "collect"
    /\ Goto(t, "finish")
    /\ UNCHANGED <<jni_lock_count, needs_gc, doing_gc, total_collections,
                   gc_count_before, active_critical, waiting, collected>>

\* The waiting threads are not notified.
FinishSilently(t) ==
    /\ pc[t] = "finish"
    /\ doing_gc' = FALSE /\ needs_gc' = FALSE /\ collected' = FALSE
    /\ Goto(t, "run")
    /\ UNCHANGED <<jni_lock_count, total_collections, gc_count_before,
                   active_critical, waiting>>

\* _doing_gc stays set.
FinishStillDoing(t) ==
    /\ pc[t] = "finish"
    /\ needs_gc' = FALSE /\ collected' = FALSE
    /\ waiting' = {}
    /\ Goto(t, "run")
    /\ UNCHANGED <<jni_lock_count, doing_gc, total_collections, gc_count_before,
                   active_critical>>

-----------------------------------------------------------------------------
(* Critical regions *)

lock_critical(t) ==
    /\ pc[t] = "run" /\ active_critical[t] < MaxNesting
    /\ IF ~in_critical(t) /\ needs_gc
       THEN Goto(t, "lock") /\ UNCHANGED active_critical
       ELSE enter_critical(t) /\ UNCHANGED pc
    /\ UNCHANGED <<jni_lock_count, needs_gc, doing_gc, total_collections,
                   gc_count_before, waiting, collected>>

\* Under JNICritical_lock, the first time and after each wait.
jni_lock(t) ==
    /\ pc[t] = "lock" /\ t \notin waiting
    /\ IF is_active_and_needs_gc \/ doing_gc
       THEN waiting' = waiting \cup {t} /\ UNCHANGED <<active_critical, jni_lock_count, pc>>
       ELSE /\ enter_critical(t) /\ jni_lock_count' = jni_lock_count + 1
            /\ Goto(t, "run") /\ UNCHANGED waiting
    /\ UNCHANGED <<needs_gc, doing_gc, total_collections, gc_count_before, collected>>

unlock_critical(t) ==
    /\ pc[t] = "run" /\ in_critical(t)
    /\ IF active_critical[t] = 1 /\ needs_gc
       THEN Goto(t, "unlock") /\ UNCHANGED active_critical
       ELSE exit_critical(t) /\ UNCHANGED pc
    /\ UNCHANGED <<jni_lock_count, needs_gc, doing_gc, total_collections,
                   gc_count_before, waiting, collected>>

\* The last thread out collects ...
jni_unlock(t) ==
    /\ pc[t] = "unlock"
    /\ jni_lock_count' = jni_lock_count - 1
    /\ exit_critical(t)
    /\ IF needs_gc /\ jni_lock_count' = 0
       THEN total_collections' = TRUE /\ doing_gc' = TRUE /\ Goto(t, "collect")
       ELSE Goto(t, "run") /\ UNCHANGED <<total_collections, doing_gc>>
    /\ UNCHANGED <<needs_gc, gc_count_before, waiting, collected>>

should_discard == ~total_collections

\* ... unless another collection has come first ...
collect(t) ==
    /\ pc[t] = "collect"
    /\ IF should_discard
       THEN Goto(t, "finish") /\ UNCHANGED gc_count_before
       ELSE Goto(t, "lockerOp") /\ gc_count_before' = gc_count_before \cup {t}
    /\ UNCHANGED <<jni_lock_count, needs_gc, doing_gc, total_collections,
                   active_critical, waiting, collected>>

\* ... and lets everybody go on.
Finish(t) ==
    /\ pc[t] = "finish"
    /\ doing_gc' = FALSE /\ needs_gc' = FALSE /\ collected' = FALSE
    /\ waiting' = {}
    /\ Goto(t, "run")
    /\ UNCHANGED <<jni_lock_count, total_collections, gc_count_before, active_critical>>

-----------------------------------------------------------------------------
(* Allocations that fail *)

\* A thread outside critical regions stalls while one is waited for; a thread
\* inside gives up; otherwise a collection is asked for.  A thread that is back
\* at "run" tries again or gives up (GCLockerRetryAllocationCount), as it likes.
mem_allocate(t) ==
    /\ pc[t] = "run"
    /\ IF is_active_and_needs_gc
       THEN ~in_critical(t) /\ Goto(t, "stall") /\ UNCHANGED gc_count_before
       ELSE Goto(t, "op") /\ gc_count_before' = gc_count_before \cup {t}
    /\ UNCHANGED <<jni_lock_count, needs_gc, doing_gc, total_collections,
                   active_critical, waiting, collected>>

\* Under JNICritical_lock, the first time and after each wait.
stall_until_clear(t) ==
    /\ pc[t] = "stall" /\ t \notin waiting
    /\ IF needs_gc
       THEN waiting' = waiting \cup {t} /\ UNCHANGED pc
       ELSE Goto(t, "run") /\ UNCHANGED waiting
    /\ UNCHANGED <<jni_lock_count, needs_gc, doing_gc, total_collections,
                   gc_count_before, active_critical, collected>>

-----------------------------------------------------------------------------
(* VM operations that collect: VM_GenCollectForAllocation ("op") and the     *)
(* VM_GenCollectFull of the last thread out ("lockerOp").                    *)

Return(t) == Goto(t, IF pc[t] = "op" THEN "run" ELSE "finish")

\* The prologue skips an operation if the heap was collected since it was
\* prepared, or if a collection is held off and the heap cannot grow.  (The
\* full one is skipped only if one of those collections was full, so it may
\* skip or not.)
skip_operation(t) ==
    /\ pc[t] \in {"op", "lockerOp"}
    /\ t \notin gc_count_before \/ is_active_and_needs_gc
    /\ Return(t) /\ gc_count_before' = gc_count_before \ {t}
    /\ UNCHANGED <<jni_lock_count, needs_gc, doing_gc, total_collections,
                   active_critical, waiting, collected>>

\* check_active_before_gc() at the safepoint: a region foils the collection.
check_active_before_gc ==
    needs_gc' = (needs_gc \/ Active # {})

do_collection(t) ==
    IF Active # {}
    THEN gc_count_before' = gc_count_before \ {t} /\ UNCHANGED <<total_collections, collected>>
    ELSE gc_count_before' = {} /\ total_collections' = FALSE /\ collected' = needs_gc

\* An operation that is not skipped, at a safepoint, which counts the threads
\* in critical regions.
doit(t) ==
    /\ pc[t] = "lockerOp" \/ (pc[t] = "op" /\ t \in gc_count_before)
    /\ Return(t)
    /\ jni_lock_count' = Cardinality(Active)
    /\ check_active_before_gc /\ do_collection(t)
    /\ UNCHANGED <<doing_gc, active_critical, waiting>>

\* Any other safepoint.
set_jni_lock_count ==
    /\ jni_lock_count' = Cardinality(Active)
    /\ UNCHANGED <<needs_gc, doing_gc, total_collections, gc_count_before,
                   active_critical, pc, waiting, collected>>

-----------------------------------------------------------------------------
Continue(t) ==
    \/ jni_lock(t) \/ jni_unlock(t) \/ collect(t) \/ Finish(t)
    \/ stall_until_clear(t) \/ skip_operation(t) \/ doit(t)

Next ==
    \/ \E t \in Threads : lock_critical(t) \/ unlock_critical(t) \/ mem_allocate(t) \/ Continue(t)
    \/ set_jni_lock_count

Spec == Init /\ [][Next]_vars

\* A thread in a call goes on, and leaves every critical region for good in
\* the end, however it nests them.
Leaves(t) == active_critical[t] = 1 /\ unlock_critical(t)
Fairness ==
    \A t \in Threads :
        WF_vars(Continue(t)) /\ WF_vars(unlock_critical(t)) /\ SF_vars(Leaves(t))
FairSpec == Spec /\ Fairness

-----------------------------------------------------------------------------
TypeOK ==
    /\ jni_lock_count \in 0..Cardinality(Threads)
    /\ needs_gc \in BOOLEAN /\ doing_gc \in BOOLEAN
    /\ total_collections \in BOOLEAN /\ collected \in BOOLEAN
    /\ gc_count_before \subseteq Threads
    /\ active_critical \in [Threads -> 0..MaxNesting]
    /\ pc \in [Threads -> {"run", "lock", "unlock", "collect", "lockerOp", "finish", "stall", "op"}]
    /\ waiting \subseteq Threads

\* While a collection is held off, the count of critical regions is exact,
\* though threads enter and leave without touching it at other times
\* (verify_critical_count()).
CountExact == needs_gc => jni_lock_count = Cardinality(Active)

\* While a collection is held off there is a thread that will ask for it: one
\* in a critical region, or the one that left last.
SomeoneCollects == needs_gc => Active # {} \/ doing_gc

\* Only one thread at a time collects on behalf of the locker.
OneCollector ==
    Cardinality({t \in Threads : pc[t] \in {"collect", "lockerOp", "finish"}})
        = IF doing_gc THEN 1 ELSE 0

\* While a collection is held off the regions drain: those in one may go on and
\* nest, but no thread outside gets in, whatever it saw before it took
\* JNICritical_lock, until the collection is over ("not allowing other critical
\* regions to be entered", gcLocker.hpp).
RegionsDrain == [][needs_gc => Active' \subseteq Active]_vars

\* The need for a collection is dropped only once the heap has been collected
\* since it arose, whoever did it.
NeedMet == [][needs_gc /\ ~needs_gc' => collected]_vars

\* A collection that is held off is not held off for ever, however many regions
\* there are and however they overlap ("a GC request won't be starved by
\* overlapping JNI critical region activities", gcLocker.hpp).
HeldOffEnds == needs_gc ~> ~needs_gc

\* Once no more collections are held off, each stalled allocation goes on and
\* each thread that was kept out of its region enters it: none sleeps through
\* the last notification.  While ever new collections are held off that cannot
\* be said: a thread that wakes up tests _needs_gc under JNICritical_lock, and
\* may find it set anew each time.
HeldOffGoOn ==
    <>[]~needs_gc =>
        \A t \in Threads :
            /\ pc[t] = "stall" ~> pc[t] = "run"
            /\ pc[t] = "lock" ~> in_critical(t)
=============================================================================
