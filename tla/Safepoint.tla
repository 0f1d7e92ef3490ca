------------------------------ MODULE Safepoint ------------------------------
(***************************************************************************)
(* The safepoint protocol: SafepointSynchronize and ThreadSafepointState   *)
(* (safepoint.cpp) against the thread state transitions of Java threads    *)
(* (interfaceSupport.hpp), external suspension and the thread list         *)
(* (thread.cpp).                                                           *)
(*                                                                         *)
(* A thread announces where it is by storing to its _thread_state, and the *)
(* VM thread reads it without a lock.  Stores go through a store buffer:   *)
(* view[t] is the sequence of values of _thread_state from the one in      *)
(* memory, which the VM thread reads, to the one the thread stored last.   *)
(* A fence, a compare-and-swap and a lock operation drain the buffer; so   *)
(* does, with ~UseMembar, the protection of the serialize page by the VM   *)
(* thread.  Sections of other threads under Safepoint_lock, Threads_lock   *)
(* or SR_lock are single steps.                                            *)
(***************************************************************************)
EXTENDS Naturals, Sequences, FiniteSets

CONSTANTS
    Threads,        \* JavaThreads, on the thread list or not
    Suspendable,    \* the ones that others suspend and resume
    CriticalUsers,  \* the ones that use JNI critical regions
    VM, NoOne,      \* the VM thread, and nobody, as holder of a lock
    UseMembar,
    BufferSize      \* how many stores of a thread may be pending

ASSUME SafepointAssumption ==
    /\ VM \notin Threads /\ NoOne \notin Threads \cup {VM}
    /\ Suspendable \subseteq Threads /\ CriticalUsers \subseteq Threads
    /\ UseMembar \in BOOLEAN /\ BufferSize \in Nat
    /\ IsFiniteSet(Threads)

VARIABLES
    state, waiting_to_block, jni_active_count, safepoint_counter,
    armed,              \* polling page and interpreter table force a callback
    Threads_lock, Safepoint_lock, notified,
    type, called_back,  \* ThreadSafepointState of each thread
    live, view, critical, external_suspend, ext_suspended,
    pc, to, saved,      \* per thread: control, target of the transition, block()'s state
    vpc, cur, seen      \* the VM thread: control, thread examined, state read

global == <<state, waiting_to_block, jni_active_count, safepoint_counter, armed,
            Threads_lock, Safepoint_lock, notified, type, called_back>>
vmVars == <<vpc, cur, seen>>
vars == <<global, live, view, critical, external_suspend, ext_suspended,
          pc, to, saved, vmVars>>

Stable == {"new", "in_native", "in_vm", "in_Java", "blocked"}
Trans == [s \in Stable \ {"in_Java"} |->
            CASE s = "new" -> "new_trans" [] s = "in_native" -> "in_native_trans"
              [] s = "in_vm" -> "in_vm_trans" [] s = "blocked" -> "blocked_trans"]
States == Stable \cup {Trans[s] : s \in Stable \ {"in_Java"}}

\* The transitions that check for a safepoint on their way.
Transitions ==
    {<<"new", "in_vm">>, <<"in_vm", "in_Java">>, <<"in_vm", "in_native">>,
     <<"in_vm", "blocked">>, <<"blocked", "in_vm">>,
     <<"in_native", "in_vm">>, <<"in_native", "in_Java">>}

Init ==
    /\ state = "not_synchronized" /\ waiting_to_block = 0
    /\ jni_active_count = 0 /\ safepoint_counter = 0 /\ armed = FALSE
    /\ Threads_lock = NoOne /\ Safepoint_lock = NoOne /\ notified = FALSE
    /\ type = [t \in Threads |-> "running"]
    /\ called_back = [t \in Threads |-> FALSE]
    /\ live = {}
    /\ view = [t \in Threads |-> <<"new">>]
    /\ critical = [t \in Threads |-> FALSE]
    /\ external_suspend = [t \in Threads |-> FALSE]
    /\ ext_suspended = [t \in Threads |-> FALSE]
    /\ pc = [t \in Threads |-> "run"]
    /\ to = [t \in Threads |-> "new"] /\ saved = [t \in Threads |-> "new"]
    /\ vpc = "idle" /\ cur = NoOne /\ seen = "new"

thread_state(t) == view[t][Len(view[t])]
Drained(t) == Len(view[t]) = 1
Goto(t, l) == pc' = [pc EXCEPT ![t] = l]

\* set_thread_state(), into the buffer or, in a locked section, to memory.
Store(t, s) ==
    /\ Len(view[t]) <= BufferSize
    /\ view' = [view EXCEPT ![t] = Append(@, s)]
StoreLocked(t, s) == view' = [view EXCEPT ![t] = <<s>>]

\* Mutated: a safepoint that has been reached stops nobody who comes late.
CallBackWhileSynchronizing == state = "synchronizing"

do_call_back == state # "not_synchronized"

-----------------------------------------------------------------------------
(* Mutated operations: slips that the properties below must notice. *)

\* No fence between the store of the transition state and the check.
FenceMissing(t) ==
    /\ pc[t] \in {"fence", "refence"}
    /\ Goto(t, IF pc[t] = "fence" THEN "check" ELSE "recheck")
    /\ UNCHANGED <<global, live, view, critical, external_suspend, ext_suspended,
                   to, saved, vmVars>>

\* The VM thread does not serialize the thread states.
SerializeNothing ==
    /\ vpc = "serialize"
    /\ vpc' = "arm"
    /\ UNCHANGED <<global, live, view, critical, external_suspend, ext_suspended,
                   pc, to, saved, cur, seen>>

\* The callback does not report the critical region it found the thread in.
CallBackUncounted(t) ==
    /\ pc[t] = "callback" /\ Safepoint_lock = NoOne
    /\ IF state = "synchronizing"
       THEN /\ waiting_to_block' = waiting_to_block - 1
            /\ called_back' = [called_back EXCEPT ![t] = TRUE]
            /\ notified' = (notified \/ (waiting_to_block' = 0 /\ vpc = "waiting"))
       ELSE UNCHANGED <<waiting_to_block, called_back, notified>>
    /\ StoreLocked(t, "blocked")
    /\ Goto(t, "await")
    /\ UNCHANGED <<state, jni_active_count, safepoint_counter, armed, Threads_lock,
                   Safepoint_lock, type, live, critical, external_suspend, ext_suspended,
                   to, saved, vmVars>>

\* A resume needs no Threads_lock.
ResumeUnlocked(t) ==
    /\ t \in live /\ external_suspend[t]
    /\ external_suspend' = [external_suspend EXCEPT ![t] = FALSE]
    /\ ext_suspended' = [ext_suspended EXCEPT ![t] = FALSE]
    /\ UNCHANGED <<global, live, view, critical, pc, to, saved, vmVars>>

\* The threads waited for are those of all times, not of the list.
SynchronizingAll ==
    /\ vpc = "begin" /\ Safepoint_lock = NoOne
    /\ Safepoint_lock' = VM
    /\ jni_active_count' = 0
    /\ waiting_to_block' = Cardinality(Threads)
    /\ state' = "synchronizing"
    /\ vpc' = "serialize"
    /\ UNCHANGED <<safepoint_counter, armed, Threads_lock, notified, type, called_back,
                   live, view, critical, external_suspend, ext_suspended,
                   pc, to, saved, cur, seen>>

\* The polling page stays readable.
ArmNothing ==
    /\ vpc = "arm"
    /\ vpc' = "examine"
    /\ UNCHANGED <<global, live, view, critical, external_suspend, ext_suspended,
                   pc, to, saved, cur, seen>>

-----------------------------------------------------------------------------
(* Thread state transitions *)

\* A pending store reaches memory.
Drain(t) ==
    /\ ~Drained(t)
    /\ view' = [view EXCEPT ![t] = Tail(@)]
    /\ UNCHANGED <<global, live, critical, external_suspend, ext_suspended,
                   pc, to, saved, vmVars>>

\* From Java into the VM, or through a native wrapper: no check.
transition_from_java(t, s) ==
    /\ t \in live /\ pc[t] = "run" /\ thread_state(t) = "in_Java"
    /\ Store(t, s)
    /\ UNCHANGED <<global, live, critical, external_suspend, ext_suspended,
                   pc, to, saved, vmVars>>

\* transition(), transition_and_fence() and transition_from_native(): the
\* transition state is stored ...
transition(t, s) ==
    /\ t \in live /\ pc[t] = "run"
    /\ <<thread_state(t), s>> \in Transitions
    /\ Store(t, Trans[thread_state(t)])
    /\ to' = [to EXCEPT ![t] = s]
    /\ Goto(t, "fence")
    /\ UNCHANGED <<global, live, critical, external_suspend, ext_suspended,
                   saved, vmVars>>

\* ... made visible by a fence, or left to the write to the serialize page ...
Fence(t) ==
    /\ pc[t] \in {"fence", "refence"}
    /\ UseMembar => Drained(t)
    /\ Goto(t, IF pc[t] = "fence" THEN "check" ELSE "recheck")
    /\ UNCHANGED <<global, live, view, critical, external_suspend, ext_suspended,
                   to, saved, vmVars>>

\* ... and the thread blocks if a safepoint is in progress.  Coming from
\* native code it first suspends itself, as blocked, if it is asked to.
Check(t) ==
    /\ pc[t] \in {"check", "recheck"}
    /\ IF pc[t] = "check" /\ thread_state(t) = "in_native_trans" /\ external_suspend[t]
       THEN Store(t, "blocked") /\ Goto(t, "special")
       ELSE Goto(t, IF do_call_back THEN "block" ELSE "store") /\ UNCHANGED view
    /\ UNCHANGED <<global, live, critical, external_suspend, ext_suspended,
                   to, saved, vmVars>>

\* The target state is stored; leaving the VM the thread looks for a suspend
\* request (~ThreadInVMfromNative, which also goes to native code, does not).
StoreTo(t) ==
    /\ pc[t] = "store"
    /\ Store(t, to[t])
    /\ \/ ~(to[t] = "in_Java" /\ thread_state(t) = "in_vm_trans")
          /\ Goto(t, "run")
       \/ thread_state(t) = "in_vm_trans" /\ to[t] \in {"in_Java", "in_native"}
          /\ Goto(t, "special")
    /\ to' = [to EXCEPT ![t] = "new"]
    /\ UNCHANGED <<global, live, critical, external_suspend, ext_suspended,
                   saved, vmVars>>

\* A safepoint poll in compiled code traps.
handle_polling_page_exception(t) ==
    /\ t \in live /\ pc[t] = "run" /\ thread_state(t) = "in_Java" /\ armed
    /\ Goto(t, "block")
    /\ UNCHANGED <<global, live, view, critical, external_suspend, ext_suspended,
                   to, saved, vmVars>>

-----------------------------------------------------------------------------
(* SafepointSynchronize::block() *)

\* A thread the VM thread waits for pretends to be in the VM; others are
\* safe as they are and only become blocked.
block(t) ==
    /\ pc[t] = "block"
    /\ saved' = [saved EXCEPT ![t] = thread_state(t)]
    /\ IF thread_state(t) \in {"in_vm_trans", "in_Java"}
       THEN Store(t, "in_vm") /\ Goto(t, "callback")
       ELSE Store(t, "blocked") /\ Goto(t, "await")
    /\ UNCHANGED <<global, live, critical, external_suspend, ext_suspended,
                   to, vmVars>>

\* Under Safepoint_lock: count down, and notify the VM thread if we are last.
CallBack(t) ==
    /\ pc[t] = "callback" /\ Safepoint_lock = NoOne
    /\ IF state = "synchronizing"
       THEN /\ waiting_to_block' = waiting_to_block - 1
            /\ called_back' = [called_back EXCEPT ![t] = TRUE]
            /\ jni_active_count' = jni_active_count + (IF critical[t] THEN 1 ELSE 0)
            /\ notified' = (notified \/ (waiting_to_block' = 0 /\ vpc = "waiting"))
       ELSE UNCHANGED <<waiting_to_block, called_back, jni_active_count, notified>>
    /\ StoreLocked(t, "blocked")
    /\ Goto(t, "await")
    /\ UNCHANGED <<state, safepoint_counter, armed, Threads_lock, Safepoint_lock,
                   type, live, critical, external_suspend, ext_suspended,
                   to, saved, vmVars>>

\* Threads_lock is ours for the moment it takes to restore the state.
Unblock(t) ==
    /\ pc[t] = "await" /\ Threads_lock = NoOne
    /\ StoreLocked(t, saved[t])
    /\ saved' = [saved EXCEPT ![t] = "new"]
    /\ Goto(t, IF saved[t] \in {"blocked_trans", "in_vm_trans"} THEN "store" ELSE "special")
    /\ UNCHANGED <<global, live, critical, external_suspend, ext_suspended, to, vmVars>>

-----------------------------------------------------------------------------
(* External suspension *)

\* JVM_SuspendThread: a Java thread asks for it, so not during a safepoint.
set_external_suspend(t) ==
    /\ t \in live \cap Suspendable /\ state # "synchronized" /\ ~external_suspend[t]
    /\ external_suspend' = [external_suspend EXCEPT ![t] = TRUE]
    /\ UNCHANGED <<global, live, view, critical, ext_suspended, pc, to, saved, vmVars>>

\* JVM_ResumeThread, under Threads_lock.
java_resume(t) ==
    /\ t \in live /\ Threads_lock = NoOne /\ external_suspend[t]
    /\ external_suspend' = [external_suspend EXCEPT ![t] = FALSE]
    /\ ext_suspended' = [ext_suspended EXCEPT ![t] = FALSE]
    /\ UNCHANGED <<global, live, view, critical, pc, to, saved, vmVars>>

\* handle_special_runtime_exit_condition() and java_suspend_self(): the loop
\* ends once nobody asks for the suspension.
java_suspend_self(t) ==
    /\ pc[t] = "special"
    /\ IF external_suspend[t]
       THEN /\ Drained(t)
            /\ ext_suspended' = [ext_suspended EXCEPT ![t] = TRUE]
            /\ Goto(t, "suspended") /\ UNCHANGED view
       ELSE /\ IF thread_state(t) = "blocked"
               THEN Store(t, "in_native_trans") /\ Goto(t, "refence")
               ELSE /\ Goto(t, IF thread_state(t) \in Stable THEN "run" ELSE "store")
                    /\ UNCHANGED view
            /\ UNCHANGED ext_suspended
    /\ UNCHANGED <<global, live, critical, external_suspend, to, saved, vmVars>>

Wake(t) ==
    /\ pc[t] = "suspended" /\ ~ext_suspended[t]
    /\ Goto(t, "special")
    /\ UNCHANGED <<global, live, view, critical, external_suspend, ext_suspended,
                   to, saved, vmVars>>

-----------------------------------------------------------------------------
(* The thread list and JNI critical regions *)

\* Threads::add(), under Threads_lock.
add(t) ==
    /\ t \notin live /\ Threads_lock = NoOne
    /\ live' = live \cup {t}
    /\ UNCHANGED <<global, view, critical, external_suspend, ext_suspended,
                   pc, to, saved, vmVars>>

\* JavaThread::exit() honours suspensions, then Threads::remove() takes
\* Threads_lock, in the VM or blocked on the lock.
remove(t) ==
    /\ t \in live /\ pc[t] = "run" /\ thread_state(t) \in {"in_vm", "blocked"}
    /\ Threads_lock = NoOne /\ ~external_suspend[t] /\ ~critical[t]
    /\ live' = live \ {t}
    /\ StoreLocked(t, "new")
    /\ UNCHANGED <<global, critical, external_suspend, ext_suspended,
                   pc, to, saved, vmVars>>

\* enter_critical() and exit_critical(), in the VM.
SetCritical(t) ==
    /\ t \in live \cap CriticalUsers /\ pc[t] = "run" /\ thread_state(t) = "in_vm"
    /\ critical' = [critical EXCEPT ![t] = ~@]
    /\ UNCHANGED <<global, live, view, external_suspend, ext_suspended,
                   pc, to, saved, vmVars>>

-----------------------------------------------------------------------------
(* The VM thread: SafepointSynchronize::begin() *)

begin ==
    /\ vpc = "idle" /\ Threads_lock = NoOne
    /\ Threads_lock' = VM
    /\ vpc' = "begin"
    /\ UNCHANGED <<state, waiting_to_block, jni_active_count, safepoint_counter, armed,
                   Safepoint_lock, notified, type, called_back, live, view, critical,
                   external_suspend, ext_suspended, pc, to, saved, cur, seen>>

Synchronizing ==
    /\ vpc = "begin" /\ Safepoint_lock = NoOne
    /\ Safepoint_lock' = VM
    /\ jni_active_count' = 0
    /\ waiting_to_block' = Cardinality(live)
    /\ state' = "synchronizing"
    /\ vpc' = "serialize"
    /\ UNCHANGED <<safepoint_counter, armed, Threads_lock, notified, type, called_back,
                   live, view, critical, external_suspend, ext_suspended,
                   pc, to, saved, cur, seen>>

serialize_thread_states ==
    /\ vpc = "serialize"
    /\ view' = IF UseMembar THEN view ELSE [t \in Threads |-> <<thread_state(t)>>]
    /\ vpc' = "arm"
    /\ UNCHANGED <<global, live, critical, external_suspend, ext_suspended,
                   pc, to, saved, cur, seen>>

\* Interpreter::notice_safepoints() and make_polling_page_unreadable().
Arm ==
    /\ vpc = "arm"
    /\ armed' = TRUE
    /\ vpc' = "examine"
    /\ UNCHANGED <<state, waiting_to_block, jni_active_count, safepoint_counter,
                   Threads_lock, Safepoint_lock, notified, type, called_back, live, view,
                   critical, external_suspend, ext_suspended, pc, to, saved, cur, seen>>

\* examine_state_of_thread() reads the thread's state ...
ReadState(t) ==
    /\ vpc = "examine" /\ t \in live /\ type[t] = "running"
    /\ cur' = t /\ seen' = Head(view[t])
    /\ vpc' = "classify"
    /\ UNCHANGED <<global, live, view, critical, external_suspend, ext_suspended,
                   pc, to, saved>>

\* ... then its suspension, and rolls it forward or leaves it running.
examine_state_of_thread ==
    /\ vpc = "classify"
    /\ IF ext_suspended[cur] \/ seen \in {"in_native", "blocked"}
       THEN /\ type' = [type EXCEPT ![cur] = "at_safepoint"]
            /\ waiting_to_block' = waiting_to_block - 1
            /\ jni_active_count' = jni_active_count + (IF critical[cur] THEN 1 ELSE 0)
            /\ UNCHANGED called_back
       ELSE IF seen = "in_vm"
       THEN /\ type' = [type EXCEPT ![cur] = "call_back"]
            /\ called_back' = [called_back EXCEPT ![cur] = FALSE]
            /\ UNCHANGED <<waiting_to_block, jni_active_count>>
       ELSE UNCHANGED <<type, called_back, waiting_to_block, jni_active_count>>
    /\ cur' = NoOne /\ seen' = "new"
    /\ vpc' = "examine"
    /\ UNCHANGED <<state, safepoint_counter, armed, Threads_lock, Safepoint_lock, notified,
                   live, view, critical, external_suspend, ext_suspended, pc, to, saved>>

\* Nobody is still running: wait for the callbacks, or go on.
WaitToBlock ==
    /\ vpc = "examine" /\ \A t \in live : type[t] # "running"
    /\ IF waiting_to_block > 0
       THEN vpc' = "waiting" /\ notified' = FALSE /\ UNCHANGED <<safepoint_counter, state>>
       ELSE /\ safepoint_counter' = 1 - safepoint_counter
            /\ state' = "synchronized"
            /\ vpc' = "operate" /\ UNCHANGED notified
    /\ Safepoint_lock' = NoOne
    /\ UNCHANGED <<waiting_to_block, jni_active_count, armed, Threads_lock, type, called_back,
                   live, view, critical, external_suspend, ext_suspended,
                   pc, to, saved, cur, seen>>

\* Safepoint_lock->wait() returns.
Awake ==
    /\ vpc = "waiting" /\ notified /\ Safepoint_lock = NoOne
    /\ Safepoint_lock' = VM
    /\ notified' = FALSE
    /\ vpc' = "examine"
    /\ UNCHANGED <<state, waiting_to_block, jni_active_count, safepoint_counter, armed,
                   Threads_lock, type, called_back, live, view, critical,
                   external_suspend, ext_suspended, pc, to, saved, cur, seen>>

-----------------------------------------------------------------------------
(* SafepointSynchronize::end() *)

end ==
    /\ vpc = "operate"
    /\ safepoint_counter' = 1 - safepoint_counter
    /\ armed' = FALSE
    /\ vpc' = "end"
    /\ UNCHANGED <<state, waiting_to_block, jni_active_count, Threads_lock, Safepoint_lock,
                   notified, type, called_back, live, view, critical, external_suspend,
                   ext_suspended, pc, to, saved, cur, seen>>

NotSynchronized ==
    /\ vpc = "end" /\ Safepoint_lock = NoOne
    /\ Safepoint_lock' = VM
    /\ state' = "not_synchronized"
    /\ vpc' = "restart"
    /\ UNCHANGED <<waiting_to_block, jni_active_count, safepoint_counter, armed, Threads_lock,
                   notified, type, called_back, live, view, critical, external_suspend,
                   ext_suspended, pc, to, saved, cur, seen>>

restart ==
    /\ vpc = "restart"
    /\ type' = [t \in Threads |-> "running"]
    /\ called_back' = [t \in Threads |-> FALSE]
    /\ Threads_lock' = NoOne /\ Safepoint_lock' = NoOne
    /\ vpc' = "idle"
    /\ UNCHANGED <<state, waiting_to_block, jni_active_count, safepoint_counter, armed,
                   notified, live, view, critical, external_suspend, ext_suspended,
                   pc, to, saved, cur, seen>>

-----------------------------------------------------------------------------
\* What a thread does without being asked again.
Continue(t) ==
    \/ Drain(t) \/ Fence(t) \/ Check(t) \/ StoreTo(t) \/ block(t) \/ CallBack(t)
    \/ Unblock(t) \/ java_suspend_self(t) \/ Wake(t)

Act(t) ==
    \/ \E s \in {"in_vm", "in_native"} : transition_from_java(t, s)
    \/ \E s \in Stable : transition(t, s)
    \/ handle_polling_page_exception(t)
    \/ add(t) \/ remove(t) \/ SetCritical(t)
    \/ set_external_suspend(t) \/ java_resume(t)

VMStep ==
    \/ Synchronizing \/ serialize_thread_states \/ Arm \/ examine_state_of_thread
    \/ (\E t \in Threads : ReadState(t)) \/ WaitToBlock \/ Awake
    \/ end \/ NotSynchronized \/ restart

Next == (\E t \in Threads : Continue(t) \/ Act(t)) \/ begin \/ VMStep

Spec == Init /\ [][Next]_vars

-----------------------------------------------------------------------------
TypeOK ==
    /\ state \in {"not_synchronized", "synchronizing", "synchronized"}
    /\ waiting_to_block \in 0..Cardinality(Threads)
    /\ jni_active_count \in 0..Cardinality(Threads)
    /\ safepoint_counter \in {0, 1}
    /\ armed \in BOOLEAN /\ notified \in BOOLEAN
    /\ Threads_lock \in {VM, NoOne} /\ Safepoint_lock \in {VM, NoOne}
    /\ type \in [Threads -> {"running", "at_safepoint", "call_back"}]
    /\ called_back \in [Threads -> BOOLEAN] /\ critical \in [Threads -> BOOLEAN]
    /\ external_suspend \in [Threads -> BOOLEAN] /\ ext_suspended \in [Threads -> BOOLEAN]
    /\ live \subseteq Threads
    /\ view \in [Threads -> Seq(States)] /\ \A t \in Threads : view[t] # <<>>
    /\ pc \in [Threads -> {"run", "fence", "check", "store", "block", "callback", "await",
                           "special", "suspended", "refence", "recheck"}]
    /\ to \in [Threads -> Stable] /\ saved \in [Threads -> States]
    /\ vpc \in {"idle", "begin", "serialize", "arm", "examine", "classify", "waiting",
                "operate", "end", "restart"}
    /\ cur \in Threads \cup {NoOne} /\ seen \in States

-----------------------------------------------------------------------------
\* Where a thread is while it touches neither the heap nor the VM and cannot
\* do so without looking at the safepoint state again.
Safe(t) ==
    \/ pc[t] = "await"
    \/ pc[t] = "run" /\ thread_state(t) \in {"in_native", "blocked"}
    \/ pc[t] \in {"fence", "check", "block"}
          /\ thread_state(t) \in {"in_native_trans", "blocked_trans"}
    \/ pc[t] \in {"special", "suspended"} /\ thread_state(t) \in {"in_native", "blocked"}
    \/ pc[t] \in {"refence", "recheck"}
    \/ pc[t] = "suspended" /\ ext_suspended[t]

\* At a safepoint every Java thread on the list is stopped: what the stores to
\* _thread_state, the fences and the polls are for.
AllStopped == state = "synchronized" => \A t \in live : Safe(t)

\* _waiting_to_block counts the threads still to be examined and those that
\* have yet to call back: none is counted off twice, by the VM thread and by
\* its own callback, and none is forgotten.
WaitingCount ==
    state = "synchronizing" =>
        waiting_to_block = Cardinality({t \in live :
            \/ type[t] = "running"
            \/ type[t] = "call_back" /\ ~called_back[t]})

\* The JNI critical regions counted on the way to the safepoint are those that
\* threads are in when it is reached: GC_locker takes over the number.
CriticalCount ==
    state = "synchronized" => jni_active_count = Cardinality({t \in live : critical[t]})

\* The assertions at a poll, and the "Deadlock in safepoint code" of block():
\* a thread traps only while the VM thread waits for it, and a thread told to
\* call back never reaches block() by a way that does not.
BlockedAsExpected ==
    \A t \in live : pc[t] = "block" =>
        IF thread_state(t) = "in_Java"
        THEN state = "synchronizing" /\ type[t] = "running"
        ELSE thread_state(t) \in {"in_native_trans", "blocked_trans", "new_trans"}
                => type[t] # "call_back"

\* While the world is stopped no thread enters or leaves the list, is resumed,
\* or changes the type it was given.
NothingMoves ==
    [][state = "synchronized" /\ state' = "synchronized"
         => /\ UNCHANGED <<live, type, critical>>
            /\ \A t \in Threads : ext_suspended[t] => ext_suspended'[t]]_vars

-----------------------------------------------------------------------------
World == CASE state = "not_synchronized" -> "go"
           [] state = "synchronizing" -> "stopping"
           [] state = "synchronized" -> "stopped"
Role(t) == IF t \notin live THEN "absent" ELSE IF Safe(t) THEN "safe" ELSE "mutator"

Abstract == INSTANCE StopTheWorld WITH world <- World, role <- [t \in Threads |-> Role(t)]

\* The protocol with its states, flags, buffers and locks stops the world.
StopsTheWorld == Abstract!Spec

\* Threads run; one in Java reaches a poll, one in the VM or new leaves it.
\* Native code, a blocked thread and a suspended one need never move.
Leaves(t) ==
    \/ handle_polling_page_exception(t)
    \/ thread_state(t) \in {"in_vm", "new"} /\ \E s \in Stable : transition(t, s)
Fairness ==
    /\ WF_vars(VMStep)
    /\ \A t \in Threads : WF_vars(Drain(t)) /\ WF_vars(Continue(t)) /\ WF_vars(Leaves(t))
FairSpec == Spec /\ Fairness

\* A safepoint that was begun is reached, whatever the threads were doing.
SafepointReached == Abstract!Stops
=============================================================================
