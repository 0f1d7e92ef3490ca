------------------------------ MODULE VMThread ------------------------------
(***************************************************************************)
(* VM operations (vmThread.cpp): threads queue them, the VM thread         *)
(* evaluates them one at a time, several at one safepoint where it can,    *)
(* and tells the callers that wait.  What happens under                    *)
(* VMOperationQueue_lock, VMOperationRequest_lock or _terminate_lock is    *)
(* one step; safepoints are begun and ended in one step each (module       *)
(* Safepoint has the protocol), and a Java thread takes no step at one.    *)
(***************************************************************************)
EXTENDS Integers, Sequences, FiniteSets

CONSTANTS
    JavaThreads,
    OtherThreads,       \* callers that a safepoint does not stop
    Modes,              \* the evaluation modes that callers use
    NestedModes,        \* those that an operation uses inside its own evaluation
    GuaranteedSafepointInterval,    \* 0: the VM thread waits without a timeout
    MaxQueued           \* operations that nobody waits for are queued up to this length

Threads == JavaThreads \cup OtherThreads
AllModes == {"safepoint", "no_safepoint", "concurrent", "async_safepoint"}

ASSUME ModesAssumption ==
    /\ Modes \subseteq AllModes /\ NestedModes \subseteq {"safepoint", "no_safepoint"}
    /\ JavaThreads \cap OtherThreads = {} /\ IsFiniteSet(Threads)
    /\ GuaranteedSafepointInterval \in Nat /\ MaxQueued \in Nat

VARIABLES
    queue, queue_counter,
    cur, prev,          \* _cur_vm_operation, and the one it is nested in
    safepoint_ops,      \* the drained list
    at_safepoint, began,    \* and whether the nested operation began the safepoint
    lead,               \* of each thread: operations completed minus tickets drawn
    pc, waiting,        \* callers, and the wait set of VMOperationRequest_lock
    vpc, notified,      \* the VM thread, and whether its wait was ended
    should_terminate, terminated

callers == <<lead, pc, waiting>>
exits == <<should_terminate, terminated>>
vars == <<queue, queue_counter, cur, prev, safepoint_ops, at_safepoint, began, callers,
          vpc, notified, exits>>

NoOp == [caller |-> "nobody", mode |-> "none"]
Op(t, m) == [caller |-> t, mode |-> m]
evaluate_at_safepoint(op) == op.mode \in {"safepoint", "async_safepoint"}
evaluate_concurrently(op) == op.mode \in {"concurrent", "async_safepoint"}
Prio(op) == IF evaluate_at_safepoint(op) THEN "safepoint" ELSE "medium"

Init ==
    /\ queue = [p \in {"safepoint", "medium"} |-> <<>>] /\ queue_counter = 0
    /\ cur = NoOp /\ prev = NoOp /\ safepoint_ops = <<>>
    /\ at_safepoint = FALSE /\ began = FALSE
    /\ lead = [t \in Threads |-> 0] /\ pc = [t \in Threads |-> "run"] /\ waiting = {}
    /\ vpc = "look" /\ notified = FALSE
    /\ should_terminate = FALSE /\ terminated = FALSE

Runs(t) == t \in JavaThreads => ~at_safepoint

\* A notify() on VMOperationQueue_lock finds the VM thread waiting or nobody.
NotifyVM == notified' = (notified \/ vpc = "wait")

\* Mutated: operations without a safepoint wait until there are no others.
TurnByPriority == <<"safepoint", "medium">>

\* Whose turn it is: every eleventh time the operations without a safepoint.
Turn == IF queue_counter < 10 THEN <<"safepoint", "medium">> ELSE <<"medium", "safepoint">>

\* remove_next(), with the drain of the others at a safepoint if asked for.
remove_next(drain) ==
    LET p == IF queue[Turn[1]] # <<>> THEN Turn[1] ELSE Turn[2]
        rest == IF queue[p] = <<>> THEN <<>> ELSE Tail(queue[p])
    IN  /\ queue_counter' = IF queue_counter < 10 THEN queue_counter + 1 ELSE 0
        /\ cur' = IF queue[p] = <<>> THEN NoOp ELSE Head(queue[p])
        /\ IF drain /\ p = "safepoint"
           THEN safepoint_ops' = rest /\ queue' = [queue EXCEPT ![p] = <<>>]
           ELSE safepoint_ops' = <<>> /\ queue' = [queue EXCEPT ![p] = rest]

\* Where the loop around remove_next() goes on.
AfterRemove ==
    vpc' = IF should_terminate THEN "exit" ELSE IF cur' = NoOp THEN "wait" ELSE "execute"

-----------------------------------------------------------------------------
(* Mutated operations: slips that the properties below must notice. *)

\* A nested operation ends the safepoint it ran in.
NestedReturnEnding ==
    /\ vpc = "nested"
    /\ at_safepoint' = FALSE /\ began' = FALSE
    /\ cur' = prev /\ prev' = NoOp
    /\ vpc' = "complete"
    /\ UNCHANGED <<queue, queue_counter, safepoint_ops, callers, notified, exits>>

\* The list is drained although the drained list has not been worked off.
NextOpPeekingFirst ==
    /\ vpc = "next"
    /\ IF queue["safepoint"] # <<>>
       THEN vpc' = "drain" /\ UNCHANGED <<cur, safepoint_ops>>
       ELSE IF safepoint_ops # <<>>
       THEN /\ cur' = Head(safepoint_ops) /\ safepoint_ops' = Tail(safepoint_ops)
            /\ vpc' = "evaluate"
       ELSE vpc' = "end" /\ cur' = NoOp /\ UNCHANGED safepoint_ops
    /\ UNCHANGED <<queue, queue_counter, prev, at_safepoint, began, callers, notified, exits>>

\* The end of the VM is announced to nobody.
TerminateQuietly ==
    /\ ~should_terminate
    /\ should_terminate' = TRUE
    /\ UNCHANGED <<queue, queue_counter, cur, prev, safepoint_ops, at_safepoint, began,
                   callers, vpc, notified, terminated>>

\* The callers are told only of operations at a safepoint.
CompleteUntold ==
    /\ vpc = "complete"
    /\ lead' = IF evaluate_concurrently(cur) THEN lead ELSE [lead EXCEPT ![cur.caller] = @ + 1]
    /\ IF evaluate_at_safepoint(cur)
       THEN vpc' = "next" /\ UNCHANGED cur
       ELSE vpc' = "look" /\ cur' = NoOp
    /\ UNCHANGED <<queue, queue_counter, prev, safepoint_ops, at_safepoint, began,
                   pc, waiting, notified, exits>>

-----------------------------------------------------------------------------
(* The callers: VMThread::execute() and wait_for_vm_thread_exit() *)

\* Draw a ticket, queue the operation and notify the VM thread.  (An operation
\* whose doit_prologue() cancels it returns before any of this.)
execute(t, m) ==
    /\ pc[t] = "run" /\ Runs(t)
    /\ LET op == Op(t, m) IN
          /\ evaluate_concurrently(op) => Len(queue[Prio(op)]) < MaxQueued
          /\ queue' = [queue EXCEPT ![Prio(op)] = Append(@, op)]
          /\ IF evaluate_concurrently(op)
             THEN UNCHANGED <<lead, pc>>
             ELSE /\ lead' = [lead EXCEPT ![t] = @ - 1]
                  /\ pc' = [pc EXCEPT ![t] = "check"]
    /\ NotifyVM
    /\ UNCHANGED <<queue_counter, cur, prev, safepoint_ops, at_safepoint, began, waiting,
                   vpc, exits>>

\* The loop that waits for the ticket to come up.
AwaitCompletion(t) ==
    /\ pc[t] = "check" /\ t \notin waiting /\ Runs(t)
    /\ IF lead[t] < 0
       THEN waiting' = waiting \cup {t} /\ UNCHANGED pc
       ELSE pc' = [pc EXCEPT ![t] = "run"] /\ UNCHANGED waiting
    /\ UNCHANGED <<queue, queue_counter, cur, prev, safepoint_ops, at_safepoint, began,
                   lead, vpc, notified, exits>>

wait_for_vm_thread_exit ==
    /\ ~should_terminate
    /\ should_terminate' = TRUE
    /\ NotifyVM
    /\ UNCHANGED <<queue, queue_counter, cur, prev, safepoint_ops, at_safepoint, began,
                   callers, vpc, terminated>>

-----------------------------------------------------------------------------
(* The VM thread: loop() *)

Look ==
    /\ vpc = "look"
    /\ remove_next(FALSE) /\ AfterRemove
    /\ UNCHANGED <<prev, at_safepoint, began, callers, notified, exits>>

\* The wait ends: with a notification, or with a timeout and then perhaps a
\* safepoint for the sake of the clean-up.
Woken ==
    /\ vpc = "wait" /\ (notified \/ GuaranteedSafepointInterval # 0)
    /\ notified' = FALSE
    /\ \/ vpc' = "retake" /\ UNCHANGED at_safepoint
       \/ ~notified /\ vpc' = "cleanup" /\ at_safepoint' = TRUE
    /\ UNCHANGED <<queue, queue_counter, cur, prev, safepoint_ops, began, callers, exits>>

EndCleanup ==
    /\ vpc \in {"cleanup", "regular"}
    /\ at_safepoint' = FALSE
    /\ vpc' = IF vpc = "cleanup" THEN "retake" ELSE "look"
    /\ UNCHANGED <<queue, queue_counter, cur, prev, safepoint_ops, began, callers,
                   notified, exits>>

Retake ==
    /\ vpc = "retake"
    /\ remove_next(TRUE) /\ AfterRemove
    /\ UNCHANGED <<prev, at_safepoint, began, callers, notified, exits>>

\* SafepointSynchronize::begin() for an operation that wants it.
BeginOperation ==
    /\ vpc = "execute"
    /\ at_safepoint' = evaluate_at_safepoint(cur)
    /\ vpc' = "evaluate"
    /\ UNCHANGED <<queue, queue_counter, cur, prev, safepoint_ops, began, callers,
                   notified, exits>>

evaluate_operation ==
    /\ vpc = "evaluate"
    /\ vpc' = "complete"
    /\ UNCHANGED <<queue, queue_counter, cur, prev, safepoint_ops, at_safepoint, began,
                   callers, notified, exits>>

\* An operation that allows it executes another inside its own evaluation.
\* (One that does not is a fatal error; deeper nesting is left out.)
NestedExecute(m) ==
    /\ vpc = "evaluate"
    /\ prev' = cur /\ cur' = Op(cur.caller, m)
    /\ began' = (m = "safepoint" /\ ~at_safepoint)
    /\ at_safepoint' = (at_safepoint \/ m = "safepoint")
    /\ vpc' = "nested"
    /\ UNCHANGED <<queue, queue_counter, safepoint_ops, callers, notified, exits>>

NestedReturn ==
    /\ vpc = "nested"
    /\ at_safepoint' = (at_safepoint /\ ~began) /\ began' = FALSE
    /\ cur' = prev /\ prev' = NoOp
    /\ vpc' = "complete"
    /\ UNCHANGED <<queue, queue_counter, safepoint_ops, callers, notified, exits>>

\* The rest of evaluate_operation(): from here on a caller may go on, and the
\* operation be gone.
Complete ==
    /\ vpc = "complete"
    /\ lead' = IF evaluate_concurrently(cur) THEN lead ELSE [lead EXCEPT ![cur.caller] = @ + 1]
    /\ IF evaluate_at_safepoint(cur)
       THEN vpc' = "next" /\ UNCHANGED cur
       ELSE vpc' = "notify" /\ cur' = NoOp
    /\ UNCHANGED <<queue, queue_counter, prev, safepoint_ops, at_safepoint, began,
                   pc, waiting, notified, exits>>

\* The other operations of this safepoint, then those queued meanwhile.
NextOp ==
    /\ vpc = "next"
    /\ IF safepoint_ops # <<>>
       THEN /\ cur' = Head(safepoint_ops) /\ safepoint_ops' = Tail(safepoint_ops)
            /\ vpc' = "evaluate"
       ELSE /\ vpc' = IF queue["safepoint"] # <<>> THEN "drain" ELSE "end"
            /\ cur' = NoOp /\ UNCHANGED safepoint_ops
    /\ UNCHANGED <<queue, queue_counter, prev, at_safepoint, began, callers, notified, exits>>

Drain ==
    /\ vpc = "drain"
    /\ safepoint_ops' = queue["safepoint"]
    /\ queue' = [queue EXCEPT !["safepoint"] = <<>>]
    /\ vpc' = "next"
    /\ UNCHANGED <<queue_counter, cur, prev, at_safepoint, began, callers, notified, exits>>

EndOperations ==
    /\ vpc = "end"
    /\ at_safepoint' = FALSE
    /\ vpc' = "notify"
    /\ UNCHANGED <<queue, queue_counter, cur, prev, safepoint_ops, began, callers,
                   notified, exits>>

\* The callers are told, and there may be another safepoint for the clean-up
\* (SafepointALot is a flag of debug builds).
NotifyCallers ==
    /\ vpc = "notify"
    /\ waiting' = {}
    /\ \/ vpc' = "look" /\ UNCHANGED at_safepoint
       \/ GuaranteedSafepointInterval # 0 /\ vpc' = "regular" /\ at_safepoint' = TRUE
    /\ UNCHANGED <<queue, queue_counter, cur, prev, safepoint_ops, began, lead, pc,
                   notified, exits>>

\* The VM thread leaves at a safepoint that nobody ends.
Terminate ==
    /\ vpc = "exit"
    /\ at_safepoint' = TRUE /\ terminated' = TRUE
    /\ vpc' = "exited"
    /\ UNCHANGED <<queue, queue_counter, cur, prev, safepoint_ops, began, callers,
                   notified, should_terminate>>

-----------------------------------------------------------------------------
VMStep ==
    \/ Look \/ Woken \/ EndCleanup \/ Retake \/ BeginOperation \/ evaluate_operation
    \/ (\E m \in NestedModes : NestedExecute(m)) \/ NestedReturn
    \/ Complete \/ NextOp \/ Drain \/ EndOperations \/ NotifyCallers \/ Terminate

Next ==
    \/ \E t \in Threads : AwaitCompletion(t) \/ \E m \in Modes : execute(t, m)
    \/ wait_for_vm_thread_exit
    \/ VMStep

Spec == Init /\ [][Next]_vars

\* The VM thread runs; a caller gets ahead between two safepoints sooner or
\* later.  The second is an assumption about the scheduling of threads: end()
\* lets a caller run, but a caller that is blocked counts as stopped, and begin()
\* does not wait for it to have run.
Fairness == WF_vars(VMStep) /\ \A t \in Threads : SF_vars(AwaitCompletion(t))
FairSpec == Spec /\ Fairness

-----------------------------------------------------------------------------
Ops == [caller : Threads, mode : AllModes]

TypeOK ==
    /\ queue \in [{"safepoint", "medium"} -> Seq(Ops)] /\ queue_counter \in 0..10
    /\ cur \in Ops \cup {NoOp} /\ prev \in Ops \cup {NoOp} /\ safepoint_ops \in Seq(Ops)
    /\ at_safepoint \in BOOLEAN /\ began \in BOOLEAN
    /\ lead \in [Threads -> {-1, 0}] /\ pc \in [Threads -> {"run", "check"}]
    /\ waiting \subseteq Threads
    /\ vpc \in {"look", "wait", "cleanup", "regular", "retake", "execute", "evaluate",
                "nested", "complete", "next", "drain", "end", "notify", "exit", "exited"}
    /\ notified \in BOOLEAN /\ should_terminate \in BOOLEAN /\ terminated \in BOOLEAN

\* The operations that the VM thread has still to evaluate or to complete.
Held ==
    LET now == IF prev # NoOp THEN <<prev>>
               ELSE IF cur # NoOp /\ vpc \in {"execute", "evaluate", "complete", "exit", "exited"}
               THEN <<cur>> ELSE <<>>
    IN  now \o safepoint_ops \o queue["safepoint"] \o queue["medium"]

\* A blocking operation lives on its caller's stack: it is held by the VM
\* thread exactly once, and only while its caller waits for the ticket.
HeldWhileWaiting ==
    \A t \in Threads :
        /\ Cardinality({i \in DOMAIN Held : Held[i].caller = t /\ ~evaluate_concurrently(Held[i])})
             = -lead[t]
        /\ lead[t] < 0 => pc[t] = "check"

\* An operation is evaluated at a safepoint if and only if it asks for it,
\* coalesced operations and what follows a nested one included; a nested one is
\* if it or the operation around it asks.
EvaluatedWhereAsked ==
    /\ vpc \in {"evaluate", "complete", "next"} /\ cur # NoOp
         => at_safepoint = evaluate_at_safepoint(cur)
    /\ vpc = "nested"
         => at_safepoint = (evaluate_at_safepoint(cur) \/ evaluate_at_safepoint(prev))

\* A caller that the VM thread has forgotten to wake does not exist: whoever
\* is on the wait set has an operation under way, or its notification is.
WaitersRemembered ==
    \A t \in waiting :
        lead[t] < 0 \/ vpc \in {"complete", "evaluate", "nested", "next", "drain", "end", "notify"}

\* Every operation that is waited for is completed and its caller returns,
\* unless the VM exits: neither priority starves the other.
OperationReturns ==
    \A t \in Threads : pc[t] = "check" ~> pc[t] = "run" \/ should_terminate

\* Asked to, the VM thread terminates.
TerminationEnds == should_terminate ~> terminated
=============================================================================
