------------------------------- MODULE MuxLock -------------------------------
(***************************************************************************)
(* Thread::muxAcquire and Thread::muxRelease (thread.cpp): a lock in one   *)
(* word, the lock bit and the head of a list of blocked threads.  Unlike   *)
(* Monitor, the release that pops a waiter and the release of the bit are  *)
(* one compare-and-swap, and every waiter contends afresh once popped.     *)
(***************************************************************************)
EXTENDS Naturals, FiniteSets

CONSTANTS Threads, NULL

ASSUME MuxAssumption == NULL \notin Threads

VARIABLES
    Lock,                       \* [list |-> head, bit |-> LOCKBIT]
    ListNext, OnList, Event,    \* fields of each thread's _MuxEvent
    pc, w, nxt                  \* per thread: control and locals

vars == <<Lock, ListNext, OnList, Event, pc, w, nxt>>

Ptr == Threads \cup {NULL}
Word == [list : Ptr, bit : BOOLEAN]
NoWord == [list |-> NULL, bit |-> FALSE]
Held == {"hygiene", "cs", "release", "pop"}
Free == {"idle", "spin", "enlist", "push", "wait", "park", "dequeue", "unpark"}

Init ==
    /\ Lock = NoWord
    /\ ListNext = [t \in Threads |-> NULL]
    /\ OnList = [t \in Threads |-> FALSE]
    /\ Event = [t \in Threads |-> FALSE]
    /\ pc = [t \in Threads |-> "idle"]
    /\ w = [t \in Threads |-> NoWord]
    /\ nxt = [t \in Threads |-> NULL]

Goto(t, l) == pc' = [pc EXCEPT ![t] = l]

-----------------------------------------------------------------------------
(* Mutated operations: slips that the properties below must notice. *)

\* The bit is set without a look at its old value.
SpinUnguarded(t) ==
    /\ pc[t] = "spin"
    /\ Lock' = [list |-> Lock.list, bit |-> TRUE]
    /\ Goto(t, "cs")
    /\ UNCHANGED <<ListNext, OnList, Event, w, nxt>>

\* The head is popped by a store instead of a compare-and-swap.
PopByStore(t) ==
    /\ pc[t] = "pop"
    /\ Lock' = [list |-> nxt[t], bit |-> FALSE] /\ Goto(t, "dequeue")
    /\ nxt' = [nxt EXCEPT ![t] = NULL]
    /\ UNCHANGED <<ListNext, OnList, Event, w>>

\* The lock is released without regard to its list.
ReleaseOnly(t) ==
    /\ pc[t] = "release"
    /\ Lock' = [list |-> Lock.list, bit |-> FALSE] /\ Goto(t, "idle")
    /\ UNCHANGED <<ListNext, OnList, Event, w, nxt>>

\* The popped thread is not unparked.
DequeueOnly(t) ==
    /\ pc[t] = "dequeue"
    /\ OnList' = [OnList EXCEPT ![w[t].list] = FALSE]
    /\ w' = [w EXCEPT ![t] = NoWord]
    /\ Goto(t, "idle")
    /\ UNCHANGED <<Lock, ListNext, Event, nxt>>

\* A failed swap does not fetch the word again.
PushUnrefreshed(t) ==
    /\ pc[t] = "push"
    /\ ListNext' = IF w[t].bit THEN [ListNext EXCEPT ![t] = w[t].list] ELSE ListNext
    /\ IF Lock = w[t]
       THEN /\ Lock' = [list |-> IF w[t].bit THEN t ELSE w[t].list, bit |-> TRUE]
            /\ w' = [w EXCEPT ![t] = NoWord]
            /\ Goto(t, IF w[t].bit THEN "wait" ELSE "hygiene")
       ELSE UNCHANGED <<Lock, w, pc>>
    /\ UNCHANGED <<OnList, Event, nxt>>

-----------------------------------------------------------------------------
(* muxAcquire() *)

muxAcquire(t) ==
    /\ pc[t] = "idle"
    /\ Goto(t, "spin")
    /\ UNCHANGED <<Lock, ListNext, OnList, Event, w, nxt>>

\* The fast path and the spin phase: they end with the lock ...
Spin(t) ==
    /\ pc[t] = "spin" /\ ~Lock.bit
    /\ Lock' = [list |-> Lock.list, bit |-> TRUE]
    /\ Goto(t, "cs")
    /\ UNCHANGED <<ListNext, OnList, Event, w, nxt>>

\* ... or after so many tries, be it that each was beaten to a free lock.
GiveUp(t) ==
    /\ pc[t] = "spin"
    /\ Goto(t, "enlist")
    /\ UNCHANGED <<Lock, ListNext, OnList, Event, w, nxt>>

\* Self->reset(), Self->OnList = Lock, and the fetch of the word.
Enlist(t) ==
    /\ pc[t] = "enlist"
    /\ Event' = [Event EXCEPT ![t] = FALSE]
    /\ OnList' = [OnList EXCEPT ![t] = TRUE]
    /\ w' = [w EXCEPT ![t] = Lock]
    /\ Goto(t, "push")
    /\ UNCHANGED <<Lock, ListNext, nxt>>

\* One turn of the push loop, which takes the lock if the word was free.
Push(t) ==
    /\ pc[t] = "push"
    /\ ListNext' = IF w[t].bit THEN [ListNext EXCEPT ![t] = w[t].list] ELSE ListNext
    /\ IF Lock = w[t]
       THEN /\ Lock' = [list |-> IF w[t].bit THEN t ELSE w[t].list, bit |-> TRUE]
            /\ w' = [w EXCEPT ![t] = NoWord]
            /\ Goto(t, IF w[t].bit THEN "wait" ELSE "hygiene")
       ELSE /\ w' = [w EXCEPT ![t] = Lock]
            /\ UNCHANGED <<Lock, pc>>
    /\ UNCHANGED <<OnList, Event, nxt>>

Hygiene(t) ==
    /\ pc[t] = "hygiene"
    /\ OnList' = [OnList EXCEPT ![t] = FALSE]
    /\ Goto(t, "cs")
    /\ UNCHANGED <<Lock, ListNext, Event, w, nxt>>

\* while (Self->OnList != 0) Self->park(), then contend again.
Wait(t) ==
    /\ pc[t] = "wait"
    /\ Goto(t, IF OnList[t] THEN "park" ELSE "spin")
    /\ UNCHANGED <<Lock, ListNext, OnList, Event, w, nxt>>

Park(t) ==
    /\ pc[t] = "park" /\ Event[t]
    /\ Event' = [Event EXCEPT ![t] = FALSE]
    /\ Goto(t, "wait")
    /\ UNCHANGED <<Lock, ListNext, OnList, w, nxt>>

-----------------------------------------------------------------------------
(* muxRelease() *)

muxRelease(t) ==
    /\ pc[t] = "cs"
    /\ Goto(t, "release")
    /\ UNCHANGED <<Lock, ListNext, OnList, Event, w, nxt>>

\* CAS(Lock, LOCKBIT, 0), or else the word and the second element are read.
Release(t) ==
    /\ pc[t] = "release"
    /\ IF Lock.list = NULL
       THEN Lock' = NoWord /\ Goto(t, "idle") /\ UNCHANGED <<w, nxt>>
       ELSE /\ w' = [w EXCEPT ![t] = Lock]
            /\ nxt' = [nxt EXCEPT ![t] = ListNext[Lock.list]]
            /\ Goto(t, "pop") /\ UNCHANGED Lock
    /\ UNCHANGED <<ListNext, OnList, Event>>

\* The swap that releases the lock and pops the head, or another attempt.
Pop(t) ==
    /\ pc[t] = "pop"
    /\ IF Lock = w[t]
       THEN Lock' = [list |-> nxt[t], bit |-> FALSE] /\ Goto(t, "dequeue") /\ UNCHANGED w
       ELSE Goto(t, "release") /\ w' = [w EXCEPT ![t] = NoWord] /\ UNCHANGED Lock
    /\ nxt' = [nxt EXCEPT ![t] = NULL]
    /\ UNCHANGED <<ListNext, OnList, Event>>

Dequeue(t) ==
    /\ pc[t] = "dequeue"
    /\ OnList' = [OnList EXCEPT ![w[t].list] = FALSE]
    /\ Goto(t, "unpark")
    /\ UNCHANGED <<Lock, ListNext, Event, w, nxt>>

Unpark(t) ==
    /\ pc[t] = "unpark"
    /\ Event' = [Event EXCEPT ![w[t].list] = TRUE]
    /\ w' = [w EXCEPT ![t] = NoWord]
    /\ Goto(t, "idle")
    /\ UNCHANGED <<Lock, ListNext, OnList, nxt>>

Step(t) ==
    \/ Spin(t) \/ GiveUp(t) \/ Enlist(t) \/ Push(t) \/ Hygiene(t) \/ Wait(t) \/ Park(t)
    \/ muxRelease(t) \/ Release(t) \/ Pop(t) \/ Dequeue(t) \/ Unpark(t)

Next == \E t \in Threads : muxAcquire(t) \/ Step(t)

\* Holders release the lock: it guards short sections only.
Spec == Init /\ [][Next]_vars
FairSpec == Spec /\ \A t \in Threads : WF_vars(Step(t))

-----------------------------------------------------------------------------
TypeOK ==
    /\ Lock \in Word
    /\ ListNext \in [Threads -> Ptr]
    /\ OnList \in [Threads -> BOOLEAN] /\ Event \in [Threads -> BOOLEAN]
    /\ pc \in [Threads -> Held \cup Free]
    /\ w \in [Threads -> Word] /\ nxt \in [Threads -> Ptr]

\* "The LSB of the word is set IFF the lock is held", by one thread.
MutualExclusion ==
    /\ \A t, u \in Threads : pc[t] \in Held /\ pc[u] \in Held => t = u
    /\ Lock.bit <=> \E t \in Threads : pc[t] \in Held

\* The threads on the list that starts at h.
On(h) ==
    LET R[n \in Nat] == IF n = 0 THEN {h} \ {NULL}
                        ELSE R[n-1] \cup ({ListNext[x] : x \in R[n-1]} \ {NULL})
    IN  R[Cardinality(Threads)]

\* "Immune from ABA corruption": the list holds exactly the threads that
\* pushed themselves and were not popped, each with OnList set, and a thread
\* that blocks is on it, or in the hands of the releaser that popped it, or
\* no longer OnList.  What a releaser read of the head is still true when its
\* swap succeeds.
ListIntact ==
    /\ \A t \in On(Lock.list) : OnList[t] /\ pc[t] \in {"wait", "park"}
    /\ \A t \in Threads : pc[t] \in {"wait", "park"} /\ OnList[t]
            => \/ t \in On(Lock.list)
               \/ \E u \in Threads : pc[u] = "dequeue" /\ w[u].list = t
    /\ \A t \in Threads : pc[t] = "pop" /\ Lock = w[t] => nxt[t] = ListNext[w[t].list]

\* No waiter is stranded: while the lock is free and threads are on its list,
\* some thread is on its way to the lock, or one is about to be sent there,
\* and it will release the lock again and pop the next.
SomeoneOnTheWay ==
    ~Lock.bit /\ Lock.list # NULL
        => \E t \in Threads :
              \/ pc[t] \in {"spin", "enlist", "push", "dequeue"}
              \/ pc[t] \in {"wait", "park"} /\ ~OnList[t]

\* A thread popped from the list is awake, or will be.
PoppedIsWoken ==
    \A t \in Threads : pc[t] = "park" /\ ~OnList[t] /\ ~Event[t]
        => \E u \in Threads : pc[u] = "unpark" /\ w[u].list = t

Status(t) ==
    IF pc[t] \in Held THEN "in"
    ELSE IF pc[t] \in {"idle", "dequeue", "unpark"} THEN "out" ELSE "entering"

Abstract == INSTANCE AbstractMonitor
              WITH status <- [t \in Threads |-> Status(t)],
                   TimedWaiters <- {}, Suspendable <- {}

\* muxAcquire and muxRelease are the lock of AbstractMonitor: one holder, and
\* a free lock with contenders is taken by one of them.
ImplementsLock == Abstract!Spec
=============================================================================
