# Synchronization and safepoints of the HotSpot VM in TLA+

This directory specifies the part of the virtual machine that everything else
stands on: the native locks, the events threads park on, the protocol that stops
all Java threads, and the components that use them to run VM operations and
garbage collections. The models are translated from the C++ sources, checked with
TLC on small instances, and for two components proved with TLAPS for any number
of threads.

## The system and what is modelled

The repository is a JDK 8 HotSpot VM with the JVM compiler interface: about
1,500 files and 800,000 lines under `src/src/share/vm`, with the processor and
operating system layers beside it, the JVMCI Java modules in `src/jvmci`, and
the serviceability agent in `src/agent`.

| Part | Where (`src/src/share/vm` unless said) | Size | Module |
|---|---|---|---|
| Native locks (`Monitor`, `Mutex`) | `runtime/mutex.cpp` | 1.4k lines | `NativeMonitor`, `AbstractMonitor`, proofs |
| Park events | `src/src/os/linux/vm/os_linux.cpp` | | `PlatformEvent`, `ParkPermit` |
| Mux locks | `runtime/thread.cpp` | | `MuxLock` |
| Safepoints, thread states, suspension | `runtime/safepoint.cpp`, `interfaceSupport.hpp`, `thread.cpp` | 1.4k + | `Safepoint`, `StopTheWorld` |
| VM operations | `runtime/vmThread.cpp` | 0.7k | `VMThread` |
| Suspendible GC threads | `gc_implementation/shared/suspendibleThreadSet.cpp` | 0.1k | `SuspendibleThreadSet`, proofs |
| GC locker and collection requests | `memory/gcLocker.cpp`, `collectorPolicy.cpp`, `vmGCOperations.cpp` | | `GCLocker` |
| Java monitors, biased locking, `Parker` | `runtime/` | 149 files, 75k in all | planned |
| Compile broker, JVMCI runtime | `compiler/`, `jvmci/` | 38 files, 21k | planned |
| nmethods, inline caches, sweeper | `code/`, `runtime/sweeper.cpp` | 36 files, 18k | planned |
| Work gangs, task queues | `utilities/` | 89 files, 25k | planned |
| G1, CMS, ParallelScavenge | `gc_implementation/` | 286 files, 102k | queue sets and tokens planned |
| Class loading and initialisation | `classfile/`, `oops/` | 116 files, 68k | planned in part |
| C1, C2, compiler interface, Shark, ADLC, assemblers | `c1/`, `opto/`, `ci/`, `shark/`, `adlc/`, `asm/` | 303 files, 221k | no: sequential compilers |
| Heap and generations | `memory/` | 96 files, 37k | no: dominated by data |
| Interpreter, JNI, JVMTI, services, flight recorder | `interpreter/`, `prims/`, `services/`, `jfr/` | 366 files, 114k | no: entry points, generated code and I/O |

`PROJECT.json` lists the same parts with the reason for each that is left out,
the source lines of every definition, and the hazards the properties answer.

How the parts meet: a thread that blocks in a `Monitor` parks on its
`PlatformEvent`; the wait set of a `Monitor` is guarded by a mux lock, which parks
on another event of the thread. `VMThread` begins and ends safepoints, which
`Safepoint` describes in full; a safepoint hands the number of JNI critical
regions to `GC_locker`, and concurrent GC threads are stopped with it through
`SuspendibleThreadSet`. The modules compose by abstraction: each upper one uses
what the lower one is shown to promise.

* A park in `NativeMonitor` and `MuxLock` takes a permit (the variable `Event`),
  as `ParkPermit` says; `PlatformEvent` implements `ParkPermit`.
* `Safepoint`, `VMThread`, `GCLocker` and `SuspendibleThreadSet` treat what
  happens under a `Monitor` as a step and its wait set as a set, as
  `AbstractMonitor` says; `NativeMonitor` implements `AbstractMonitor`. `MuxLock`
  implements the lock of `AbstractMonitor`.
* `VMThread` and `GCLocker` begin and end a safepoint in a step, as
  `StopTheWorld` says; `Safepoint` implements `StopTheWorld`, and
  `SuspendibleThreadSet` implements it for its own members.

## The modules

**NativeMonitor.** The lock word with its contention stack (`cxq`) and lock byte,
`OnDeck`, `EntryList`, the wait set and its mux lock, and per thread the list link,
the `Notified` flag, the event and the locals of the call. One action per access
to shared memory, in the order of the code: `lock`, `TryFast`, `Reset`,
`AcquireOrPush` and the two park loops are `ILock`; `DropLock` to `Resample` are
`IUnlock` with each of its early returns; `notify`, `NotifyUnlink`, `NotifyPush`,
`NotifyMark` are a notification, which happens under the wait lock;
`wait` to `WaitRemove` are `IWait`, with the timeout a separate action that may
come at any moment of the park, and `SuspendSelf`, `Resume` the suspension at the
end of `Monitor::wait`. `ctx` is the caller, and in a wait also what it will report. `MCNativeMonitorCalls` bounds the calls of each thread.

**PlatformEvent.** `_Event`, `_nParked`, the mutex and the condition variable, for
one owner that parks, with or without a timeout, tries to park or resets, and
others that unpark. `pthread_cond_wait` returns when signalled or for no reason.
`signalUnderMutex` is the flag `WorkAroundNPTLTimedWaitHang`; it is fixed at the start and both
values are initial states.

**MuxLock.** The lock word (list and bit), `OnList`, `ListNext` and the event of
each thread; spinning is a choice to try again or give up.

**Safepoint.** `view[t]` holds the values of a thread's `_thread_state` from the one in memory
to the last one stored, so a store may be delayed; a fence waits until the buffer
is empty, a locked operation empties it, and without `UseMembar` the serialize
page empties all buffers. Threads move between Java, the VM, native code and
blocking by `transition_from_java`, `transition`, `Fence`, `Check`, `StoreTo`, trap at
polls, block and call back; others suspend and resume them; they enter and leave
the thread list and JNI critical regions. The VM thread runs `begin()` from
`begin` to `WaitToBlock`, reading a thread's state in one step and its suspension
in the next, and `end()` in three steps.

**VMThread.** The two queues with the counter of `remove_next()`, the drained list,
current and outer operation, whether the world is stopped, and for each caller
`lead`, the completions minus the tickets. Operations are pairs of caller and mode.
The waits on `_terminate_lock` are represented by `terminated`.

**SuspendibleThreadSet.** The flag, the two counters, the wait set of `STS_lock`,
a location per thread. Everything but the first test of `yield()` is under the lock.

**GCLocker.** The count, `_needs_gc`, `_doing_gc`, `_total_collections`, the nesting of each thread,
and of the heap's count of collections only which copies of it are still right, since copies are
compared for equality and nothing else; so a run needs no bound on collections. A collection as a VM
operation is skipped (`skip_operation`) or evaluated at a safepoint (`doit`), where a
critical region foils it (`check_active_before_gc`) or it is done (`do_collection`).

## The runs

| Run | Instance | Checks |
|---|---|---|
| `monitor_lock` | 3 threads, any number of calls, 0.19M states | exclusion, inner lock, succession, the heir stays |
| `monitor_wait` | 3 threads, one a timed waiter, at most 2 calls, 0.64M | each thread is in exactly one place while it waits |
| `monitor_refines` | 2 threads, timed and suspended waits, unbounded, 31k | owner field, result of `wait()`; implements `AbstractMonitor` with its fairness |
| `park_event` | 1 owner, 2 unparkers, both places of the signal, 972 | implements `ParkPermit`; no lost wakeup |
| `event_comment` | same | a finding, below |
| `mux_lock` | 3 threads, unbounded, 0.20M | exclusion, the list, somebody on the way; implements a lock |
| `safepoint` | 2 threads, buffers of 2, serialize page, 1.9M | nobody runs at a safepoint; counts; nothing moves |
| `safepoint_reached` | 2 threads, fences, 0.26M | implements `StopTheWorld`; a safepoint that was begun is reached |
| `thread_set` | 4 threads, 4,802 | counters, nobody runs, `StopTheWorld`; `synchronize()` returns |
| `gc_locker` | 3 threads, nesting 2, unbounded, 6k | exact count, regions drain, need met; the held-off collection comes, the held-off threads go on |
| `vm_operations` | a Java and another thread, all modes, nesting, 0.36M | an operation is held once while its caller waits; where it is evaluated |
| `vm_operations_live` | 2 Java threads, no safepoint interval, 12k | no operation starves; termination |

`vm_operations_live` has Java threads only, and its result does not extend to callers that a
safepoint does not stop. Such a thread may queue a safepoint operation during every safepoint; the
loop that ends at `vmThread.cpp:550` drains it into the same safepoint, and no code bounds how often,
so `OperationReturns` fails in an instance with one.

`HeldOffEnds` says of every collection that the GC locker holds off that it is over in the end.
`HeldOffGoOn` says of the threads that wait for it - stalled allocations, and threads before their critical
region - that they go on *once no more collections are held off*. Without that condition it does
not hold: a thread that is woken tests `_needs_gc` under `JNICritical_lock`, another allocation
may have had its collection held off by then, and nothing in `stall_until_clear()` or `jni_lock()` bounds how
often. The comment at `gcLocker.hpp:127` warns of as much.

No property states that an individual thread enters a monitor. `ImplementsMonitor` has the fairness
of `AbstractMonitor`: a free monitor goes to some contender, so with finitely many calls each
contender gets it.

Every module states its type invariant as `TypeOK`. Those of `NativeMonitor` and
`SuspendibleThreadSet` are proved. All held on the instances above when
added to their cfg; the runs leave them out and keep the properties that relate the state of several threads.

**The finding.** The comment at `os_linux.cpp:6106` says of an unpark that finds the owner blocked,
`_Event` going from -1 to 1, that it will take two park calls for the owner to block again.
The blocked `park()` stores 0 when it wakes up (line 6021), so the next `park()`
blocks: `event_comment` shows it. The code is right to do so, `ParkPermit` is what it
implements; the comment describes it wrongly.

**Bounds.** `MaxCalls` and `Brief` bound the calls in `monitor_wait`, where three threads with waits
would not finish; three threads are what it takes for an heir, a queue behind it
and an unlocking thread, and the runs without waits need no bound. Two threads in
`Safepoint` give one that is examined while the other runs, blocks, is suspended
or leaves; the interactions go through counts and locks, not from thread to thread. `BufferSize`
2 in `safepoint` lets a whole transition be pending; in `safepoint_reached`, with fences, it is 1. In `GCLocker` `MaxNesting` 2 tells the last level
from the others; the number of collections has no bound.
`MaxQueued` bounds only operations nobody waits for. Deadlock is checked except where callers
have used up their calls and where the VM has exited.

**Fairness.** Threads that can go on are scheduled (weak fairness of their steps).
Beyond that: a caller inside a monitor leaves it; in `Safepoint` a thread in Java reaches a poll, which
compiled loops and the interpreter guarantee, and a thread in the VM leaves it, while native,
blocked and suspended threads need never move; members of the suspendible set yield or leave, as
their loops do; JNI critical regions end, as the JNI specification demands; a caller of
a VM operation runs between safepoints (strong fairness, since safepoints recur). The last is an
assumption about the scheduling of threads: `end()` lets a caller run, but a caller that is still
blocked counts as stopped, and the next `begin()` does not wait for it to have run.

## The proofs

`NativeMonitorProofs` proves, for any set of threads, the types, mutual exclusion, the
exclusion of the inner `OnDeck` lock, the meaning of `_owner` and that an heir stays on deck until it has the lock.
The invariant is `IInv`: these four together with `HeirInv` (whoever spins in the `OnDeck`
loop is the heir) and `LocalInv` (a pointer that the code dereferences is not NULL, and the stack seen
by the holder of the inner lock is not emptied by others). None is inductive alone: an heir clears `OnDeck` by a
store, which is right only because it *is* the heir, and the detach by compare-and-swap keeps the lock
byte only because a thread that unlocks never swings a word whose byte is set. The only assumption is that `NULL` and `LBIT` are no threads.

`SuspendibleThreadSetProofs` proves, for any finite set of threads, that the counters are exact, that
nobody runs between `synchronize()` and `desynchronize()`, that the VM thread never waits for nobody, and that the set
implements `StopTheWorld` step by step. `IInv` adds that the flag is up exactly while the VM thread is between the
calls. The heart is a handful of lemmas on how each step changes the two sets, after which `nthreads_stopped <
nthreads` can be read as "a member still runs".

Only model-checked: every liveness property and the fairness of the refinements, the shape of the queues
(`Succession`, `OnePlace`, which are about reachability along links), and all of
`PlatformEvent`, `MuxLock`, `Safepoint`, `GCLocker` and `VMThread`.

## Not modelled, and what comes next

Within the modelled parts:

* Everywhere: diagnostics and statistics, the other operating systems, memory orders weaker than a store
  buffer. Only `Safepoint` has the store buffer; the memory of the other modules is sequentially consistent.
* `NativeMonitor`: the VM thread sneaking into a monitor at a safepoint; the paths of `NativeMonitorFlags`
  (`mutex.cpp:469`, `705`, `793`) and `NativeMonitorTimeout` (`408-411`), which are off by default.
* `PlatformEvent`: `FilterSpuriousWakeups` off.
* `Safepoint`: lazy critical natives; a native thread whose stack is not walkable yet
  (`safepoint.cpp:690-692`), which `begin()` would keep waiting for; the return from `block()` of a thread that is off
  the thread list (`753-759`); the polling page armed late (`DeferPollingPageLoopCount`, `387-391`); deoptimisation
  and flight recorder suspension in the check on the way back from native code (`thread.cpp:2535-2550`).
* `VMThread`: an operation that its `doit_prologue()` cancels, which is never queued; nesting deeper than one level, and
  the fatal error of a nested operation that is not allowed; `SafepointALot`, a flag of debug builds.
* `GCLocker`: heap inspection, which asks for a collection without asking the locker for one later; how often a stalled
  allocation tries again (`GCLockerRetryAllocationCount`): it may at any time; a copy of the 32-bit collection count that outlives 2^32 collections.

Next, in this order:

1. `ObjectMonitor` and `ObjectSynchronizer`: enter, exit, wait, notify, inflation and deflation; `Parker`.
2. The JNI fast field access with the safepoint counter, and sneaking, on top of `Safepoint`.
3. `WorkGang`, the task queue and the task terminator; the CMS tokens; the SATB and dirty-card queue sets.
4. nmethod states with the sweeper and inline caches; the compile broker with JVMCI; class initialisation and placeholders.
5. Proofs: exclusion of `MuxLock`, the exact count of `GCLocker`, `WaitingCount` of `Safepoint`, `HeldWhileWaiting` of `VMThread`.
