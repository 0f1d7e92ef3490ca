------------------------- MODULE NativeMonitorProofs -------------------------
(***************************************************************************)
(* Mutual exclusion of the lock byte and of the OnDeck inner lock, proved  *)
(* for any set of threads from one inductive invariant, IInv.              *)
(***************************************************************************)
EXTENDS NativeMonitor, TLAPS

\* A thread in the OnDeck_LOOP, or about to clear OnDeck, is the heir: so no
\* other thread finds OnDeck free, and clearing it releases nobody else's lock.
HeirInv == \A t \in Threads : pc[t] \in {"ondeck", "parkD", "clear"} => OnDeck = t

\* The locals of a thread that arranges succession name a thread where the
\* code dereferences them, and the list it is about to pop is not empty.
LocalInv ==
    \A t \in Threads :
        /\ pc[t] \in {"pass", "recheck", "unpark", "nfyCas", "nfyMark"} => w[t] \in Threads
        /\ pc[t] = "wakeOne" => EntryList # NULL
        /\ pc[t] = "detach" => v[t].cxq # NULL /\ LockWord.cxq # NULL
        /\ pc[t] = "attach" => v[t].cxq # NULL

IInv == TypeOK /\ MutualExclusion /\ InnerLock /\ OwnerInside /\ HeirInv /\ LocalInv

\* The initial word of a monitor, as ClearMonitor() writes it, is a free lock
\* with an empty stack.
LEMMA NoWordType == NoWord \in Word /\ NoWord.cxq = NULL /\ NoWord.lbit = FALSE
BY DEF NoWord, Word, Ptr

\* Every return of IUnlock to its caller preserves the invariant.
LEMMA ReturnPreserves ==
    ASSUME IInv, NEW t \in Threads, pc[t] \in Elsewhere, Return(t),
           Event' \in [Threads -> BOOLEAN],
           UNCHANGED <<LockWord, OnDeck, EntryList, WaitSet, WaitLock, owner, ListNext, Notified, ctx>>
    PROVE  IInv'
<1>1. PICK l \in {"wCheck", "suspended", "idle"} : pc' = [pc EXCEPT ![t] = l]
  BY DEF Return, Goto
<1>2. v' = [v EXCEPT ![t] = NoWord] /\ w' = [w EXCEPT ![t] = NULL]
  BY DEF Return
<1>3. TypeOK'
  BY <1>1, <1>2, NoWordType DEF IInv, TypeOK, Ptr, Elsewhere
<1>4. MutualExclusion'
  BY <1>1 DEF IInv, TypeOK, MutualExclusion, Holding, Elsewhere
<1>5. InnerLock'
  BY <1>1 DEF IInv, TypeOK, InnerLock, Arranging, Elsewhere
<1>6. OwnerInside'
  BY <1>1 DEF IInv, TypeOK, OwnerInside, Elsewhere
<1>7. HeirInv'
  BY <1>1 DEF IInv, TypeOK, HeirInv
<1>8. LocalInv'
  BY <1>1, <1>2 DEF IInv, TypeOK, LocalInv
<1> QED
  BY <1>3, <1>4, <1>5, <1>6, <1>7, <1>8 DEF IInv

\* A monitor starts in the invariant.
LEMMA InitIInv == Init => IInv
BY ConstantsAssumption
   DEF Init, IInv, TypeOK, MutualExclusion, InnerLock, OwnerInside, HeirInv,
       LocalInv, NoWord, Word, Ptr, Holding, Arranging, Elsewhere

\* A successful swap finds the lock byte it expects: it takes a free lock or leaves a held one held.
LEMMA AcquireOrPushPreserves == ASSUME IInv, NEW t \in Threads, AcquireOrPush(t) PROVE IInv'
<1> USE NoWordType, ConstantsAssumption DEF IInv, TypeOK
<1>1. CASE LockWord = v[t] /\ v[t].lbit
  <2>1. /\ pc[t] = "aop" /\ pc' = [pc EXCEPT ![t] = "queued"]
        /\ ListNext' = [ListNext EXCEPT ![t] = v[t].cxq]
        /\ LockWord' = [cxq |-> t, lbit |-> TRUE]
        /\ v' = [v EXCEPT ![t] = NoWord]
        /\ UNCHANGED <<OnDeck, EntryList, WaitSet, WaitLock, owner, Notified, Event, ctx,
                       w>>
    BY <1>1 DEF AcquireOrPush, Goto
  <2>2. TypeOK'
    BY <2>1, <1>1 DEF Word, Ptr, Holding, Arranging, Elsewhere
  <2>3. MutualExclusion' /\ OwnerInside'
    BY <2>1, <1>1 DEF MutualExclusion, OwnerInside, Holding, Word
  <2>4. InnerLock' /\ HeirInv'
    BY <2>1, <1>1 DEF InnerLock, HeirInv, Arranging
  <2>5. LocalInv'
    BY <2>1, <1>1 DEF LocalInv, InnerLock, Arranging, Word, Ptr
  <2> QED
    BY <2>2, <2>3, <2>4, <2>5 DEF IInv
<1>2. CASE LockWord = v[t] /\ ~v[t].lbit
  <2>1. /\ pc[t] = "aop" /\ pc' = [pc EXCEPT ![t] = "got"]
        /\ LockWord' = [cxq |-> v[t].cxq, lbit |-> TRUE]
        /\ v' = [v EXCEPT ![t] = NoWord]
        /\ UNCHANGED <<OnDeck, EntryList, WaitSet, WaitLock, owner, ListNext, Notified, Event,
                       ctx, w>>
    BY <1>2 DEF AcquireOrPush, Goto
  <2>2. TypeOK'
    BY <2>1, <1>2 DEF Word, Ptr, Holding, Arranging, Elsewhere
  <2>3. MutualExclusion' /\ OwnerInside'
    BY <2>1, <1>2 DEF MutualExclusion, OwnerInside, Holding, Word
  <2>4. InnerLock' /\ HeirInv'
    BY <2>1, <1>2 DEF InnerLock, HeirInv, Arranging
  <2>5. LocalInv'
    BY <2>1, <1>2 DEF LocalInv, InnerLock, Arranging, Word, Ptr
  <2> QED
    BY <2>2, <2>3, <2>4, <2>5 DEF IInv
<1>3. CASE LockWord # v[t]
  <2>1. /\ pc[t] = "aop" /\ pc' = pc
        /\ ListNext' = IF v[t].lbit THEN [ListNext EXCEPT ![t] = v[t].cxq] ELSE ListNext
        /\ v' = [v EXCEPT ![t] = LockWord]
        /\ UNCHANGED <<LockWord, OnDeck, EntryList, WaitSet, WaitLock, owner, Notified, Event,
                       ctx, w>>
    BY <1>3 DEF AcquireOrPush, Goto
  <2>2. TypeOK'
    BY <2>1, <1>3 DEF Word, Ptr, Holding, Arranging, Elsewhere
  <2>3. MutualExclusion' /\ OwnerInside'
    BY <2>1, <1>3 DEF MutualExclusion, OwnerInside, Holding
  <2>4. InnerLock' /\ HeirInv'
    BY <2>1, <1>3 DEF InnerLock, HeirInv, Arranging
  <2>5. LocalInv'
    BY <2>1, <1>3 DEF LocalInv, InnerLock, Arranging, Word, Ptr
  <2> QED
    BY <2>2, <2>3, <2>4, <2>5 DEF IInv
<1> QED
  BY <1>1, <1>2, <1>3 DEF Ptr

\* IUnlock looking for an heir touches no lock.
LEMMA ReadOnDeckPreserves == ASSUME IInv, NEW t \in Threads, ReadOnDeck(t) PROVE IInv'
<1> USE NoWordType, ConstantsAssumption DEF IInv, TypeOK
<1>1. CASE OnDeck \in Threads
  <2>1. /\ pc[t] = "readOnDeck" /\ pc' = [pc EXCEPT ![t] = "unpark"]
        /\ w' = [w EXCEPT ![t] = OnDeck]
        /\ UNCHANGED <<LockWord, OnDeck, EntryList, WaitSet, WaitLock, owner, ListNext, Notified,
                       Event, ctx, v>>
    BY <1>1 DEF ReadOnDeck, Goto
  <2>2. TypeOK'
    BY <2>1, <1>1 DEF Word, Ptr, Holding, Arranging, Elsewhere
  <2>3. MutualExclusion' /\ OwnerInside'
    BY <2>1, <1>1 DEF MutualExclusion, OwnerInside, Holding
  <2>4. InnerLock' /\ HeirInv'
    BY <2>1, <1>1 DEF InnerLock, HeirInv, Arranging
  <2>5. LocalInv'
    BY <2>1, <1>1 DEF LocalInv, InnerLock, Arranging, Word, Ptr
  <2> QED
    BY <2>2, <2>3, <2>4, <2>5 DEF IInv
<1>2. CASE OnDeck = LBIT
  BY <1>2, ReturnPreserves DEF ReadOnDeck, Elsewhere
<1>3. CASE OnDeck = NULL
  <2>1. /\ pc[t] = "readOnDeck" /\ pc' = [pc EXCEPT ![t] = "readWord"]
        /\ UNCHANGED <<LockWord, OnDeck, EntryList, WaitSet, WaitLock, owner, ListNext, Notified,
                       Event, ctx, v, w>>
    BY <1>3 DEF ReadOnDeck, Goto
  <2>2. TypeOK'
    BY <2>1, <1>3 DEF Word, Ptr, Holding, Arranging, Elsewhere
  <2>3. MutualExclusion' /\ OwnerInside'
    BY <2>1, <1>3 DEF MutualExclusion, OwnerInside, Holding
  <2>4. InnerLock' /\ HeirInv'
    BY <2>1, <1>3 DEF InnerLock, HeirInv, Arranging
  <2>5. LocalInv'
    BY <2>1, <1>3 DEF LocalInv, InnerLock, Arranging, Word, Ptr
  <2> QED
    BY <2>2, <2>3, <2>4, <2>5 DEF IInv
<1> QED
  BY <1>1, <1>2, <1>3 DEF Ptr

\* Nor does its look at the queues.
LEMMA ReadEntryListPreserves == ASSUME IInv, NEW t \in Threads, ReadEntryList(t) PROVE IInv'
<1> USE NoWordType, ConstantsAssumption DEF IInv, TypeOK
<1>1. CASE (v[t].cxq = NULL /\ EntryList = NULL) \/ v[t].lbit
  BY <1>1, ReturnPreserves DEF ReadEntryList, Elsewhere
<1>2. CASE ~((v[t].cxq = NULL /\ EntryList = NULL) \/ v[t].lbit)
  <2>1. /\ pc[t] = "readEntry" /\ pc' = [pc EXCEPT ![t] = "lockDeck"]
        /\ v' = [v EXCEPT ![t] = NoWord]
        /\ UNCHANGED <<LockWord, OnDeck, EntryList, WaitSet, WaitLock, owner, ListNext, Notified,
                       Event, ctx, w>>
    BY <1>2 DEF ReadEntryList, Goto
  <2>2. TypeOK'
    BY <2>1, <1>2 DEF Word, Ptr, Holding, Arranging, Elsewhere
  <2>3. MutualExclusion' /\ OwnerInside'
    BY <2>1, <1>2 DEF MutualExclusion, OwnerInside, Holding
  <2>4. InnerLock' /\ HeirInv'
    BY <2>1, <1>2 DEF InnerLock, HeirInv, Arranging
  <2>5. LocalInv'
    BY <2>1, <1>2 DEF LocalInv, InnerLock, Arranging, Word, Ptr
  <2> QED
    BY <2>2, <2>3, <2>4, <2>5 DEF IInv
<1> QED
  BY <1>1, <1>2 DEF Ptr

\* The inner lock is taken only when it is free.
LEMMA LockOnDeckPreserves == ASSUME IInv, NEW t \in Threads, LockOnDeck(t) PROVE IInv'
<1> USE NoWordType, ConstantsAssumption DEF IInv, TypeOK
<1>1. CASE OnDeck = NULL
  <2>1. /\ pc[t] = "lockDeck" /\ pc' = [pc EXCEPT ![t] = "select"]
        /\ OnDeck' = LBIT
        /\ UNCHANGED <<LockWord, EntryList, WaitSet, WaitLock, owner, ListNext, Notified, Event,
                       ctx, v, w>>
    BY <1>1 DEF LockOnDeck, Goto
  <2>2. TypeOK'
    BY <2>1, <1>1 DEF Word, Ptr, Holding, Arranging, Elsewhere
  <2>3. MutualExclusion' /\ OwnerInside'
    BY <2>1, <1>1 DEF MutualExclusion, OwnerInside, Holding
  <2>4. InnerLock' /\ HeirInv'
    BY <2>1, <1>1 DEF InnerLock, HeirInv, Arranging
  <2>5. LocalInv'
    BY <2>1, <1>1 DEF LocalInv, InnerLock, Arranging, Word, Ptr
  <2> QED
    BY <2>2, <2>3, <2>4, <2>5 DEF IInv
<1>2. CASE OnDeck # NULL
  BY <1>2, ReturnPreserves DEF LockOnDeck, Elsewhere
<1> QED
  BY <1>1, <1>2 DEF Ptr

\* Only the inner lock's holder pops EntryList, so what it saw there stays.
LEMMA SelectPreserves == ASSUME IInv, NEW t \in Threads, Select(t) PROVE IInv'
<1> USE NoWordType, ConstantsAssumption DEF IInv, TypeOK
<1>1. CASE EntryList # NULL
  <2>1. /\ pc[t] = "select" /\ pc' = [pc EXCEPT ![t] = "wakeOne"]
        /\ UNCHANGED <<LockWord, OnDeck, EntryList, WaitSet, WaitLock, owner, ListNext, Notified,
                       Event, ctx, v, w>>
    BY <1>1 DEF Select, Goto
  <2>2. TypeOK'
    BY <2>1, <1>1 DEF Word, Ptr, Holding, Arranging, Elsewhere
  <2>3. MutualExclusion' /\ OwnerInside'
    BY <2>1, <1>1 DEF MutualExclusion, OwnerInside, Holding
  <2>4. InnerLock' /\ HeirInv'
    BY <2>1, <1>1 DEF InnerLock, HeirInv, Arranging
  <2>5. LocalInv'
    BY <2>1, <1>1 DEF LocalInv, InnerLock, Arranging, Word, Ptr
  <2> QED
    BY <2>2, <2>3, <2>4, <2>5 DEF IInv
<1>2. CASE EntryList = NULL /\ LockWord.cxq = NULL
  <2>1. /\ pc[t] = "select" /\ pc' = [pc EXCEPT ![t] = "punt"]
        /\ v' = [v EXCEPT ![t] = NoWord]
        /\ UNCHANGED <<LockWord, OnDeck, EntryList, WaitSet, WaitLock, owner, ListNext, Notified,
                       Event, ctx, w>>
    BY <1>2 DEF Select, Goto
  <2>2. TypeOK'
    BY <2>1, <1>2 DEF Word, Ptr, Holding, Arranging, Elsewhere
  <2>3. MutualExclusion' /\ OwnerInside'
    BY <2>1, <1>2 DEF MutualExclusion, OwnerInside, Holding
  <2>4. InnerLock' /\ HeirInv'
    BY <2>1, <1>2 DEF InnerLock, HeirInv, Arranging
  <2>5. LocalInv'
    BY <2>1, <1>2 DEF LocalInv, InnerLock, Arranging, Word, Ptr
  <2> QED
    BY <2>2, <2>3, <2>4, <2>5 DEF IInv
<1>3. CASE EntryList = NULL /\ LockWord.cxq # NULL
  <2>1. /\ pc[t] = "select" /\ pc' = [pc EXCEPT ![t] = "detach"]
        /\ v' = [v EXCEPT ![t] = LockWord]
        /\ UNCHANGED <<LockWord, OnDeck, EntryList, WaitSet, WaitLock, owner, ListNext, Notified,
                       Event, ctx, w>>
    BY <1>3 DEF Select, Goto
  <2>2. TypeOK'
    BY <2>1, <1>3 DEF Word, Ptr, Holding, Arranging, Elsewhere
  <2>3. MutualExclusion' /\ OwnerInside'
    BY <2>1, <1>3 DEF MutualExclusion, OwnerInside, Holding
  <2>4. InnerLock' /\ HeirInv'
    BY <2>1, <1>3 DEF InnerLock, HeirInv, Arranging
  <2>5. LocalInv'
    BY <2>1, <1>3 DEF LocalInv, InnerLock, Arranging, Word, Ptr
  <2> QED
    BY <2>2, <2>3, <2>4, <2>5 DEF IInv
<1> QED
  BY <1>1, <1>2, <1>3 DEF Ptr

\* Detaching cxq needs a free lock byte and leaves it free.
LEMMA DetachPreserves == ASSUME IInv, NEW t \in Threads, Detach(t) PROVE IInv'
<1> USE NoWordType, ConstantsAssumption DEF IInv, TypeOK
<1>1. CASE v[t].lbit
  <2>1. /\ pc[t] = "detach" /\ pc' = [pc EXCEPT ![t] = "punt"]
        /\ v' = [v EXCEPT ![t] = NoWord]
        /\ UNCHANGED <<LockWord, OnDeck, EntryList, WaitSet, WaitLock, owner, ListNext, Notified,
                       Event, ctx, w>>
    BY <1>1 DEF Detach, Goto
  <2>2. TypeOK'
    BY <2>1, <1>1 DEF Word, Ptr, Holding, Arranging, Elsewhere
  <2>3. MutualExclusion' /\ OwnerInside'
    BY <2>1, <1>1 DEF MutualExclusion, OwnerInside, Holding
  <2>4. InnerLock' /\ HeirInv'
    BY <2>1, <1>1 DEF InnerLock, HeirInv, Arranging
  <2>5. LocalInv'
    BY <2>1, <1>1 DEF LocalInv, InnerLock, Arranging, Word, Ptr
  <2> QED
    BY <2>2, <2>3, <2>4, <2>5 DEF IInv
<1>2. CASE ~v[t].lbit /\ LockWord = v[t]
  <2>1. /\ pc[t] = "detach" /\ pc' = [pc EXCEPT ![t] = "attach"]
        /\ LockWord' = NoWord
        /\ UNCHANGED <<OnDeck, EntryList, WaitSet, WaitLock, owner, ListNext, Notified, Event,
                       ctx, v, w>>
    BY <1>2 DEF Detach, Goto
  <2>2. TypeOK'
    BY <2>1, <1>2 DEF Word, Ptr, Holding, Arranging, Elsewhere
  <2>3. MutualExclusion' /\ OwnerInside'
    BY <2>1, <1>2 DEF MutualExclusion, OwnerInside, Holding, Word
  <2>4. InnerLock' /\ HeirInv'
    BY <2>1, <1>2 DEF InnerLock, HeirInv, Arranging
  <2>5. LocalInv'
    BY <2>1, <1>2 DEF LocalInv, InnerLock, Arranging, Word, Ptr
  <2> QED
    BY <2>2, <2>3, <2>4, <2>5 DEF IInv
<1>3. CASE ~v[t].lbit /\ LockWord # v[t]
  <2>1. /\ pc[t] = "detach" /\ pc' = pc
        /\ v' = [v EXCEPT ![t] = LockWord]
        /\ UNCHANGED <<LockWord, OnDeck, EntryList, WaitSet, WaitLock, owner, ListNext, Notified,
                       Event, ctx, w>>
    BY <1>3 DEF Detach, Goto
  <2>2. TypeOK'
    BY <2>1, <1>3 DEF Word, Ptr, Holding, Arranging, Elsewhere
  <2>3. MutualExclusion' /\ OwnerInside'
    BY <2>1, <1>3 DEF MutualExclusion, OwnerInside, Holding
  <2>4. InnerLock' /\ HeirInv'
    BY <2>1, <1>3 DEF InnerLock, HeirInv, Arranging
  <2>5. LocalInv'
    BY <2>1, <1>3 DEF LocalInv, InnerLock, Arranging, Word, Ptr
  <2> QED
    BY <2>2, <2>3, <2>4, <2>5 DEF IInv
<1> QED
  BY <1>1, <1>2, <1>3 DEF Ptr

\* Leaving the wakeup to a new owner touches no lock.
LEMMA RecheckPreserves == ASSUME IInv, NEW t \in Threads, Recheck(t) PROVE IInv'
<1> USE NoWordType, ConstantsAssumption DEF IInv, TypeOK
<1>1. CASE LockWord.lbit
  BY <1>1, ReturnPreserves DEF Recheck, Elsewhere
<1>2. CASE ~LockWord.lbit
  <2>1. /\ pc[t] = "recheck" /\ pc' = [pc EXCEPT ![t] = "unpark"]
        /\ UNCHANGED <<LockWord, OnDeck, EntryList, WaitSet, WaitLock, owner, ListNext, Notified,
                       Event, ctx, v, w>>
    BY <1>2 DEF Recheck, Goto
  <2>2. TypeOK'
    BY <2>1, <1>2 DEF Word, Ptr, Holding, Arranging, Elsewhere
  <2>3. MutualExclusion' /\ OwnerInside'
    BY <2>1, <1>2 DEF MutualExclusion, OwnerInside, Holding
  <2>4. InnerLock' /\ HeirInv'
    BY <2>1, <1>2 DEF InnerLock, HeirInv, Arranging
  <2>5. LocalInv'
    BY <2>1, <1>2 DEF LocalInv, InnerLock, Arranging, Word, Ptr
  <2> QED
    BY <2>2, <2>3, <2>4, <2>5 DEF IInv
<1> QED
  BY <1>1, <1>2 DEF Ptr

\* Looking again after Punt touches no lock.
LEMMA ResamplePreserves == ASSUME IInv, NEW t \in Threads, Resample(t) PROVE IInv'
<1> USE NoWordType, ConstantsAssumption DEF IInv, TypeOK
<1>1. CASE LockWord.cxq # NULL /\ ~LockWord.lbit
  <2>1. /\ pc[t] = "resample" /\ pc' = [pc EXCEPT ![t] = "lockDeck"]
        /\ UNCHANGED <<LockWord, OnDeck, EntryList, WaitSet, WaitLock, owner, ListNext, Notified,
                       Event, ctx, v, w>>
    BY <1>1 DEF Resample, Goto
  <2>2. TypeOK'
    BY <2>1, <1>1 DEF Word, Ptr, Holding, Arranging, Elsewhere
  <2>3. MutualExclusion' /\ OwnerInside'
    BY <2>1, <1>1 DEF MutualExclusion, OwnerInside, Holding
  <2>4. InnerLock' /\ HeirInv'
    BY <2>1, <1>1 DEF InnerLock, HeirInv, Arranging
  <2>5. LocalInv'
    BY <2>1, <1>1 DEF LocalInv, InnerLock, Arranging, Word, Ptr
  <2> QED
    BY <2>2, <2>3, <2>4, <2>5 DEF IInv
<1>2. CASE ~(LockWord.cxq # NULL /\ ~LockWord.lbit)
  BY <1>2, ReturnPreserves DEF Resample, Elsewhere
<1> QED
  BY <1>1, <1>2 DEF Ptr

\* notify() takes an element that exists.
LEMMA NotifyUnlinkPreserves == ASSUME IInv, NEW t \in Threads, NotifyUnlink(t) PROVE IInv'
<1> USE NoWordType, ConstantsAssumption DEF IInv, TypeOK
<1>1. CASE WaitSet # NULL
  <2>1. /\ pc[t] = "nfyAcq" /\ pc' = [pc EXCEPT ![t] = "nfyCas"]
        /\ WaitLock' = t
        /\ w' = [w EXCEPT ![t] = WaitSet]
        /\ WaitSet' = ListNext[WaitSet]
        /\ v' = [v EXCEPT ![t] = LockWord]
        /\ UNCHANGED <<LockWord, OnDeck, EntryList, owner, ListNext, Notified, Event, ctx>>
    BY <1>1 DEF NotifyUnlink, NotifyReturn, Goto
  <2>2. TypeOK'
    BY <2>1, <1>1 DEF Word, Ptr, Holding, Arranging, Elsewhere, LocalInv
  <2>3. MutualExclusion' /\ OwnerInside'
    BY <2>1, <1>1 DEF MutualExclusion, OwnerInside, Holding
  <2>4. InnerLock' /\ HeirInv'
    BY <2>1, <1>1 DEF InnerLock, HeirInv, Arranging
  <2>5. LocalInv'
    BY <2>1, <1>1 DEF LocalInv, InnerLock, Arranging, Word, Ptr
  <2> QED
    BY <2>2, <2>3, <2>4, <2>5 DEF IInv
<1>2. CASE WaitSet = NULL /\ ctx[t] = "all"
  <2>1. /\ pc[t] = "nfyAcq" /\ pc' = [pc EXCEPT ![t] = "cs"]
        /\ ctx' = [ctx EXCEPT ![t] = "lock"]
        /\ UNCHANGED <<LockWord, OnDeck, EntryList, WaitSet, WaitLock, owner, ListNext, Notified,
                       Event, v, w>>
    BY <1>2 DEF NotifyUnlink, NotifyReturn, Goto
  <2>2. TypeOK'
    BY <2>1, <1>2 DEF Word, Ptr, Holding, Arranging, Elsewhere, LocalInv
  <2>3. MutualExclusion' /\ OwnerInside'
    BY <2>1, <1>2 DEF MutualExclusion, OwnerInside, Holding
  <2>4. InnerLock' /\ HeirInv'
    BY <2>1, <1>2 DEF InnerLock, HeirInv, Arranging
  <2>5. LocalInv'
    BY <2>1, <1>2 DEF LocalInv, InnerLock, Arranging, Word, Ptr
  <2> QED
    BY <2>2, <2>3, <2>4, <2>5 DEF IInv
<1>3. CASE WaitSet = NULL /\ ctx[t] # "all"
  <2>1. /\ pc[t] = "nfyAcq" /\ pc' = [pc EXCEPT ![t] = "cs"]
        /\ ctx' = [ctx EXCEPT ![t] = "lock"]
        /\ UNCHANGED <<LockWord, OnDeck, EntryList, WaitSet, WaitLock, owner, ListNext, Notified,
                       Event, v, w>>
    BY <1>3 DEF NotifyUnlink, NotifyReturn, Goto
  <2>2. TypeOK'
    BY <2>1, <1>3 DEF Word, Ptr, Holding, Arranging, Elsewhere, LocalInv
  <2>3. MutualExclusion' /\ OwnerInside'
    BY <2>1, <1>3 DEF MutualExclusion, OwnerInside, Holding
  <2>4. InnerLock' /\ HeirInv'
    BY <2>1, <1>3 DEF InnerLock, HeirInv, Arranging
  <2>5. LocalInv'
    BY <2>1, <1>3 DEF LocalInv, InnerLock, Arranging, Word, Ptr
  <2> QED
    BY <2>2, <2>3, <2>4, <2>5 DEF IInv
<1> QED
  BY <1>1, <1>2, <1>3 DEF Ptr

\* notify() pushes its element with the lock byte still set.
LEMMA NotifyPushPreserves == ASSUME IInv, NEW t \in Threads, NotifyPush(t) PROVE IInv'
<1> USE NoWordType, ConstantsAssumption DEF IInv, TypeOK
<1>1. CASE LockWord = v[t]
  <2>1. /\ pc[t] = "nfyCas" /\ pc' = [pc EXCEPT ![t] = "nfyMark"]
        /\ ListNext' = [ListNext EXCEPT ![w[t]] = v[t].cxq]
        /\ LockWord' = [cxq |-> w[t], lbit |-> TRUE]
        /\ v' = [v EXCEPT ![t] = NoWord]
        /\ UNCHANGED <<OnDeck, EntryList, WaitSet, WaitLock, owner, Notified, Event, ctx,
                       w>>
    BY <1>1 DEF NotifyPush, Goto
  <2>2. TypeOK'
    BY <2>1, <1>1 DEF Word, Ptr, Holding, Arranging, Elsewhere, LocalInv
  <2>3. MutualExclusion' /\ OwnerInside'
    BY <2>1, <1>1 DEF MutualExclusion, OwnerInside, Holding, Word
  <2>4. InnerLock' /\ HeirInv'
    BY <2>1, <1>1 DEF InnerLock, HeirInv, Arranging
  <2>5. LocalInv'
    BY <2>1, <1>1 DEF LocalInv, InnerLock, Arranging, Word, Ptr
  <2> QED
    BY <2>2, <2>3, <2>4, <2>5 DEF IInv
<1>2. CASE LockWord # v[t]
  <2>1. /\ pc[t] = "nfyCas" /\ pc' = pc
        /\ ListNext' = [ListNext EXCEPT ![w[t]] = v[t].cxq]
        /\ v' = [v EXCEPT ![t] = LockWord]
        /\ UNCHANGED <<LockWord, OnDeck, EntryList, WaitSet, WaitLock, owner, Notified, Event,
                       ctx, w>>
    BY <1>2 DEF NotifyPush, Goto
  <2>2. TypeOK'
    BY <2>1, <1>2 DEF Word, Ptr, Holding, Arranging, Elsewhere, LocalInv
  <2>3. MutualExclusion' /\ OwnerInside'
    BY <2>1, <1>2 DEF MutualExclusion, OwnerInside, Holding
  <2>4. InnerLock' /\ HeirInv'
    BY <2>1, <1>2 DEF InnerLock, HeirInv, Arranging
  <2>5. LocalInv'
    BY <2>1, <1>2 DEF LocalInv, InnerLock, Arranging, Word, Ptr
  <2> QED
    BY <2>2, <2>3, <2>4, <2>5 DEF IInv
<1> QED
  BY <1>1, <1>2 DEF Ptr

\* A timed-out waiter leaves the wait set without touching either lock.
LEMMA WaitRemovePreserves == ASSUME IInv, NEW t \in Threads, WaitRemove(t) PROVE IInv'
<1> USE NoWordType, ConstantsAssumption DEF IInv, TypeOK
<1>1. CASE Notified[t]
  <2>1. /\ pc[t] = "wRemove" /\ pc' = [pc EXCEPT ![t] = "queued"]
        /\ UNCHANGED <<LockWord, OnDeck, EntryList, WaitSet, WaitLock, owner, ListNext, Notified,
                       Event, ctx, v, w>>
    BY <1>1 DEF WaitRemove, Goto
  <2>2. TypeOK'
    BY <2>1, <1>1 DEF Word, Ptr, Holding, Arranging, Elsewhere
  <2>3. MutualExclusion' /\ OwnerInside'
    BY <2>1, <1>1 DEF MutualExclusion, OwnerInside, Holding
  <2>4. InnerLock' /\ HeirInv'
    BY <2>1, <1>1 DEF InnerLock, HeirInv, Arranging
  <2>5. LocalInv'
    BY <2>1, <1>1 DEF LocalInv, InnerLock, Arranging, Word, Ptr
  <2> QED
    BY <2>2, <2>3, <2>4, <2>5 DEF IInv
<1>2. CASE ~Notified[t] /\ WaitSet = t
  <2>1. /\ pc[t] = "wRemove" /\ pc' = [pc EXCEPT ![t] = "try"]
        /\ WaitSet' = ListNext[t] /\ ctx' = [ctx EXCEPT ![t] = "timeout"]
        /\ UNCHANGED <<LockWord, OnDeck, EntryList, WaitLock, owner, ListNext, Notified, Event,
                       v, w>>
    BY <1>2 DEF WaitRemove, Goto
  <2>2. TypeOK'
    BY <2>1, <1>2 DEF Word, Ptr, Holding, Arranging, Elsewhere, InWait
  <2>3. MutualExclusion' /\ OwnerInside'
    BY <2>1, <1>2 DEF MutualExclusion, OwnerInside, Holding
  <2>4. InnerLock' /\ HeirInv'
    BY <2>1, <1>2 DEF InnerLock, HeirInv, Arranging
  <2>5. LocalInv'
    BY <2>1, <1>2 DEF LocalInv, InnerLock, Arranging, Word, Ptr
  <2> QED
    BY <2>2, <2>3, <2>4, <2>5 DEF IInv
<1>3. CASE ~Notified[t] /\ WaitSet # t
  <2>1. /\ pc[t] = "wRemove" /\ pc' = [pc EXCEPT ![t] = "try"]
        /\ ListNext' = [q \in Threads |->
                            IF q \in On(WaitSet) /\ ListNext[q] = t THEN ListNext[t] ELSE ListNext[q]]
        /\ ctx' = [ctx EXCEPT ![t] = "timeout"]
        /\ UNCHANGED <<LockWord, OnDeck, EntryList, WaitSet, WaitLock, owner, Notified, Event,
                       v, w>>
    BY <1>3 DEF WaitRemove, Goto
  <2>2. TypeOK'
    BY <2>1, <1>3 DEF Word, Ptr, Holding, Arranging, Elsewhere, InWait
  <2>3. MutualExclusion' /\ OwnerInside'
    BY <2>1, <1>3 DEF MutualExclusion, OwnerInside, Holding
  <2>4. InnerLock' /\ HeirInv'
    BY <2>1, <1>3 DEF InnerLock, HeirInv, Arranging
  <2>5. LocalInv'
    BY <2>1, <1>3 DEF LocalInv, InnerLock, Arranging, Word, Ptr
  <2> QED
    BY <2>2, <2>3, <2>4, <2>5 DEF IInv
<1> QED
  BY <1>1, <1>2, <1>3 DEF Ptr

\* Every step of every thread preserves the invariant.
LEMMA NextIInv == IInv /\ [Next]_vars => IInv'
<1> SUFFICES ASSUME IInv, [Next]_vars PROVE IInv'
  OBVIOUS
<1> USE ConstantsAssumption
        DEF IInv, TypeOK, MutualExclusion, InnerLock, OwnerInside, HeirInv, LocalInv,
            NoWord, Word, Ptr, Holding, Arranging, Elsewhere, Goto, WithByte
<1>1. ASSUME NEW t \in Threads, lock(t) PROVE IInv'
  BY <1>1 DEF lock
<1>2. ASSUME NEW t \in Threads, try_lock(t) PROVE IInv'
  BY <1>2 DEF try_lock
<1>3. ASSUME NEW t \in Threads, unlock(t) PROVE IInv'
  BY <1>3 DEF unlock
<1>4. ASSUME NEW t \in Threads, notify(t) PROVE IInv'
  BY <1>4 DEF notify
<1>5. ASSUME NEW t \in Threads, notify_all(t) PROVE IInv'
  BY <1>5 DEF notify_all
<1>6. ASSUME NEW t \in Threads, wait(t) PROVE IInv'
  BY <1>6 DEF wait, InWait
<1>7. ASSUME NEW t \in Threads, TryFast(t) PROVE IInv'
  BY <1>7 DEF TryFast
<1>8. ASSUME NEW t \in Threads, Reset(t) PROVE IInv'
  BY <1>8 DEF Reset
<1>9. ASSUME NEW t \in Threads, AcquireOrPush(t) PROVE IInv'
  BY <1>9, AcquireOrPushPreserves
<1>10. ASSUME NEW t \in Threads, AwaitOnDeck(t) PROVE IInv'
  BY <1>10 DEF AwaitOnDeck
<1>11. ASSUME NEW t \in Threads, OnDeckSpin(t) PROVE IInv'
  BY <1>11 DEF OnDeckSpin
<1>12. ASSUME NEW t \in Threads, Park(t) PROVE IInv'
  BY <1>12 DEF Park
<1>13. ASSUME NEW t \in Threads, ClearOnDeck(t) PROVE IInv'
  BY <1>13 DEF ClearOnDeck
<1>14. ASSUME NEW t \in Threads, set_owner(t) PROVE IInv'
  BY <1>14 DEF set_owner
<1>15. ASSUME NEW t \in Threads, DropLock(t) PROVE IInv'
  BY <1>15 DEF DropLock
<1>16. ASSUME NEW t \in Threads, ReadOnDeck(t) PROVE IInv'
  BY <1>16, ReadOnDeckPreserves
<1>17. ASSUME NEW t \in Threads, Unpark(t) PROVE IInv'
  BY <1>17, ReturnPreserves DEF Unpark
<1>18. ASSUME NEW t \in Threads, ReadWord(t) PROVE IInv'
  BY <1>18 DEF ReadWord
<1>19. ASSUME NEW t \in Threads, ReadEntryList(t) PROVE IInv'
  BY <1>19, ReadEntryListPreserves
<1>20. ASSUME NEW t \in Threads, LockOnDeck(t) PROVE IInv'
  BY <1>20, LockOnDeckPreserves
<1>21. ASSUME NEW t \in Threads, Select(t) PROVE IInv'
  BY <1>21, SelectPreserves
<1>22. ASSUME NEW t \in Threads, Detach(t) PROVE IInv'
  BY <1>22, DetachPreserves
<1>23. ASSUME NEW t \in Threads, Attach(t) PROVE IInv'
  BY <1>23 DEF Attach
<1>24. ASSUME NEW t \in Threads, WakeOne(t) PROVE IInv'
  BY <1>24 DEF WakeOne
<1>25. ASSUME NEW t \in Threads, PassOnDeck(t) PROVE IInv'
  BY <1>25 DEF PassOnDeck
<1>26. ASSUME NEW t \in Threads, Recheck(t) PROVE IInv'
  BY <1>26, RecheckPreserves
<1>27. ASSUME NEW t \in Threads, Punt(t) PROVE IInv'
  BY <1>27 DEF Punt
<1>28. ASSUME NEW t \in Threads, Resample(t) PROVE IInv'
  BY <1>28, ResamplePreserves
<1>29. ASSUME NEW t \in Threads, NotifyUnlink(t) PROVE IInv'
  BY <1>29, NotifyUnlinkPreserves
<1>30. ASSUME NEW t \in Threads, NotifyPush(t) PROVE IInv'
  BY <1>30, NotifyPushPreserves
<1>31. ASSUME NEW t \in Threads, NotifyMark(t) PROVE IInv'
  BY <1>31 DEF NotifyMark, NotifyReturn
<1>32. ASSUME NEW t \in Threads, WaitReset(t) PROVE IInv'
  BY <1>32 DEF WaitReset
<1>33. ASSUME NEW t \in Threads, WaitEnqueue(t) PROVE IInv'
  BY <1>33 DEF WaitEnqueue
<1>34. ASSUME NEW t \in Threads, WaitCheck(t) PROVE IInv'
  BY <1>34 DEF WaitCheck
<1>35. ASSUME NEW t \in Threads, WaitTimeout(t) PROVE IInv'
  BY <1>35 DEF WaitTimeout
<1>36. ASSUME NEW t \in Threads, WaitRecheck(t) PROVE IInv'
  BY <1>36 DEF WaitRecheck
<1>37. ASSUME NEW t \in Threads, WaitRemove(t) PROVE IInv'
  BY <1>37, WaitRemovePreserves
<1>38. ASSUME NEW t \in Threads, SuspendSelf(t) PROVE IInv'
  BY <1>38 DEF SuspendSelf, InWait, Suspending
<1>39. ASSUME NEW t \in Threads, Resume(t) PROVE IInv'
  BY <1>39 DEF Resume
<1>40. CASE UNCHANGED vars
  BY <1>40 DEF vars
<1> QED
  BY <1>1, <1>2, <1>3, <1>4, <1>5, <1>6, <1>7, <1>8, <1>9, <1>10, <1>11, <1>12,
     <1>13, <1>14, <1>15, <1>16, <1>17, <1>18, <1>19, <1>20, <1>21, <1>22,
     <1>23, <1>24, <1>25, <1>26, <1>27, <1>28, <1>29, <1>30, <1>31, <1>32,
     <1>33, <1>34, <1>35, <1>36, <1>37, <1>38, <1>39, <1>40
     DEF Next, Step, Call

\* IInv holds in every state of the monitor.
THEOREM Invariant == Spec => []IInv
BY InitIInv, NextIInv, PTL DEF Spec

\* The monitor's state stays well formed: in particular IUnlock never pops an
\* empty EntryList and notify() never dereferences a null element.
THEOREM TypeCorrect == Spec => []TypeOK
BY Invariant, PTL DEF IInv

\* For any set of threads at most one holds the lock byte, and the byte is set
\* exactly while one does.
THEOREM MonitorExcludes == Spec => []MutualExclusion
BY Invariant, PTL DEF IInv

\* For any set of threads at most one exiting thread rearranges the queues.
THEOREM InnerLockExcludes == Spec => []InnerLock
BY Invariant, PTL DEF IInv

\* _owner names the thread inside whenever there is one, and is NULL when
\* lock() and wait() assert that it is.
THEOREM OwnerCorrect == Spec => []OwnerInside
BY Invariant, PTL DEF IInv

\* The heir stays OnDeck until it has acquired the lock itself.
THEOREM HeirStaysOnDeck == Spec => HeirStays
<1>1. IInv /\ [Next]_vars
        => [OnDeck' # OnDeck /\ OnDeck \in Threads
              => LockWord.lbit /\ pc[OnDeck] = "clear" /\ OnDeck' = NULL]_vars
  <2> SUFFICES ASSUME IInv, [Next]_vars, OnDeck' # OnDeck, OnDeck \in Threads
               PROVE  LockWord.lbit /\ pc[OnDeck] = "clear" /\ OnDeck' = NULL
    OBVIOUS
  <2>1. PICK t \in Threads : ClearOnDeck(t) \/ LockOnDeck(t) \/ PassOnDeck(t) \/ Punt(t)
    BY DEF Next, Step, Call, vars, lock, try_lock, unlock, notify, notify_all, wait, TryFast,
           Reset, AcquireOrPush, AwaitOnDeck, OnDeckSpin, Park, set_owner, DropLock,
           ReadOnDeck, Unpark, ReadWord, ReadEntryList, Select, Detach, Attach, WakeOne,
           Recheck, Resample, NotifyUnlink, NotifyPush, NotifyMark, WaitReset, WaitEnqueue,
           WaitCheck, WaitTimeout, WaitRecheck, WaitRemove, SuspendSelf, Resume
  <2>2. CASE ClearOnDeck(t)
    BY <2>2 DEF ClearOnDeck, IInv, HeirInv, MutualExclusion, Holding
  <2>3. CASE LockOnDeck(t)
    BY <2>3, ConstantsAssumption DEF LockOnDeck
  <2>4. CASE PassOnDeck(t) \/ Punt(t)
    BY <2>4, ConstantsAssumption DEF PassOnDeck, Punt, IInv, InnerLock, Arranging
  <2> QED
    BY <2>1, <2>2, <2>3, <2>4
<1> QED
  BY <1>1, Invariant, PTL DEF Spec, HeirStays
=============================================================================
