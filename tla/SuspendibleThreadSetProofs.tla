--------------------- MODULE SuspendibleThreadSetProofs ---------------------
(***************************************************************************)
(* For any number of workers: the counters of the set are exact, nobody    *)
(* runs between synchronize() and desynchronize(), the VM thread never     *)
(* waits for nobody, and the set implements StopTheWorld.                  *)
(***************************************************************************)
EXTENDS SuspendibleThreadSet, FiniteSetTheorems, TLAPS

\* The flag is up exactly while the VM thread is between the two calls.
FlagInv == suspend_all <=> vpc # "idle"

IInv == TypeOK /\ Counts /\ AllYielded /\ SomeoneToWaitFor /\ FlagInv

\* The two sets that the counters stand for are finite, one inside the other.
LEMMA SetsFinite ==
    /\ IsFiniteSet(Members) /\ IsFiniteSet(Stopped)
    /\ Stopped \subseteq Members
    /\ Cardinality(Members) \in Nat /\ Cardinality(Stopped) \in Nat
    /\ Cardinality(Stopped) <= Cardinality(Members)
    /\ Cardinality(Stopped) = Cardinality(Members) => Stopped = Members
<1>1. Members \in SUBSET Workers /\ Stopped \in SUBSET Members
  BY DEF Members, Stopped
<1>2. IsFiniteSet(Members)
  BY <1>1, FS_Subset, WorkersAssumption
<1>3. /\ IsFiniteSet(Stopped)
      /\ Cardinality(Stopped) <= Cardinality(Members)
      /\ Cardinality(Members) = Cardinality(Stopped) => Members = Stopped
  BY <1>1, <1>2, FS_Subset
<1>4. Cardinality(Members) \in Nat /\ Cardinality(Stopped) \in Nat
  BY <1>2, <1>3, FS_CardinalityType
<1> QED
  BY <1>1, <1>2, <1>3, <1>4

\* A step that only sends a thread from one place outside the set to another,
\* or from one place inside that does not count as stopped, keeps the sets.
LEMMA SameSets ==
    ASSUME TypeOK, NEW w \in Workers, NEW l, pc' = [pc EXCEPT ![w] = l],
           \/ pc[w] \in {"out", "join"} /\ l \in {"out", "join"}
           \/ pc[w] \in {"in", "yield"} /\ l \in {"in", "yield"}
           \/ pc[w] = "stopped" /\ l = "stopped"
    PROVE  Members' = Members /\ Stopped' = Stopped
BY DEF TypeOK, Members, Stopped

\* join() counts a thread that was not a member.
LEMMA JoinCounts ==
    ASSUME TypeOK, NEW w \in Workers, pc[w] \in {"out", "join"},
           pc' = [pc EXCEPT ![w] = "in"]
    PROVE  Cardinality(Members') = Cardinality(Members) + 1 /\ Stopped' = Stopped
<1>1. Members' = Members \cup {w} /\ w \notin Members /\ Stopped' = Stopped
  BY DEF TypeOK, Members, Stopped
<1> QED
  BY <1>1, SetsFinite, FS_AddElement

\* leave() counts off a member that is not stopped.
LEMMA LeaveCounts ==
    ASSUME TypeOK, NEW w \in Workers, pc[w] = "in", pc' = [pc EXCEPT ![w] = "out"]
    PROVE  Cardinality(Members') = Cardinality(Members) - 1 /\ Stopped' = Stopped
<1>1. Members' = Members \ {w} /\ w \in Members /\ Stopped' = Stopped
  BY DEF TypeOK, Members, Stopped
<1> QED
  BY <1>1, SetsFinite, FS_RemoveElement

\* yield() counts a member that was not stopped ...
LEMMA StopCounts ==
    ASSUME TypeOK, NEW w \in Workers, pc[w] = "yield", pc' = [pc EXCEPT ![w] = "stopped"]
    PROVE  Cardinality(Stopped') = Cardinality(Stopped) + 1 /\ Members' = Members
<1>1. Stopped' = Stopped \cup {w} /\ w \notin Stopped /\ Members' = Members
  BY DEF TypeOK, Members, Stopped
<1> QED
  BY <1>1, SetsFinite, FS_AddElement

\* ... and counts it off again when it goes on.
LEMMA GoOnCounts ==
    ASSUME TypeOK, NEW w \in Workers, pc[w] = "stopped", pc' = [pc EXCEPT ![w] = "in"]
    PROVE  Cardinality(Stopped') = Cardinality(Stopped) - 1 /\ Members' = Members
<1>1. Stopped' = Stopped \ {w} /\ w \in Stopped /\ Members' = Members
  BY DEF TypeOK, Members, Stopped
<1> QED
  BY <1>1, SetsFinite, FS_RemoveElement

\* The set starts empty.
LEMMA InitIInv == Init => IInv
<1> SUFFICES ASSUME Init PROVE IInv
  OBVIOUS
<1>1. Members = {} /\ Stopped = {}
  BY DEF Init, Members, Stopped
<1> QED
  BY <1>1, FS_EmptySet
     DEF Init, IInv, TypeOK, Counts, AllYielded, SomeoneToWaitFor, FlagInv

\* The test of the loop in synchronize() reads the counters for the sets.
LEMMA AwaitPreserves ==
    ASSUME IInv, AwaitStopped, suspend_all',
           UNCHANGED <<nthreads, nthreads_stopped, pc>>,
           VM \notin waiting
    PROVE  IInv'
<1>1. Members' = Members /\ Stopped' = Stopped
  BY DEF Members, Stopped
<1>2. CASE nthreads_stopped < nthreads
  <2>1. Members # Stopped
    BY <1>2, SetsFinite DEF IInv, Counts
  <2> QED
    BY <1>1, <1>2, <2>1
       DEF AwaitStopped, IInv, TypeOK, Counts, AllYielded, SomeoneToWaitFor, FlagInv
<1>3. CASE ~(nthreads_stopped < nthreads)
  <2>1. Members = Stopped
    BY <1>3, SetsFinite DEF IInv, Counts
  <2> QED
    BY <1>1, <1>3, <2>1
       DEF AwaitStopped, IInv, TypeOK, Counts, AllYielded, SomeoneToWaitFor, FlagInv
<1> QED
  BY <1>2, <1>3

\* Every step preserves the invariant.
LEMMA NextIInv == IInv /\ [Next]_vars => IInv'
<1> SUFFICES ASSUME IInv, [Next]_vars PROVE IInv'
  OBVIOUS
<1> USE WorkersAssumption, SetsFinite
<1>1. ASSUME NEW w \in Workers, join(w) PROVE IInv'
  <2>1. CASE suspend_all
    <3>1. Members' = Members /\ Stopped' = Stopped
      BY <1>1, <2>1, SameSets DEF join, Wait, Goto, IInv
    <3> QED
      BY <1>1, <2>1, <3>1
         DEF join, Wait, Goto, IInv, TypeOK, Counts, AllYielded, SomeoneToWaitFor, FlagInv
  <2>2. CASE ~suspend_all
    <3>1. Cardinality(Members') = Cardinality(Members) + 1 /\ Stopped' = Stopped
      BY <1>1, <2>2, JoinCounts DEF join, Goto, IInv
    <3> QED
      BY <1>1, <2>2, <3>1
         DEF join, Goto, IInv, TypeOK, Counts, AllYielded, SomeoneToWaitFor, FlagInv
  <2> QED
    BY <2>1, <2>2
<1>2. ASSUME NEW w \in Workers, leave(w) PROVE IInv'
  <2>1. Cardinality(Members') = Cardinality(Members) - 1 /\ Stopped' = Stopped
    BY <1>2, LeaveCounts DEF leave, Goto, IInv
  <2>2. w \in Members /\ w \notin Stopped
    BY <1>2 DEF leave, Members, Stopped
  <2>3. VM \notin waiting' /\ vpc # "safe"
    BY <1>2, <2>2 DEF leave, IInv, AllYielded, SomeoneToWaitFor, FlagInv
  <2>4. Counts' /\ nthreads' \in Nat
    <3>1. Cardinality(Members') \in Nat
      <4>1. Members' \in SUBSET Workers
        BY DEF Members
      <4> QED
        BY <4>1, FS_Subset, FS_CardinalityType
    <3> QED
      BY <1>2, <2>1, <3>1 DEF leave, IInv, Counts
  <2> QED
    BY <1>2, <2>3, <2>4
       DEF leave, Goto, IInv, TypeOK, AllYielded, SomeoneToWaitFor, FlagInv
<1>3. ASSUME NEW w \in Workers, yield(w) PROVE IInv'
  <2>1. Members' = Members /\ Stopped' = Stopped
    BY <1>3, SameSets DEF yield, Goto, IInv
  <2> QED
    BY <1>3, <2>1
       DEF yield, Goto, IInv, TypeOK, Counts, AllYielded, SomeoneToWaitFor, FlagInv
<1>4. ASSUME NEW w \in Workers, YieldLocked(w) PROVE IInv'
  <2>1. w \in Members /\ w \notin Stopped
    BY <1>4 DEF YieldLocked, Members, Stopped
  <2>2. CASE suspend_all
    <3>1. Cardinality(Stopped') = Cardinality(Stopped) + 1 /\ Members' = Members
      BY <1>4, <2>2, StopCounts DEF YieldLocked, Goto, IInv
    <3> QED
      BY <1>4, <2>1, <2>2, <3>1
         DEF YieldLocked, Goto, IInv, TypeOK, Counts, AllYielded, SomeoneToWaitFor, FlagInv
  <2>3. CASE ~suspend_all
    <3>1. Members' = Members /\ Stopped' = Stopped
      BY <1>4, <2>3, SameSets DEF YieldLocked, Goto, IInv
    <3> QED
      BY <1>4, <2>3, <3>1
         DEF YieldLocked, Goto, IInv, TypeOK, Counts, AllYielded, SomeoneToWaitFor, FlagInv
  <2> QED
    BY <2>2, <2>3
<1>5. ASSUME NEW w \in Workers, YieldAwake(w) PROVE IInv'
  <2>1. CASE suspend_all
    <3>1. Members' = Members /\ Stopped' = Stopped
      BY <1>5, <2>1, SameSets DEF YieldAwake, Wait, Goto, IInv
    <3> QED
      BY <1>5, <2>1, <3>1
         DEF YieldAwake, Wait, Goto, IInv, TypeOK, Counts, AllYielded, SomeoneToWaitFor, FlagInv
  <2>2. CASE ~suspend_all
    <3>1. Cardinality(Stopped') = Cardinality(Stopped) - 1 /\ Members' = Members
      BY <1>5, <2>2, GoOnCounts DEF YieldAwake, Goto, IInv
    <3>2. Cardinality(Stopped') \in Nat
      <4>1. Stopped' \in SUBSET Workers
        BY DEF Stopped
      <4> QED
        BY <4>1, FS_Subset, FS_CardinalityType
    <3>3. Counts' /\ nthreads_stopped' \in Nat
      BY <1>5, <2>2, <3>1, <3>2 DEF YieldAwake, IInv, Counts
    <3> QED
      BY <1>5, <2>2, <3>3
         DEF YieldAwake, Goto, IInv, TypeOK, AllYielded, SomeoneToWaitFor, FlagInv
  <2> QED
    BY <2>1, <2>2
<1>6. CASE synchronize
  <2>1. VM \notin waiting
    BY <1>6 DEF synchronize, IInv, SomeoneToWaitFor
  <2> QED
    BY <1>6, <2>1, AwaitPreserves DEF synchronize
<1>7. CASE SynchronizeAwake
  <2>1. suspend_all'
    BY <1>7 DEF SynchronizeAwake, IInv, FlagInv
  <2> QED
    BY <1>7, <2>1, AwaitPreserves DEF SynchronizeAwake
<1>8. CASE desynchronize
  <2>1. Members' = Members /\ Stopped' = Stopped
    BY <1>8 DEF desynchronize, Members, Stopped
  <2> QED
    BY <1>8, <2>1
       DEF desynchronize, IInv, TypeOK, Counts, AllYielded, SomeoneToWaitFor, FlagInv
<1>9. CASE UNCHANGED vars
  <2>1. Members' = Members /\ Stopped' = Stopped
    BY <1>9 DEF vars, Members, Stopped
  <2> QED
    BY <1>9, <2>1
       DEF vars, IInv, TypeOK, Counts, AllYielded, SomeoneToWaitFor, FlagInv
<1> QED
  BY <1>1, <1>2, <1>3, <1>4, <1>5, <1>6, <1>7, <1>8, <1>9 DEF Next, Work

\* IInv holds in every state of the set.
THEOREM Invariant == Spec => []IInv
BY InitIInv, NextIInv, PTL DEF Spec

\* The counters of the set are exact for any number of workers.
THEOREM CountsExact == Spec => []Counts
BY Invariant, PTL DEF IInv

\* Between synchronize() and desynchronize() no member runs.
THEOREM NobodyRuns == Spec => []AllYielded
BY Invariant, PTL DEF IInv

\* The VM thread waits only while a member has still to yield or to leave.
THEOREM NeverWaitsForNobody == Spec => []SomeoneToWaitFor
BY Invariant, PTL DEF IInv

-----------------------------------------------------------------------------
(* Refinement *)

roles == [w \in Workers |-> Role(w)]

\* What a worker's move from one place to another means for its role.
LEMMA RoleMove ==
    ASSUME TypeOK, NEW w \in Workers, NEW l \in {"out", "join", "in", "yield", "stopped"},
           pc' = [pc EXCEPT ![w] = l]
    PROVE  /\ roles' = [roles EXCEPT ![w] = Role(w)']
           /\ Role(w)' = RoleAt(l)
           /\ Role(w)' = Role(w) => roles' = roles
<1>1. pc'[w] = l /\ \A x \in Workers : x # w => pc'[x] = pc[x]
  BY DEF TypeOK
<1>2. Role(w)' = RoleAt(l)
  BY <1>1 DEF Role
<1>3. \A x \in Workers : x # w => Role(x)' = Role(x)
  BY <1>1 DEF Role
<1> QED
  BY <1>2, <1>3 DEF roles

\* The set starts as a world that goes, with nobody in it.
LEMMA InitRefines == Init => Abstract!Init
BY DEF Init, Abstract!Init, World, Role, RoleAt

\* Every step of the set is a step of the world or leaves it as it is.
LEMMA NextRefines == IInv /\ [Next]_vars => [Abstract!Next]_(Abstract!vars)
<1> SUFFICES ASSUME IInv, [Next]_vars PROVE Abstract!Next \/ UNCHANGED Abstract!vars
  OBVIOUS
<1> USE DEF IInv, TypeOK, RoleAt
<1>0. \A w \in Workers : roles[w] = Role(w)
  BY DEF roles
<1>1. ASSUME NEW w \in Workers, join(w) PROVE Abstract!Next \/ UNCHANGED Abstract!vars
  <2>1. World' = World /\ Role(w) = "absent"
    BY <1>1 DEF join, World, Role
  <2>2. CASE suspend_all
    BY <1>1, <2>1, <2>2, RoleMove DEF join, Wait, Goto, Abstract!vars, roles
  <2>3. CASE ~suspend_all
    <3>1. roles' = [roles EXCEPT ![w] = "mutator"] /\ World = "go"
      BY <1>1, <2>3, RoleMove DEF join, Goto, World
    <3> QED
      BY <2>1, <3>1, <1>0 DEF Abstract!Next, Abstract!Join, Abstract!Become, roles
  <2> QED
    BY <2>2, <2>3
<1>2. ASSUME NEW w \in Workers, leave(w) PROVE Abstract!Next \/ UNCHANGED Abstract!vars
  <2>1. w \in Members /\ w \notin Stopped
    BY <1>2 DEF leave, Members, Stopped
  <2>2. World' = World /\ Role(w) = "mutator" /\ World # "stopped"
    BY <1>2, <2>1 DEF leave, World, Role, AllYielded
  <2>3. roles' = [roles EXCEPT ![w] = "absent"]
    BY <1>2, RoleMove DEF leave, Goto
  <2> QED
    BY <2>2, <2>3, <1>0 DEF Abstract!Next, Abstract!Quit, Abstract!Become, roles
<1>3. ASSUME NEW w \in Workers, yield(w) PROVE Abstract!Next \/ UNCHANGED Abstract!vars
  <2>1. World' = World /\ Role(w) = "mutator"
    BY <1>3 DEF yield, World, Role
  <2> QED
    BY <1>3, <2>1, RoleMove DEF yield, Goto, Abstract!vars, roles
<1>4. ASSUME NEW w \in Workers, YieldLocked(w) PROVE Abstract!Next \/ UNCHANGED Abstract!vars
  <2>1. World' = World /\ Role(w) = "mutator"
    BY <1>4 DEF YieldLocked, World, Role
  <2>2. CASE suspend_all
    <3>1. roles' = [roles EXCEPT ![w] = "safe"]
      BY <1>4, <2>2, RoleMove DEF YieldLocked, Goto
    <3> QED
      BY <2>1, <3>1, <1>0 DEF Abstract!Next, Abstract!Rest, Abstract!Become, roles
  <2>3. CASE ~suspend_all
    BY <1>4, <2>1, <2>3, RoleMove DEF YieldLocked, Goto, Abstract!vars, roles
  <2> QED
    BY <2>2, <2>3
<1>5. ASSUME NEW w \in Workers, YieldAwake(w) PROVE Abstract!Next \/ UNCHANGED Abstract!vars
  <2>1. World' = World /\ Role(w) = "safe"
    BY <1>5 DEF YieldAwake, World, Role
  <2>2. CASE suspend_all
    BY <1>5, <2>1, <2>2, RoleMove DEF YieldAwake, Wait, Goto, Abstract!vars, roles
  <2>3. CASE ~suspend_all
    <3>1. roles' = [roles EXCEPT ![w] = "mutator"] /\ World = "go"
      BY <1>5, <2>3, RoleMove DEF YieldAwake, Goto, World
    <3> QED
      BY <2>1, <3>1, <1>0 DEF Abstract!Next, Abstract!Run, Abstract!Become, roles
  <2> QED
    BY <2>2, <2>3
<1>6. CASE synchronize \/ SynchronizeAwake
  <2>1. roles' = roles
    BY <1>6 DEF synchronize, SynchronizeAwake, roles, Role
  <2>2. /\ World \in {"go", "stopping"} /\ World' \in {"stopping", "stopped"}
        /\ synchronize => World = "go"
        /\ SynchronizeAwake => World = "stopping"
    BY <1>6 DEF synchronize, SynchronizeAwake, AwaitStopped, World, FlagInv
  <2>3. World' = "stopped" => \A w \in Workers : Role(w) # "mutator"
    <3>1. IInv'
      BY NextIInv
    <3>2. World' = "stopped" => Members = Stopped
      BY <1>6, <3>1 DEF synchronize, SynchronizeAwake, World, AllYielded, Members, Stopped
    <3> QED
      BY <3>2 DEF Members, Stopped, Role
  <2> QED
    BY <2>1, <2>2, <2>3, <1>0
       DEF Abstract!Next, Abstract!Request, Abstract!Stop, Abstract!vars, roles
<1>7. CASE desynchronize
  <2>1. World = "stopped" /\ World' = "go" /\ roles' = roles
    BY <1>7 DEF desynchronize, World, FlagInv, roles, Role
  <2> QED
    BY <2>1 DEF Abstract!Next, Abstract!Go, roles
<1>8. CASE UNCHANGED vars
  BY <1>8 DEF vars, Abstract!vars, World, Role
<1> QED
  BY <1>1, <1>2, <1>3, <1>4, <1>5, <1>6, <1>7, <1>8 DEF Next, Work

\* The suspendible thread set stops its own world, for any number of workers.
THEOREM SetRefines == Spec => StopsTheSet
BY InitRefines, NextRefines, Invariant, PTL DEF Spec, StopsTheSet, Abstract!Spec
=============================================================================
