----------------------------- MODULE StopTheWorld -----------------------------
(***************************************************************************)
(* What the safepoint protocol promises, and the set of suspendible        *)
(* threads for its own members: the VM thread works on a stopped world     *)
(* only while no mutator runs, no thread becomes a mutator, joins or       *)
(* leaves while the world is stopped, and a stop, once asked for, happens. *)
(***************************************************************************)
CONSTANT Threads

VARIABLES
    world,      \* "go", "stopping" or "stopped"
    role        \* of each thread: "absent", "mutator" or "safe"

vars == <<world, role>>

Init == world = "go" /\ role = [t \in Threads |-> "absent"]

Become(t, from, to) == role[t] = from /\ role' = [role EXCEPT ![t] = to]

Join(t) == world = "go" /\ Become(t, "absent", "mutator") /\ UNCHANGED world
Quit(t) == /\ world # "stopped" /\ UNCHANGED world
           /\ Become(t, "mutator", "absent") \/ Become(t, "safe", "absent")
Rest(t) == Become(t, "mutator", "safe") /\ UNCHANGED world
Run(t) == world # "stopped" /\ Become(t, "safe", "mutator") /\ UNCHANGED world

Request == world = "go" /\ world' = "stopping" /\ UNCHANGED role
Stop == /\ world # "stopped" /\ \A t \in Threads : role[t] # "mutator"
        /\ world' = "stopped" /\ UNCHANGED role
Go == world = "stopped" /\ world' = "go" /\ UNCHANGED role

Next ==
    \/ Request \/ Stop \/ Go
    \/ \E t \in Threads : Join(t) \/ Quit(t) \/ Rest(t) \/ Run(t)

Spec == Init /\ [][Next]_vars

\* The world stops when asked to.
Stops == world = "stopping" ~> world = "stopped"
=============================================================================
