----------------------------- MODULE AtomicMap -----------------------------
(***************************************************************************)
(* What the cache promises its callers, and what TaskService takes for     *)
(* granted when it makes cache.Store and cache.Delete one step each: a     *)
(* call changes the entry of its own key, exactly once, some time between  *)
(* its beginning and its end; entries disappear otherwise only while some  *)
(* goroutine is inside Cleanup, and a List changes nothing.                *)
(***************************************************************************)
CONSTANTS Keys, Values, NoValue, Procs

VARIABLES
    map,        \* per key its value, or NoValue
    phase,      \* "idle", "pending", "returning", "cleanup", "list"
    call        \* per goroutine: the write it still has to do

mapVars == <<map, phase, call>>

Nothing == [key |-> 0, val |-> NoValue]
-----------------------------------------------------------------------------
Enter(p, from, to) ==
    phase[p] = from /\ phase' = [phase EXCEPT ![p] = to]

MapInit ==
    /\ map \in [Keys -> Values \cup {NoValue}]
    /\ phase = [p \in Procs |-> "idle"]
    /\ call = [p \in Procs |-> Nothing]

\* A Store or (v = NoValue) a Delete begins, and takes effect at once, or
Immediate(p, k, v) ==
    /\ Enter(p, "idle", "returning")
    /\ map' = [map EXCEPT ![k] = v]
    /\ UNCHANGED call

\* later.
Begin(p, k, v) ==
    /\ Enter(p, "idle", "pending")
    /\ call' = [call EXCEPT ![p] = [key |-> k, val |-> v]]
    /\ UNCHANGED map

Effect(p) ==
    /\ Enter(p, "pending", "returning") \/ Enter(p, "pending", "idle")
    /\ map' = [map EXCEPT ![call[p].key] = call[p].val]
    /\ call' = [call EXCEPT ![p] = Nothing]

Clean(p) == Enter(p, "idle", "cleanup") /\ UNCHANGED <<map, call>>

Drop(p, k) ==
    /\ phase[p] = "cleanup"
    /\ map' = [map EXCEPT ![k] = NoValue]
    /\ UNCHANGED <<phase, call>>

Read(p) == Enter(p, "idle", "list") /\ UNCHANGED <<map, call>>

Return(p) ==
    /\ \E from \in {"returning", "cleanup", "list"} : Enter(p, from, "idle")
    /\ UNCHANGED <<map, call>>

MapNext ==
    \E p \in Procs :
        \/ \E k \in Keys, v \in Values \cup {NoValue} :
             Immediate(p, k, v) \/ Begin(p, k, v)
        \/ \E k \in Keys : Drop(p, k)
        \/ Effect(p) \/ Clean(p) \/ Read(p) \/ Return(p)

MapSpec == MapInit /\ [][MapNext]_mapVars
=============================================================================
