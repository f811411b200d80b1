---------------------------- MODULE TokenBuckets ----------------------------
(***************************************************************************)
(* What a rate limiter per client address promises: every address has one  *)
(* bucket of Size tokens for ever, Rate tokens flow into it per unit of    *)
(* time, a request takes one token or is refused, and it is refused only   *)
(* if there is none.  RateLimit implements this specification although it  *)
(* creates buckets on demand and throws idle ones away.                    *)
(***************************************************************************)
EXTENDS Naturals

CONSTANTS Addrs, Procs, Rate, Size

VARIABLES
    level,      \* tokens per address
    addr,       \* per request goroutine: the address of its client
    verdict     \* "idle", "pending", "admitted", "refused"

bucketVars == <<level, addr, verdict>>
-----------------------------------------------------------------------------
Plus(n) == IF n + Rate < Size THEN n + Rate ELSE Size

Init ==
    /\ level = [a \in Addrs |-> Size]
    /\ addr \in [Procs -> Addrs]
    /\ verdict = [p \in Procs |-> "idle"]

Ask(p, a) ==
    /\ verdict[p] = "idle"
    /\ verdict' = [verdict EXCEPT ![p] = "pending"]
    /\ addr' = [addr EXCEPT ![p] = a]
    /\ UNCHANGED level

Admit(p) ==
    /\ verdict[p] = "pending"
    /\ level[addr[p]] > 0
    /\ level' = [level EXCEPT ![addr[p]] = @ - 1]
    /\ verdict' = [verdict EXCEPT ![p] = "admitted"]
    /\ UNCHANGED addr

Refuse(p) ==
    /\ verdict[p] = "pending"
    /\ level[addr[p]] = 0
    /\ verdict' = [verdict EXCEPT ![p] = "refused"]
    /\ UNCHANGED <<level, addr>>

Leave(p) ==
    /\ verdict[p] \in {"admitted", "refused"}
    /\ verdict' = [verdict EXCEPT ![p] = "idle"]
    /\ UNCHANGED <<level, addr>>

Refill ==
    /\ level' = [a \in Addrs |-> Plus(level[a])]
    /\ UNCHANGED <<addr, verdict>>

Next ==
    \/ Refill
    \/ \E p \in Procs : \/ \E a \in Addrs : Ask(p, a)
                        \/ Admit(p) \/ Refuse(p) \/ Leave(p)

Spec == Init /\ [][Next]_bucketVars
=============================================================================
