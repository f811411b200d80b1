----------------------------- MODULE RateLimit -----------------------------
(***************************************************************************)
(* pkg/http/middleware/ratelimit.go: a token bucket per client address in  *)
(* a map, created by the first request and collected when idle.  A request *)
(* looks its limiter up under the mutex (Get) and asks it for a token      *)
(* later (Allow), when the map may have changed.                           *)
(*                                                                         *)
(* Time is counted in ticks.  What the code keeps as points in time        *)
(* (lastSeen, the ticker) is kept here as the time since, or until, them.  *)
(* Rate, Burst and TTL are those of a limiter that is switched on (Rate    *)
(* above 0); a TTL of 0 has become ten minutes.                            *)
(***************************************************************************)
EXTENDS Naturals, FiniteSets

CONSTANTS
    Addrs,      \* client addresses
    Procs,      \* request goroutines
    Rate,       \* tokens per tick
    Burst,      \* tokens a bucket holds, 0 meaning 1
    TTL,        \* period of the collector, and how long a bucket may idle
    Stall,      \* longest time a goroutine may take from Get to Allow
    Lag,        \* longest time from a tick of the collector to its sweep's end
    NoHeader    \* the request has no X-Forwarded-For

Size == IF Burst = 0 THEN 1 ELSE Burst

(***************************************************************************)
(* A limiter that idles for TTL must be full again by then, which the code *)
(* leaves to the configuration (50 per second, 100 and ten minutes by      *)
(* default); neither goroutines nor the collector may sleep that long.     *)
(***************************************************************************)
ASSUME RateAssumption ==
    /\ IsFiniteSet(Addrs) /\ IsFiniteSet(Procs)
    /\ {Rate, TTL} \subseteq Nat \ {0}
    /\ {Burst, Stall, Lag} \subseteq Nat
    /\ Stall < TTL /\ Lag < TTL
    /\ Rate * (TTL - Stall) >= Size
    /\ NoHeader \notin Addrs

\* rate.Limiter objects: enough for every entry and every goroutine.
Limiters == 1..(Cardinality(Addrs) + Cardinality(Procs))
None == 0

VARIABLES
    tokens,     \* per limiter
    bucket,     \* the map: per address its limiter, or None
    idle,       \* per address: time since lastSeen
    ticker,     \* time until the collector must have run; its tick comes
                \* Lag before that
    pc,         \* per goroutine
    addr,       \* its clientIP
    limiter,    \* what get returned to it
    waited,     \* time since then
    excess      \* history, per address: by how much the requests that were
                \* admitted exceed Rate times the time, in the stretch of time
                \* up to now where they exceed it most (0 for an empty one)

limiterVars == <<tokens, bucket, idle>>
procVars == <<pc, addr, limiter, waited>>
rateVars == <<limiterVars, ticker, procVars, excess>>
-----------------------------------------------------------------------------
RateTypeOK ==
    /\ tokens \in [Limiters -> 0..Size]
    /\ bucket \in [Addrs -> Limiters \cup {None}]
    /\ idle \in [Addrs -> 0..(2 * TTL + Lag)]
    /\ ticker \in 0..(TTL + Lag)
    /\ pc \in [Procs -> {"idle", "get", "allow", "admitted", "refused"}]
    /\ addr \in [Procs -> Addrs]
    /\ limiter \in [Procs -> Limiters \cup {None}]
    /\ waited \in [Procs -> 0..Stall]
    /\ excess \in [Addrs -> Nat]

RateInit ==
    /\ tokens = [l \in Limiters |-> Size]
    /\ bucket = [a \in Addrs |-> None]
    /\ idle = [a \in Addrs |-> 0]
    /\ ticker = TTL + Lag
    /\ pc = [p \in Procs |-> "idle"]
    /\ addr \in [Procs -> Addrs]
    /\ limiter = [p \in Procs |-> None]
    /\ waited = [p \in Procs |-> 0]
    /\ excess = [a \in Addrs |-> 0]

Goto(p, step) == pc' = [pc EXCEPT ![p] = step]

\* X-Forwarded-For wins over the address of the peer.
ClientIP(header, peer) == IF header = NoHeader THEN peer ELSE header

Arrive(p, header, peer) ==
    /\ pc[p] = "idle"
    /\ Goto(p, "get")
    /\ addr' = [addr EXCEPT ![p] = ClientIP(header, peer)]
    /\ UNCHANGED <<limiterVars, ticker, limiter, waited, excess>>

\* A limiter that nothing refers to.
Unused == CHOOSE l \in Limiters : /\ \A a \in Addrs : bucket[a] # l
                                  /\ \A p \in Procs : limiter[p] # l

Get(p) ==
    LET a == addr[p]
        found == bucket[a] # None
        l == IF found THEN bucket[a] ELSE Unused
    IN  /\ pc[p] = "get"
        /\ Goto(p, "allow")
        /\ bucket' = [bucket EXCEPT ![a] = l]
        /\ tokens' = IF found THEN tokens ELSE [tokens EXCEPT ![l] = Size]
        /\ idle' = [idle EXCEPT ![a] = 0]
        /\ limiter' = [limiter EXCEPT ![p] = l]
        /\ waited' = [waited EXCEPT ![p] = 0]
        /\ UNCHANGED <<ticker, addr, excess>>

\* MUTANT: a token is taken from an empty bucket, too.
AllowWraps(p) ==
    LET l == limiter[p] IN
    /\ pc[p] = "allow"
    /\ Goto(p, IF tokens[l] > 0 THEN "admitted" ELSE "refused")
    /\ tokens' = [tokens EXCEPT ![l] = @ - 1]
    /\ limiter' = [limiter EXCEPT ![p] = None]
    /\ waited' = [waited EXCEPT ![p] = 0]
    /\ UNCHANGED <<bucket, idle, ticker, addr, excess>>

Allow(p) ==
    LET l == limiter[p] IN
    /\ pc[p] = "allow"
    /\ IF tokens[l] > 0
         THEN /\ Goto(p, "admitted")
              /\ tokens' = [tokens EXCEPT ![l] = @ - 1]
              /\ excess' = [excess EXCEPT ![addr[p]] = @ + 1]
         ELSE /\ Goto(p, "refused")
              /\ UNCHANGED <<tokens, excess>>
    /\ limiter' = [limiter EXCEPT ![p] = None]
    /\ waited' = [waited EXCEPT ![p] = 0]
    /\ UNCHANGED <<bucket, idle, ticker, addr>>

Finish(p) ==
    /\ pc[p] \in {"admitted", "refused"}
    /\ Goto(p, "idle")
    /\ UNCHANGED <<limiterVars, ticker, addr, limiter, waited, excess>>
-----------------------------------------------------------------------------
\* MUTANT: whatever idled since the last run is collected.
GcEager(age) ==
    /\ ticker + age <= Lag
    /\ ticker' = ticker + TTL
    /\ bucket' = [a \in Addrs |-> IF idle[a] > age THEN None ELSE bucket[a]]
    /\ idle' = [a \in Addrs |-> IF idle[a] > age THEN 0 ELSE idle[a]]
    /\ UNCHANGED <<tokens, procVars, excess>>

\* MUTANT: collected is what has idled for twice as long.
GcLate(age) ==
    /\ ticker + age <= Lag
    /\ ticker' = ticker + TTL
    /\ bucket' = [a \in Addrs |->
                     IF idle[a] > 2 * TTL + age THEN None ELSE bucket[a]]
    /\ idle' = [a \in Addrs |-> IF idle[a] > 2 * TTL + age THEN 0 ELSE idle[a]]
    /\ UNCHANGED <<tokens, procVars, excess>>

\* One sweep, some time after its tick.  The cutoff is as old as the wait for
\* the mutex was long; under the mutex it is one step for everyone else.  The
\* ticks keep their distance however late a sweep is.
Gc(age) ==
    /\ ticker + age <= Lag
    /\ ticker' = ticker + TTL
    /\ bucket' = [a \in Addrs |->
                     IF idle[a] > TTL + age THEN None ELSE bucket[a]]
    /\ idle' = [a \in Addrs |-> IF idle[a] > TTL + age THEN 0 ELSE idle[a]]
    /\ UNCHANGED <<tokens, procVars, excess>>

\* Time passes: not past the collector, nor past a goroutine's patience.
Tick ==
    /\ ticker > 0
    /\ \A p \in Procs : pc[p] = "allow" => waited[p] < Stall
    /\ ticker' = ticker - 1
    /\ tokens' = [l \in Limiters |-> IF tokens[l] + Rate < Size
                                      THEN tokens[l] + Rate ELSE Size]
    /\ idle' = [a \in Addrs |-> IF bucket[a] = None THEN 0 ELSE idle[a] + 1]
    /\ waited' = [p \in Procs |->
                     IF pc[p] = "allow" THEN waited[p] + 1 ELSE waited[p]]
    /\ excess' = [a \in Addrs |-> IF excess[a] > Rate
                                    THEN excess[a] - Rate ELSE 0]
    /\ UNCHANGED <<bucket, pc, addr, limiter>>

\* Everything up to the verdict.
Limit ==
    \/ Tick
    \/ \E age \in 0..Lag : Gc(age)
    \/ \E p \in Procs :
         \/ \E header \in Addrs \cup {NoHeader}, peer \in Addrs :
              Arrive(p, header, peer)
         \/ Get(p) \/ Allow(p)

RateSpec ==
    RateInit /\ [][Limit \/ \E p \in Procs : Finish(p)]_rateVars
-----------------------------------------------------------------------------
(***************************************************************************)
(* A bucket that is not there counts as full.                              *)
(***************************************************************************)
Level == [a \in Addrs |-> IF bucket[a] = None THEN Size ELSE tokens[bucket[a]]]

Verdict == [p \in Procs |->
               IF pc[p] \in {"get", "allow"} THEN "pending" ELSE pc[p]]

Buckets == INSTANCE TokenBuckets WITH level <- Level, verdict <- Verdict

\* Nobody can tell that buckets are collected: the limiter behaves as if each
\* address had one for ever.  A collected bucket was full again, and no
\* request asks a limiter that is no longer the one of its address.
\* (get, Allow after get, b.lastSeen.Before(cutoff))
BucketsSpec == Buckets!Spec

\* In no stretch of time is an address admitted more often than its burst plus
\* Rate times the length of that stretch, although it may be given a new and
\* full bucket in the middle of it.  (get and Allow, with gc in between)
BurstIsBounded == \A a \in Addrs : excess[a] <= Size

\* The map does not grow for ever: a bucket is gone 2 * TTL after its last
\* request, since the collector looks once per TTL only, and later by as much
\* as the collector is late.  (gc)
CollectedInTime ==
    \A a \in Addrs : bucket[a] # None => idle[a] <= 2 * TTL + Lag
=============================================================================
