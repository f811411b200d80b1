-------------------------- MODULE RateLimitProofs --------------------------
(***************************************************************************)
(* Proofs about RateLimit, for any finite sets of addresses and goroutines *)
(* and any rate, burst, TTL, stall and lag that satisfy RateAssumption.    *)
(***************************************************************************)
EXTENDS RateLimit, FiniteSetTheorems, TLAPS

(***************************************************************************)
(* The inductive invariant.                                                *)
(***************************************************************************)
\* No two addresses share a limiter.
OwnOK == \A a, b \in Addrs : bucket[a] # None /\ bucket[a] = bucket[b] => a = b

\* A goroutine between Get and Allow holds the limiter of its address, which
\* has been seen since then; the others hold none.
HeldOK ==
    \A p \in Procs :
        IF pc[p] = "allow"
          THEN /\ limiter[p] # None
               /\ limiter[p] = bucket[addr[p]]
               /\ idle[addr[p]] <= waited[p]
          ELSE limiter[p] = None

\* A limiter that nobody can hold any more refills as time passes.
RefilledOK ==
    \A a \in Addrs :
        bucket[a] # None /\ idle[a] > Stall =>
            \/ tokens[bucket[a]] = Size
            \/ tokens[bucket[a]] >= Rate * (idle[a] - Stall)

\* The collector comes in time for every entry.
DueOK ==
    \A a \in Addrs : bucket[a] # None => idle[a] + ticker <= 2 * TTL + Lag

IndInv == RateTypeOK /\ DueOK /\ OwnOK /\ HeldOK /\ RefilledOK

RateNext == Limit \/ \E p \in Procs : Finish(p)
-----------------------------------------------------------------------------
(***************************************************************************)
(* Numbers and cardinalities.                                              *)
(***************************************************************************)
\* The constants are numbers.
LEMMA Numbers ==
    /\ Rate \in Nat /\ Rate >= 1 /\ TTL \in Nat /\ TTL >= 1
    /\ Lag \in Nat /\ Stall \in Nat /\ Stall < TTL
    /\ Size \in Nat /\ Size >= 1
BY RateAssumption DEF Size

\* A tick more is a Rate more.
LEMMA OneMoreTick ==
    ASSUME NEW n \in Nat
    PROVE  Rate * (n + 1) = Rate * n + Rate /\ Rate * n \in Nat
BY Numbers

\* What has idled for longer than TTL has had the time to be full.
LEMMA LongEnough ==
    ASSUME NEW n \in Nat, n > TTL
    PROVE  Rate * (n - Stall) >= Size
<1>1. ASSUME NEW r \in Nat, NEW x \in Nat, NEW y \in Nat, x <= y
      PROVE  r * x <= r * y
  BY <1>1
<1>2. Rate * (TTL - Stall) <= Rate * (n - Stall)
  <2>1. TTL - Stall \in Nat /\ n - Stall \in Nat /\ TTL - Stall <= n - Stall
    BY Numbers
  <2> QED
    BY <1>1, <2>1, Numbers
<1>3. Rate * (TTL - Stall) \in Nat /\ Rate * (n - Stall) \in Nat
  BY Numbers
<1> QED
  BY <1>2, <1>3, Numbers, RateAssumption

\* A function takes no more values than it has arguments.
LEMMA ImageBound ==
    ASSUME NEW S, IsFiniteSet(S), NEW f
    PROVE  /\ IsFiniteSet({f[x] : x \in S})
           /\ Cardinality({f[x] : x \in S}) <= Cardinality(S)
<1> DEFINE T == {f[x] : x \in S}
           g == [x \in S |-> f[x]]
<1>1. g \in Surjection(S, T)
  BY DEF Surjection
<1> QED
  BY <1>1, FS_Surjection

\* There is always a limiter left for an address that is new.
LEMMA FreshLimiter ==
    ASSUME RateTypeOK, NEW p \in Procs, limiter[p] = None
    PROVE  /\ Unused \in Limiters
           /\ \A a \in Addrs : bucket[a] # Unused
           /\ \A q \in Procs : limiter[q] # Unused
<1> DEFINE A == {bucket[a] : a \in Addrs}
           P == {limiter[q] : q \in Procs \ {p}}
           n == Cardinality(Addrs) + Cardinality(Procs)
<1>1. /\ IsFiniteSet(A) /\ Cardinality(A) \in Nat
      /\ Cardinality(Addrs) \in Nat
      /\ Cardinality(A) <= Cardinality(Addrs)
  BY RateAssumption, ImageBound, FS_CardinalityType
<1>2. /\ IsFiniteSet(P) /\ Cardinality(P) \in Nat
      /\ Cardinality(Procs) \in Nat
      /\ Cardinality(P) <= Cardinality(Procs) - 1
  <2>1. /\ IsFiniteSet(Procs \ {p})
        /\ Cardinality(Procs \ {p}) = Cardinality(Procs) - 1
    BY RateAssumption, FS_RemoveElement
  <2> QED
    BY <2>1, RateAssumption, ImageBound, FS_CardinalityType
<1>3. /\ IsFiniteSet(A \cup P) /\ Cardinality(A \cup P) \in Nat
      /\ Cardinality(A \cup P) <= Cardinality(A) + Cardinality(P)
  <2>1. IsFiniteSet(A \cap P) /\ IsFiniteSet(A \cup P)
    BY <1>1, <1>2, FS_Subset, FS_Union
  <2>2. Cardinality(A \cap P) \in Nat /\ Cardinality(A \cup P) \in Nat
    BY <2>1, FS_CardinalityType
  <2>3. Cardinality(A \cup P)
          = Cardinality(A) + Cardinality(P) - Cardinality(A \cap P)
    BY <1>1, <1>2, FS_Union
  <2> HIDE DEF A, P
  <2> QED
    BY <1>1, <1>2, <2>1, <2>2, <2>3
<1>4. Cardinality(Limiters) = n
  BY <1>1, <1>2, FS_Interval DEF Limiters
<1>5. ~(Limiters \subseteq A \cup P)
  <2>1. SUFFICES ASSUME Limiters \subseteq A \cup P PROVE FALSE
    OBVIOUS
  <2>2. Cardinality(Limiters) <= Cardinality(A \cup P)
    BY <1>3, <2>1, FS_Subset
  <2> HIDE DEF A, P
  <2> QED
    BY <1>1, <1>2, <1>3, <1>4, <2>2
<1>6. PICK l \in Limiters : l \notin A \cup P
  BY <1>5
<1>7. l # limiter[p]
  BY <1>1, <1>2 DEF Limiters, None
<1>8. (\A a \in Addrs : bucket[a] # l) /\ (\A q \in Procs : limiter[q] # l)
  BY <1>6, <1>7
<1> QED
  BY <1>8 DEF Unused
-----------------------------------------------------------------------------
(***************************************************************************)
(* Every action keeps the inductive invariant.                             *)
(***************************************************************************)
\* A request arrives: nothing but its goroutine changes.
LEMMA ArriveStep ==
    ASSUME IndInv, NEW p \in Procs, NEW header \in Addrs \cup {NoHeader},
           NEW peer \in Addrs, Arrive(p, header, peer)
    PROVE  IndInv'
<1>1. ClientIP(header, peer) \in Addrs
  BY DEF ClientIP
<1> USE <1>1 DEF IndInv, RateTypeOK, Arrive, Goto, limiterVars
<1>2. RateTypeOK'
  OBVIOUS
<1>3. DueOK' /\ OwnOK' /\ RefilledOK'
  BY DEF DueOK, OwnOK, RefilledOK
<1>4. HeldOK'
  BY DEF HeldOK
<1> QED
  BY <1>2, <1>3, <1>4

\* A limiter is looked up or entered: the address has been seen.
LEMMA GetStep ==
    ASSUME IndInv, NEW p \in Procs, Get(p)
    PROVE  IndInv'
<1> DEFINE a == addr[p]
           l == IF bucket[a] # None THEN bucket[a] ELSE Unused
<1>1. /\ RateTypeOK /\ DueOK /\ OwnOK /\ HeldOK /\ RefilledOK
      /\ pc[p] = "get" /\ limiter[p] = None /\ a \in Addrs
  BY DEF IndInv, RateTypeOK, HeldOK, Get
<1>2. /\ l \in Limiters /\ l # None
      /\ \A b \in Addrs \ {a} : bucket[b] # l
      /\ bucket[a] = None => \A q \in Procs : limiter[q] # l
  <2>1. CASE bucket[a] = None
    BY <1>1, <2>1, FreshLimiter DEF Limiters, None
  <2>2. CASE bucket[a] # None
    BY <1>1, <2>2 DEF RateTypeOK, OwnOK
  <2> QED
    BY <2>1, <2>2
<1>3. /\ pc' = [pc EXCEPT ![p] = "allow"]
      /\ bucket' = [bucket EXCEPT ![a] = l]
      /\ tokens' = IF bucket[a] # None THEN tokens
                   ELSE [tokens EXCEPT ![l] = Size]
      /\ idle' = [idle EXCEPT ![a] = 0]
      /\ limiter' = [limiter EXCEPT ![p] = l]
      /\ waited' = [waited EXCEPT ![p] = 0]
      /\ ticker' = ticker /\ addr' = addr /\ excess' = excess
  BY DEF Get, Goto
<1> HIDE DEF a, l
<1>4. RateTypeOK'
  BY <1>1, <1>2, <1>3, Numbers DEF RateTypeOK
<1>5. DueOK'
  BY <1>1, <1>3, Numbers DEF RateTypeOK, DueOK
<1>6. OwnOK'
  BY <1>1, <1>2, <1>3 DEF RateTypeOK, OwnOK
<1>7. HeldOK'
  <2> SUFFICES ASSUME NEW q \in Procs
               PROVE  IF pc'[q] = "allow"
                        THEN /\ limiter'[q] # None
                             /\ limiter'[q] = bucket'[addr'[q]]
                             /\ idle'[addr'[q]] <= waited'[q]
                        ELSE limiter'[q] = None
    BY DEF HeldOK
  <2>1. CASE q = p
    <3>1. /\ pc'[q] = "allow" /\ limiter'[q] = l /\ addr'[q] = a
          /\ bucket'[a] = l /\ idle'[a] = 0 /\ waited'[q] = 0
      BY <1>1, <1>3, <2>1 DEF RateTypeOK, a
    <3> QED
      BY <1>2, <3>1
  <2>2. CASE q # p /\ pc[q] # "allow"
    BY <1>1, <1>3, <2>2 DEF RateTypeOK, HeldOK
  <2>3. CASE q # p /\ pc[q] = "allow" /\ addr[q] # a
    BY <1>1, <1>3, <2>3 DEF RateTypeOK, HeldOK
  <2>4. CASE q # p /\ pc[q] = "allow" /\ addr[q] = a
    <3>1. limiter[q] = bucket[a] /\ bucket[a] # None /\ bucket[a] = l
      BY <1>1, <2>4 DEF HeldOK, l
    <3>2. /\ pc'[q] = "allow" /\ limiter'[q] = limiter[q] /\ addr'[q] = a
          /\ bucket'[a] = l /\ idle'[a] = 0 /\ waited'[q] = waited[q]
          /\ waited[q] >= 0
      BY <1>1, <1>3, <2>4 DEF RateTypeOK
    <3> QED
      BY <3>1, <3>2
  <2> QED
    BY <2>1, <2>2, <2>3, <2>4
<1>8. RefilledOK'
  <2> SUFFICES ASSUME NEW b \in Addrs, bucket'[b] # None, idle'[b] > Stall
               PROVE  \/ tokens'[bucket'[b]] = Size
                      \/ tokens'[bucket'[b]] >= Rate * (idle'[b] - Stall)
    BY DEF RefilledOK
  <2>1. b # a
    BY <1>1, <1>3, Numbers DEF RateTypeOK
  <2>2. bucket'[b] = bucket[b] /\ idle'[b] = idle[b] /\ bucket[b] # l
    BY <1>1, <1>2, <1>3, <2>1 DEF RateTypeOK
  <2>3. tokens'[bucket[b]] = tokens[bucket[b]]
    BY <1>1, <1>3, <2>2 DEF RateTypeOK
  <2> QED
    BY <1>1, <2>2, <2>3 DEF RefilledOK
<1> QED
  BY <1>4, <1>5, <1>6, <1>7, <1>8 DEF IndInv

\* A token is taken from a limiter that was seen at most Stall ago.
LEMMA AllowStep ==
    ASSUME IndInv, NEW p \in Procs, Allow(p)
    PROVE  IndInv'
<1>1. /\ RateTypeOK /\ DueOK /\ OwnOK /\ HeldOK /\ RefilledOK
      /\ limiter[p] \in Limiters /\ limiter[p] = bucket[addr[p]]
      /\ idle[addr[p]] <= Stall /\ addr[p] \in Addrs
  BY Numbers DEF IndInv, RateTypeOK, HeldOK, Allow, Limiters, None
<1>2. /\ \E s \in {"admitted", "refused"} : pc' = [pc EXCEPT ![p] = s]
      /\ limiter' = [limiter EXCEPT ![p] = None]
      /\ waited' = [waited EXCEPT ![p] = 0]
      /\ bucket' = bucket /\ idle' = idle /\ ticker' = ticker /\ addr' = addr
  BY DEF Allow, Goto
<1>3. /\ tokens' \in [Limiters -> 0..Size]
      /\ \A l \in Limiters : l # limiter[p] => tokens'[l] = tokens[l]
      /\ excess' \in [Addrs -> Nat]
  BY <1>1, Numbers DEF Allow, RateTypeOK
<1>4. RateTypeOK'
  BY <1>1, <1>2, <1>3, Numbers DEF RateTypeOK
<1>5. DueOK' /\ OwnOK'
  BY <1>1, <1>2 DEF DueOK, OwnOK
<1>6. HeldOK'
  BY <1>1, <1>2 DEF HeldOK, RateTypeOK
<1>7. RefilledOK'
  <2> SUFFICES ASSUME NEW b \in Addrs, bucket[b] # None, idle[b] > Stall
               PROVE  \/ tokens'[bucket[b]] = Size
                      \/ tokens'[bucket[b]] >= Rate * (idle[b] - Stall)
    BY <1>2 DEF RefilledOK
  <2>1. b # addr[p]
    BY <1>1, Numbers DEF RateTypeOK
  <2>2. bucket[b] # limiter[p] /\ bucket[b] \in Limiters
    BY <1>1, <2>1 DEF OwnOK, RateTypeOK
  <2> QED
    BY <1>1, <1>3, <2>2 DEF RefilledOK
<1> QED
  BY <1>4, <1>5, <1>6, <1>7 DEF IndInv

\* A request is done.
LEMMA FinishStep ==
    ASSUME IndInv, NEW p \in Procs, Finish(p)
    PROVE  IndInv'
<1> USE DEF IndInv, RateTypeOK, Finish, Goto, limiterVars
<1>1. RateTypeOK'
  OBVIOUS
<1>2. DueOK' /\ OwnOK' /\ RefilledOK'
  BY DEF DueOK, OwnOK, RefilledOK
<1>3. HeldOK'
  BY DEF HeldOK
<1> QED
  BY <1>1, <1>2, <1>3

\* The collector drops nothing that a goroutine holds.
LEMMA GcStep ==
    ASSUME IndInv, NEW age \in 0..Lag, Gc(age)
    PROVE  IndInv'
<1>1. RateTypeOK /\ DueOK /\ OwnOK /\ HeldOK /\ RefilledOK
  BY DEF IndInv
<1>2. /\ ticker + age <= Lag /\ ticker' = ticker + TTL
      /\ tokens' = tokens /\ pc' = pc
      /\ addr' = addr /\ limiter' = limiter /\ waited' = waited
      /\ \A a \in Addrs :
            IF idle[a] > TTL + age THEN bucket'[a] = None /\ idle'[a] = 0
            ELSE bucket'[a] = bucket[a] /\ idle'[a] = idle[a]
  BY DEF Gc, procVars
<1>3. RateTypeOK'
  BY <1>1, Numbers DEF Gc, procVars, RateTypeOK
<1>4. DueOK'
  BY <1>1, <1>2, Numbers DEF DueOK, RateTypeOK
<1>5. OwnOK'
  BY <1>1, <1>2 DEF OwnOK
<1>6. HeldOK'
  <2>1. \A p \in Procs : pc[p] = "allow" => ~(idle[addr[p]] > TTL + age)
    BY <1>1, Numbers DEF HeldOK, RateTypeOK
  <2> QED
    BY <1>1, <1>2, <2>1 DEF HeldOK, RateTypeOK
<1>7. RefilledOK'
  BY <1>1, <1>2 DEF RefilledOK
<1> QED
  BY <1>3, <1>4, <1>5, <1>6, <1>7 DEF IndInv

\* A tick fills the limiters and ages the entries.
LEMMA TickStep ==
    ASSUME IndInv, Tick
    PROVE  IndInv'
<1>1. RateTypeOK /\ DueOK /\ OwnOK /\ HeldOK /\ RefilledOK
  BY DEF IndInv
<1>2. /\ ticker > 0 /\ ticker' = ticker - 1
      /\ \A p \in Procs : pc[p] = "allow" => waited[p] < Stall
      /\ bucket' = bucket /\ pc' = pc /\ addr' = addr /\ limiter' = limiter
      /\ tokens' = [l \in Limiters |-> IF tokens[l] + Rate < Size
                                        THEN tokens[l] + Rate ELSE Size]
      /\ idle' = [a \in Addrs |-> IF bucket[a] = None THEN 0 ELSE idle[a] + 1]
      /\ waited' = [p \in Procs |->
                      IF pc[p] = "allow" THEN waited[p] + 1 ELSE waited[p]]
      /\ excess' = [a \in Addrs |-> IF excess[a] > Rate
                                      THEN excess[a] - Rate ELSE 0]
  BY DEF Tick
<1>3. RateTypeOK'
  <2>1. tokens' \in [Limiters -> 0..Size]
    BY <1>1, <1>2, Numbers DEF RateTypeOK
  <2>2. idle' \in [Addrs -> 0..(2 * TTL + Lag)]
    BY <1>1, <1>2, Numbers DEF RateTypeOK, DueOK
  <2>3. waited' \in [Procs -> 0..Stall] /\ ticker' \in 0..(TTL + Lag)
    BY <1>1, <1>2, Numbers DEF RateTypeOK
  <2>4. excess' \in [Addrs -> Nat]
    BY <1>1, <1>2, Numbers DEF RateTypeOK
  <2> QED
    BY <1>1, <1>2, <2>1, <2>2, <2>3, <2>4 DEF RateTypeOK
<1>4. DueOK'
  BY <1>1, <1>2, Numbers DEF DueOK, RateTypeOK
<1>5. OwnOK'
  BY <1>1, <1>2 DEF OwnOK
<1>6. HeldOK'
  BY <1>1, <1>2, Numbers DEF HeldOK, RateTypeOK
<1>7. RefilledOK'
  <2> SUFFICES ASSUME NEW a \in Addrs, bucket[a] # None, idle'[a] > Stall
               PROVE  \/ tokens'[bucket[a]] = Size
                      \/ tokens'[bucket[a]] >= Rate * (idle'[a] - Stall)
    BY <1>2 DEF RefilledOK
  <2> DEFINE n == idle[a] - Stall
             t == tokens[bucket[a]]
  <2>1. /\ bucket[a] \in Limiters /\ t \in 0..Size /\ idle[a] \in Nat
        /\ idle'[a] = idle[a] + 1 /\ n \in Nat /\ idle'[a] - Stall = n + 1
        /\ tokens'[bucket[a]] = IF t + Rate < Size THEN t + Rate ELSE Size
    BY <1>1, <1>2, Numbers DEF RateTypeOK
  <2>2. t = Size \/ t >= Rate * n
    <3>1. CASE n = 0
      <4>1. Rate * 0 = 0
        BY Numbers
      <4> HIDE DEF n, t
      <4> QED
        BY <2>1, <3>1, <4>1, Numbers
    <3>2. CASE n # 0
      <4>1. idle[a] > Stall
        BY <2>1, <3>2, Numbers
      <4> QED
        BY <1>1, <4>1 DEF RefilledOK
    <3> QED
      BY <3>1, <3>2
  <2>3. Rate * (n + 1) = Rate * n + Rate /\ Rate * n \in Nat
    BY <2>1, OneMoreTick
  <2> HIDE DEF n, t
  <2> QED
    BY <2>1, <2>2, <2>3, Numbers
<1> QED
  BY <1>3, <1>4, <1>5, <1>6, <1>7 DEF IndInv
-----------------------------------------------------------------------------
(***************************************************************************)
(* The theorems.                                                           *)
(***************************************************************************)
\* The inductive invariant holds in every reachable state.
THEOREM Invariance == RateSpec => []IndInv
<1>1. RateInit => IndInv
  BY Numbers DEF RateInit, IndInv, RateTypeOK, DueOK, OwnOK, HeldOK,
                 RefilledOK
<1>2. IndInv /\ [RateNext]_rateVars => IndInv'
  <2> SUFFICES ASSUME IndInv, [RateNext]_rateVars PROVE IndInv'
    OBVIOUS
  <2>1. CASE UNCHANGED rateVars
    BY <2>1 DEF rateVars, limiterVars, procVars, IndInv, RateTypeOK,
                DueOK, OwnOK, HeldOK, RefilledOK
  <2> QED
    BY <2>1, ArriveStep, GetStep, AllowStep, FinishStep, GcStep, TickStep
    DEF RateNext, Limit
<1> QED
  BY <1>1, <1>2, PTL DEF RateSpec, RateNext

\* A bucket is gone 2 * TTL after its last request, and later by what the
\* collector is late.
THEOREM BucketsAreCollected == RateSpec => []CollectedInTime
<1>1. IndInv => CollectedInTime
  BY Numbers DEF IndInv, RateTypeOK, DueOK, CollectedInTime
<1> QED
  BY <1>1, Invariance, PTL

-----------------------------------------------------------------------------
(***************************************************************************)
(* The rate limiter implements TokenBuckets.                               *)
(***************************************************************************)
\* Looking a limiter up, or creating it, changes no level.
LEMMA GetIsInvisible ==
    ASSUME IndInv, NEW p \in Procs, Get(p)
    PROVE  UNCHANGED <<Level, addr, Verdict>>
<1> DEFINE a == addr[p]
<1>1. /\ RateTypeOK /\ OwnOK /\ pc[p] = "get" /\ limiter[p] = None
      /\ a \in Addrs
  BY DEF IndInv, RateTypeOK, HeldOK, Get
<1>2. CASE bucket[a] # None
  <2>1. bucket' = bucket /\ tokens' = tokens
    BY <1>1, <1>2 DEF Get, RateTypeOK
  <2> QED
    BY <1>1, <2>1 DEF Get, Goto, Level, Verdict, RateTypeOK
<1>3. CASE bucket[a] = None
  <2> DEFINE l == Unused
  <2>1. l \in Limiters /\ \A b \in Addrs : bucket[b] # l
    BY <1>1, FreshLimiter
  <2>2. /\ bucket' = [bucket EXCEPT ![a] = l]
        /\ tokens' = [tokens EXCEPT ![l] = Size]
    BY <1>3 DEF Get
  <2> HIDE DEF l
  <2>3. ASSUME NEW b \in Addrs
        PROVE  (IF bucket'[b] = None THEN Size ELSE tokens'[bucket'[b]])
                 = IF bucket[b] = None THEN Size ELSE tokens[bucket[b]]
    <3>1. CASE b = a
      BY <1>1, <1>3, <2>1, <2>2, <3>1 DEF RateTypeOK, Limiters, None
    <3>2. CASE b # a
      BY <1>1, <2>1, <2>2, <3>2 DEF RateTypeOK
    <3> QED
      BY <3>1, <3>2
  <2>4. Level' = Level
    BY <2>3 DEF Level
  <2> QED
    BY <1>1, <2>4 DEF Get, Goto, Verdict, RateTypeOK
<1> QED
  BY <1>2, <1>3

\* Allow takes a token of the bucket of its address, or finds it empty.
LEMMA AllowIsSeen ==
    ASSUME IndInv, NEW p \in Procs, Allow(p)
    PROVE  Buckets!Admit(p) \/ Buckets!Refuse(p)
<1> DEFINE a == addr[p]
           l == limiter[p]
<1>1. /\ RateTypeOK /\ OwnOK /\ a \in Addrs /\ l = bucket[a] /\ l # None
      /\ l \in Limiters /\ pc[p] = "allow" /\ Level[a] = tokens[l]
      /\ tokens[l] \in Nat
  BY Numbers DEF IndInv, RateTypeOK, HeldOK, Allow, Level
<1>2. bucket' = bucket /\ addr' = addr
  BY DEF Allow
<1>3. Verdict[p] = "pending"
  BY <1>1 DEF Verdict
<1>4. CASE tokens[l] > 0
  <2>1. /\ tokens' = [tokens EXCEPT ![l] = @ - 1]
        /\ pc' = [pc EXCEPT ![p] = "admitted"]
    BY <1>4 DEF Allow, Goto
  <2>2. Verdict' = [Verdict EXCEPT ![p] = "admitted"]
    BY <1>1, <2>1 DEF Verdict, RateTypeOK
  <2>3. ASSUME NEW b \in Addrs
        PROVE  (IF bucket'[b] = None THEN Size ELSE tokens'[bucket'[b]])
                 = IF b = a THEN Level[a] - 1 ELSE Level[b]
    <3>1. CASE b = a
      BY <1>1, <1>2, <2>1, <3>1 DEF RateTypeOK
    <3>2. CASE b # a
      BY <1>1, <1>2, <2>1, <3>2 DEF RateTypeOK, OwnOK, Level
    <3> QED
      BY <3>1, <3>2
  <2>4. Level' = [Level EXCEPT ![a] = Level[a] - 1]
    BY <2>3 DEF Level
  <2> QED
    BY <1>1, <1>2, <1>3, <1>4, <2>2, <2>4 DEF Buckets!Admit
<1>5. CASE tokens[l] = 0
  <2>1. tokens' = tokens /\ pc' = [pc EXCEPT ![p] = "refused"]
    BY <1>5 DEF Allow, Goto
  <2>2. Verdict' = [Verdict EXCEPT ![p] = "refused"]
    BY <1>1, <2>1 DEF Verdict, RateTypeOK
  <2>3. Level' = Level
    BY <1>2, <2>1 DEF Level
  <2> QED
    BY <1>1, <1>2, <1>3, <1>5, <2>2, <2>3 DEF Buckets!Refuse
<1> QED
  BY <1>1, <1>4, <1>5

\* What is collected was full.
LEMMA GcIsInvisible ==
    ASSUME IndInv, NEW age \in 0..Lag, Gc(age)
    PROVE  UNCHANGED <<Level, addr, Verdict>>
<1>1. RateTypeOK /\ RefilledOK
  BY DEF IndInv
<1>2. /\ tokens' = tokens /\ pc' = pc /\ addr' = addr
      /\ bucket' = [a \in Addrs |->
                       IF idle[a] > TTL + age THEN None ELSE bucket[a]]
  BY DEF Gc, procVars
<1>3. ASSUME NEW a \in Addrs, bucket[a] # None, idle[a] > TTL + age
      PROVE  tokens[bucket[a]] = Size
  <2>1. idle[a] \in Nat /\ tokens[bucket[a]] \in 0..Size
    BY <1>1, <1>3, Numbers DEF RateTypeOK
  <2>2. Rate * (idle[a] - Stall) >= Size
    <3>1. idle[a] > TTL
      BY <1>3, <2>1, Numbers
    <3> QED
      BY <2>1, <3>1, LongEnough
  <2>3. idle[a] > Stall
    BY <1>3, <2>1, Numbers
  <2>4. \/ tokens[bucket[a]] = Size
        \/ tokens[bucket[a]] >= Rate * (idle[a] - Stall)
    BY <1>1, <1>3, <2>3 DEF RefilledOK
  <2>5. Rate * (idle[a] - Stall) \in Int
    BY <2>1, Numbers
  <2> QED
    BY <2>1, <2>2, <2>4, <2>5, Numbers
<1>4. ASSUME NEW a \in Addrs
      PROVE  (IF bucket'[a] = None THEN Size ELSE tokens'[bucket'[a]])
               = IF bucket[a] = None THEN Size ELSE tokens[bucket[a]]
  BY <1>2, <1>3
<1>5. Level' = Level
  BY <1>4 DEF Level
<1> QED
  BY <1>2, <1>5 DEF Verdict

\* Time fills every bucket, also those that are not there.
LEMMA TickIsSeen ==
    ASSUME IndInv, Tick
    PROVE  Buckets!Refill
<1>1. RateTypeOK
  BY DEF IndInv
<1>2. /\ tokens' = [l \in Limiters |-> IF tokens[l] + Rate < Size
                                        THEN tokens[l] + Rate ELSE Size]
      /\ bucket' = bucket /\ pc' = pc /\ addr' = addr
  BY DEF Tick
<1>3. ASSUME NEW a \in Addrs
      PROVE  (IF bucket'[a] = None THEN Size ELSE tokens'[bucket'[a]])
               = Buckets!Plus(Level[a])
  BY <1>1, <1>2, Numbers DEF RateTypeOK, Level, Buckets!Plus
<1>4. Level' = [a \in Addrs |-> Buckets!Plus(Level[a])]
  BY <1>3 DEF Level
<1> QED
  BY <1>2, <1>4 DEF Buckets!Refill, Verdict

\* A limiter that makes buckets on demand and throws them away cannot be told
\* from one that keeps a bucket for every address for ever.
THEOREM LimiterImplementsBuckets == RateSpec => BucketsSpec
<1>1. RateInit => Buckets!Init
  BY DEF RateInit, Buckets!Init, Level, Verdict
<1>2. IndInv /\ [RateNext]_rateVars => [Buckets!Next]_(Buckets!bucketVars)
  <2> SUFFICES ASSUME IndInv, [RateNext]_rateVars
               PROVE  Buckets!Next \/ UNCHANGED <<Level, addr, Verdict>>
    BY DEF Buckets!bucketVars
  <2>1. CASE UNCHANGED rateVars
    BY <2>1 DEF rateVars, limiterVars, procVars, Level, Verdict
  <2>2. ASSUME NEW p \in Procs, NEW header \in Addrs \cup {NoHeader},
               NEW peer \in Addrs, Arrive(p, header, peer)
        PROVE  Buckets!Ask(p, ClientIP(header, peer))
                 /\ ClientIP(header, peer) \in Addrs
    BY <2>2 DEF IndInv, RateTypeOK, Arrive, Goto, ClientIP, limiterVars,
                Buckets!Ask, Level, Verdict
  <2>3. ASSUME NEW p \in Procs, Finish(p)
        PROVE  Buckets!Leave(p)
    BY <2>3 DEF IndInv, RateTypeOK, Finish, Goto, limiterVars,
                Buckets!Leave, Level, Verdict
  <2> QED
    BY <2>1, <2>2, <2>3, GetIsInvisible, AllowIsSeen, GcIsInvisible,
       TickIsSeen
    DEF RateNext, Limit, Buckets!Next
<1> QED
  BY <1>1, <1>2, Invariance, PTL
  DEF RateSpec, RateNext, BucketsSpec, Buckets!Spec
-----------------------------------------------------------------------------
(***************************************************************************)
(* How much an address gets.                                               *)
(***************************************************************************)
\* What was admitted in excess of the rate is missing in the bucket.
ExcessOK == \A a \in Addrs : excess[a] + Level[a] <= Size

\* Levels are numbers up to the size.
LEMMA LevelType ==
    ASSUME RateTypeOK, NEW a \in Addrs
    PROVE  Level[a] \in 0..Size
BY Numbers DEF RateTypeOK, Level

\* Only a request that takes a token, and time, change the excess, and both
\* change the level against it.
LEMMA ExcessStep == IndInv /\ ExcessOK /\ [RateNext]_rateVars => ExcessOK'
<1> SUFFICES ASSUME IndInv, ExcessOK, [RateNext]_rateVars PROVE ExcessOK'
  OBVIOUS
<1>1. /\ RateTypeOK /\ excess \in [Addrs -> Nat]
      /\ \A a \in Addrs : Level[a] \in 0..Size
      /\ DOMAIN Level = Addrs
  BY LevelType DEF IndInv, RateTypeOK, Level
<1>2. CASE UNCHANGED <<Level, excess>>
  BY <1>2 DEF ExcessOK
<1>3. ASSUME NEW p \in Procs, Allow(p) PROVE ExcessOK'
  <2> DEFINE b == addr[p]
  <2>1. b \in Addrs /\ Level[b] = tokens[limiter[p]]
    BY <1>1, <1>3 DEF IndInv, RateTypeOK, HeldOK, Allow, Level
  <2>2. CASE Buckets!Admit(p)
    <3>1. /\ Level[b] > 0 /\ Level' = [Level EXCEPT ![b] = @ - 1]
          /\ excess' = [excess EXCEPT ![b] = @ + 1]
      BY <1>3, <2>1, <2>2 DEF Buckets!Admit, Allow
    <3> HIDE DEF b
    <3>2. ASSUME NEW a \in Addrs PROVE excess'[a] + Level'[a] <= Size
      BY <1>1, <2>1, <3>1, Numbers DEF ExcessOK
    <3> QED
      BY <3>2 DEF ExcessOK
  <2>3. CASE Buckets!Refuse(p)
    <3>1. Level' = Level /\ excess' = excess
      BY <1>3, <2>1, <2>3 DEF Buckets!Refuse, Allow
    <3> QED
      BY <1>2, <3>1
  <2> QED
    BY <1>3, <2>2, <2>3, AllowIsSeen
<1>4. CASE Tick
  <2>1. /\ Level' = [a \in Addrs |-> IF Level[a] + Rate < Size
                                       THEN Level[a] + Rate ELSE Size]
        /\ excess' = [a \in Addrs |-> IF excess[a] > Rate
                                        THEN excess[a] - Rate ELSE 0]
    BY <1>4, TickIsSeen DEF Buckets!Refill, Buckets!Plus, Tick
  <2>2. ASSUME NEW a \in Addrs PROVE excess'[a] + Level'[a] <= Size
    BY <1>1, <2>1, Numbers DEF ExcessOK
  <2> QED
    BY <2>2 DEF ExcessOK
<1>5. ASSUME NEW p \in Procs, Get(p) PROVE UNCHANGED <<Level, excess>>
  BY <1>5, GetIsInvisible DEF Get
<1>6. ASSUME NEW age \in 0..Lag, Gc(age) PROVE ExcessOK'
  BY <1>2, <1>6, GcIsInvisible DEF Gc
<1>7. ASSUME NEW p \in Procs, NEW header \in Addrs \cup {NoHeader},
             NEW peer \in Addrs, Arrive(p, header, peer)
      PROVE  UNCHANGED <<Level, excess>>
  BY <1>7 DEF Arrive, limiterVars, Level
<1>8. ASSUME NEW p \in Procs, Finish(p) PROVE UNCHANGED <<Level, excess>>
  BY <1>8 DEF Finish, limiterVars, Level
<1>9. CASE UNCHANGED rateVars
  BY <1>2, <1>9 DEF rateVars, limiterVars, Level
<1> QED
  BY <1>2, <1>3, <1>4, <1>5, <1>6, <1>7, <1>8, <1>9 DEF RateNext, Limit

\* In no stretch of time does an address get more than its burst and its rate,
\* for any number of addresses and goroutines and any rate and burst, whenever
\* buckets are collected and created again (get, Allow, gc).
THEOREM RateIsKept == RateSpec => []BurstIsBounded
<1>1. RateInit => ExcessOK
  BY Numbers DEF RateInit, ExcessOK, Level
<1>2. IndInv /\ ExcessOK => BurstIsBounded
  <2> SUFFICES ASSUME IndInv, ExcessOK, NEW a \in Addrs
               PROVE  excess[a] <= Size
    BY DEF BurstIsBounded
  <2>1. excess[a] \in Nat /\ Level[a] \in 0..Size
    BY LevelType DEF IndInv, RateTypeOK
  <2> QED
    BY <2>1, Numbers DEF ExcessOK
<1> QED
  BY <1>1, <1>2, ExcessStep, Invariance, PTL DEF RateSpec, RateNext
=============================================================================
