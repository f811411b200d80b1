------------------------------- MODULE Cache -------------------------------
(***************************************************************************)
(* pkg/cache/cache.go: the concurrent map behind TaskCache.  Goroutines    *)
(* (Procs) call Store, Delete, Cleanup and List; every access to the       *)
(* sync.Map and to the two atomics, len and firstKey, is one step.  Delete *)
(* and Cleanup hold snapshotMu, List holds it shared, Store and Get take   *)
(* no lock at all.  (Get is one Load and changes nothing.)                 *)
(*                                                                         *)
(* sync.Map.Range is no snapshot: it visits every key that is in the map   *)
(* from its start to its end, and may or may not visit one that was added  *)
(* meanwhile.  It is two steps, one that fixes what must be visited and    *)
(* one that picks what was.                                                *)
(***************************************************************************)
EXTENDS Integers, FiniteSets

CONSTANTS
    Keys,       \* task ids; the id column starts at 1
    Values,
    NoValue,    \* the key is not in the map
    Procs,      \* goroutines
    Divisor,    \* Cleanup drops one entry in Divisor (5 in the code)
    MaxDrift    \* bound: entries the counter may miss, see Drift

ASSUME CacheAssumption ==
    /\ Keys \subseteq Nat \ {0} /\ IsFiniteSet(Keys)
    /\ IsFiniteSet(Procs)
    /\ NoValue \notin Values
    /\ Divisor \in Nat /\ Divisor >= 2
    /\ MaxDrift \in Nat

VARIABLES
    items,      \* the sync.Map
    len,        \* atomic.Int64
    firstKey,   \* atomic.Uint64
    pc,         \* per goroutine: the step it takes next
    local       \* per goroutine: key, toRemove or newLen (n), and the set
                \* that Range must visit, then the keys it did visit (keys)

vars == <<items, len, firstKey, pc, local>>
-----------------------------------------------------------------------------
Present == {k \in Keys : items[k] # NoValue}

DeletePC == {"deleteRemove", "deleteUncount", "deleteFirst", "deleteRescan"}
CleanupPC == {"cleanupSize", "cleanupCollect", "cleanupEvict",
              "cleanupUncount", "cleanupPublish"}
ListPC == {"listLen", "listRange", "listFirst"}
StorePC == {"storeCount", "storeFirst", "storeSetFirst", "storeOverwrite"}

Locals == [key : Keys \cup {0}, val : Values \cup {NoValue}, n : Int,
           keys : SUBSET Keys]
Empty == [key |-> 0, val |-> NoValue, n |-> 0, keys |-> {}]

TypeOK ==
    /\ items \in [Keys -> Values \cup {NoValue}]
    /\ len \in Int
    /\ firstKey \in Nat
    /\ pc \in [Procs -> {"idle"} \cup StorePC \cup DeletePC \cup CleanupPC
                            \cup ListPC]
    /\ local \in [Procs -> Locals]
    /\ \A p \in Procs :
          pc[p] \in StorePC \cup DeletePC => local[p].key \in Keys
    /\ \A p \in Procs : pc[p] = "storeOverwrite" => local[p].val \in Values

\* snapshotMu: who holds it exclusively, who holds it shared.
Writers == {p \in Procs : pc[p] \in DeletePC \cup CleanupPC}
Readers == {p \in Procs : pc[p] \in ListPC}

IsMin(k, S) == k \in S /\ \A j \in S : k <= j

\* The smallest key of S, 0 (the zero value of next) when there is none.
Smallest(k, S) == IF S = {} THEN k = 0 ELSE IsMin(k, S)

(***************************************************************************)
(* What fill leaves behind: the rows it read, newest first, so that        *)
(* SetFirstKey was last called for the oldest of them; New set firstKey to *)
(* 1.                                                                      *)
(***************************************************************************)
Init ==
    /\ items \in [Keys -> Values \cup {NoValue}]
    /\ len = Cardinality(Present)
    /\ firstKey \in Keys \cup {1}
    /\ IF Present = {} THEN firstKey = 1 ELSE IsMin(firstKey, Present)
    /\ pc = [p \in Procs |-> "idle"]
    /\ local = [p \in Procs |-> Empty]

Goto(p, step) == pc' = [pc EXCEPT ![p] = step]

Done(p) == /\ Goto(p, "idle")
           /\ local' = [local EXCEPT ![p] = Empty]

\* What a Range that began when the map held `must` may have visited.
Visited(must) == {S \in SUBSET Present : must \subseteq S}
-----------------------------------------------------------------------------
\* Goroutines between a change of the map and the matching change of len.
Uncounted == {p \in Procs : pc[p] = "storeCount"}
Overcounted == {p \in Procs : pc[p] \in {"deleteUncount", "cleanupUncount"}}

\* By how much len falls short of the map, pending changes apart.
Drift == Cardinality(Present) - Cardinality(Uncounted)
            + Cardinality(Overcounted) - len
-----------------------------------------------------------------------------
(***************************************************************************)
(* Store: LoadOrStore; a new key is counted and may become firstKey, an    *)
(* old one is overwritten, even if it is gone by then.                     *)
(***************************************************************************)
StoreInsert(p, k, v) ==
    /\ pc[p] = "idle" /\ Drift < MaxDrift
    /\ k \notin Present
    /\ items' = [items EXCEPT ![k] = v]
    /\ Goto(p, "storeCount")
    /\ local' = [local EXCEPT ![p].key = k]
    /\ UNCHANGED <<len, firstKey>>

StoreCount(p) ==
    /\ pc[p] = "storeCount"
    /\ len' = len + 1
    /\ Goto(p, "storeFirst")
    /\ local' = [local EXCEPT ![p].n = len + 1]
    /\ UNCHANGED <<items, firstKey>>

\* MUTANT: a key stored into an empty cache does not become firstKey.
StoreFirstOnlySmaller(p) ==
    /\ pc[p] = "storeFirst"
    /\ IF local[p].key < firstKey
         THEN Goto(p, "storeSetFirst") /\ UNCHANGED local
         ELSE Done(p)
    /\ UNCHANGED <<items, len, firstKey>>

StoreFirst(p) ==
    /\ pc[p] = "storeFirst"
    /\ IF local[p].n = 1 \/ local[p].key < firstKey
         THEN Goto(p, "storeSetFirst") /\ UNCHANGED local
         ELSE Done(p)
    /\ UNCHANGED <<items, len, firstKey>>

StoreSetFirst(p) ==
    /\ pc[p] = "storeSetFirst"
    /\ firstKey' = local[p].key
    /\ Done(p)
    /\ UNCHANGED <<items, len>>

\* MUTANT: an overwritten entry is counted again.
StoreLoadedCounts(p, k, v) ==
    /\ pc[p] = "idle" /\ Drift < MaxDrift
    /\ k \in Present
    /\ items' = [items EXCEPT ![k] = v]
    /\ Goto(p, "storeCount")
    /\ local' = [local EXCEPT ![p].key = k]
    /\ UNCHANGED <<len, firstKey>>

\* MUTANT: the value to overwrite with is lost.
StoreLoadedNoValue(p, k, v) ==
    /\ pc[p] = "idle" /\ Drift < MaxDrift
    /\ k \in Present
    /\ Goto(p, "storeOverwrite")
    /\ local' = [local EXCEPT ![p].key = k]
    /\ UNCHANGED <<items, len, firstKey>>

StoreLoaded(p, k, v) ==
    /\ pc[p] = "idle" /\ Drift < MaxDrift
    /\ k \in Present
    /\ Goto(p, "storeOverwrite")
    /\ local' = [local EXCEPT ![p].key = k, ![p].val = v]
    /\ UNCHANGED <<items, len, firstKey>>

\* MUTANT: the entry is only replaced if it is still there.
StoreOverwriteReplaces(p) ==
    /\ pc[p] = "storeOverwrite"
    /\ items' = IF local[p].key \in Present
                  THEN [items EXCEPT ![local[p].key] = local[p].val]
                  ELSE items
    /\ Done(p)
    /\ UNCHANGED <<len, firstKey>>

StoreOverwrite(p) ==
    /\ pc[p] = "storeOverwrite"
    /\ items' = [items EXCEPT ![local[p].key] = local[p].val]
    /\ Done(p)
    /\ UNCHANGED <<len, firstKey>>
-----------------------------------------------------------------------------
(***************************************************************************)
(* Delete: under the lock, LoadAndDelete; if the key was there, uncount it *)
(* and, if it was firstKey, look for the smallest key left.                *)
(***************************************************************************)
DeleteLock(p, k) ==
    /\ pc[p] = "idle"
    /\ Writers = {} /\ Readers = {}
    /\ Goto(p, "deleteRemove")
    /\ local' = [local EXCEPT ![p].key = k]
    /\ UNCHANGED <<items, len, firstKey>>

DeleteRemove(p) ==
    /\ pc[p] = "deleteRemove"
    /\ items' = [items EXCEPT ![local[p].key] = NoValue]
    /\ IF local[p].key \in Present
         THEN Goto(p, "deleteUncount") /\ UNCHANGED local
         ELSE Done(p)
    /\ UNCHANGED <<len, firstKey>>

DeleteUncount(p) ==
    /\ pc[p] = "deleteUncount"
    /\ len' = len - 1
    /\ Goto(p, "deleteFirst")
    /\ UNCHANGED <<items, firstKey, local>>

DeleteFirst(p) ==
    /\ pc[p] = "deleteFirst"
    /\ IF local[p].key = firstKey
         THEN /\ Goto(p, "deleteRescan")
              /\ local' = [local EXCEPT ![p].keys = Present]
         ELSE Done(p)
    /\ UNCHANGED <<items, len, firstKey>>

DeleteRescan(p) ==
    /\ pc[p] = "deleteRescan"
    /\ \E S \in Visited(local[p].keys), next \in Keys \cup {0} :
         Smallest(next, S) /\ firstKey' = next
    /\ Done(p)
    /\ UNCHANGED <<items, len>>
-----------------------------------------------------------------------------
(***************************************************************************)
(* Cleanup, called by the memory monitor (Run): under the lock, drop the   *)
(* len / Divisor smallest of the keys that Range visited.                  *)
(***************************************************************************)
\* MUTANT: Cleanup takes the lock shared.
CleanupLockShared(p) ==
    /\ pc[p] = "idle"
    /\ {q \in Writers : pc[q] \in DeletePC} = {}
    /\ Goto(p, "cleanupSize")
    /\ UNCHANGED <<items, len, firstKey, local>>

CleanupLock(p) ==
    /\ pc[p] = "idle"
    /\ Writers = {} /\ Readers = {}
    /\ Goto(p, "cleanupSize")
    /\ UNCHANGED <<items, len, firstKey, local>>

CleanupSize(p) ==
    /\ pc[p] = "cleanupSize"
    /\ IF len \div Divisor > 0
         THEN /\ Goto(p, "cleanupCollect")
              /\ local' = [local EXCEPT ![p].n = len \div Divisor,
                                        ![p].keys = Present]
         ELSE Done(p)
    /\ UNCHANGED <<items, len, firstKey>>

CleanupCollect(p) ==
    /\ pc[p] = "cleanupCollect"
    /\ \E S \in Visited(local[p].keys) :
         IF S = {}
           THEN Done(p)
           ELSE /\ Goto(p, "cleanupEvict")
                /\ local' = [local EXCEPT
                     ![p].keys = S,
                     ![p].n = IF @ > Cardinality(S) THEN Cardinality(S) ELSE @]
    /\ UNCHANGED <<items, len, firstKey>>

CleanupEvict(p) ==
    /\ pc[p] = "cleanupEvict"
    /\ \E k \in local[p].keys :
         /\ IsMin(k, local[p].keys)
         /\ items' = [items EXCEPT ![k] = NoValue]
         /\ local' = [local EXCEPT ![p].keys = @ \ {k}]
    /\ Goto(p, "cleanupUncount")
    /\ UNCHANGED <<len, firstKey>>

CleanupUncount(p) ==
    /\ pc[p] = "cleanupUncount"
    /\ len' = len - 1
    /\ Goto(p, IF local[p].n = 1 THEN "cleanupPublish" ELSE "cleanupEvict")
    /\ local' = [local EXCEPT ![p].n = @ - 1]
    /\ UNCHANGED <<items, firstKey>>

CleanupPublish(p) ==
    /\ pc[p] = "cleanupPublish"
    /\ \E first \in Keys \cup {0} :
         Smallest(first, local[p].keys) /\ firstKey' = first
    /\ Done(p)
    /\ UNCHANGED <<items, len>>
-----------------------------------------------------------------------------
(***************************************************************************)
(* List: under the shared lock, allocate for len entries, Range, then read *)
(* firstKey.  A negative capacity panics, and the deferred RUnlock runs.   *)
(***************************************************************************)
ListLock(p) ==
    /\ pc[p] = "idle"
    /\ Writers = {}
    /\ Goto(p, "listLen")
    /\ UNCHANGED <<items, len, firstKey, local>>

ListLen(p) ==
    /\ pc[p] = "listLen"
    /\ IF len < 0
         THEN Done(p)
         ELSE /\ Goto(p, "listRange")
              /\ local' = [local EXCEPT ![p].keys = Present]
    /\ UNCHANGED <<items, len, firstKey>>

ListRange(p) ==
    /\ pc[p] = "listRange"
    /\ \E S \in Visited(local[p].keys) :
         local' = [local EXCEPT ![p].keys = S]
    /\ Goto(p, "listFirst")
    /\ UNCHANGED <<items, len, firstKey>>

\* Returns local[p].keys and firstKey.
ListFirst(p) ==
    /\ pc[p] = "listFirst"
    /\ Done(p)
    /\ UNCHANGED <<items, len, firstKey>>
-----------------------------------------------------------------------------
Store(p) ==
    \/ \E k \in Keys, v \in Values : \/ StoreInsert(p, k, v)
                                    \/ StoreLoaded(p, k, v)
    \/ StoreCount(p) \/ StoreFirst(p) \/ StoreSetFirst(p) \/ StoreOverwrite(p)

Delete(p) ==
    \/ \E k \in Keys : DeleteLock(p, k)
    \/ DeleteRemove(p) \/ DeleteUncount(p) \/ DeleteFirst(p) \/ DeleteRescan(p)

Cleanup(p) ==
    \/ CleanupLock(p) \/ CleanupSize(p) \/ CleanupCollect(p)
    \/ CleanupEvict(p) \/ CleanupUncount(p) \/ CleanupPublish(p)

List(p) == ListLock(p) \/ ListLen(p) \/ ListRange(p) \/ ListFirst(p)

Next == \E p \in Procs : Store(p) \/ Delete(p) \/ Cleanup(p) \/ List(p)

Spec == Init /\ [][Next]_vars
-----------------------------------------------------------------------------
(***************************************************************************)
(* The cache as a map: what a goroutine is doing, and what it has yet to   *)
(* write.                                                                  *)
(***************************************************************************)
PhaseOf(step) ==
    IF step = "idle" THEN "idle"
    ELSE IF step \in CleanupPC THEN "cleanup"
    ELSE IF step \in ListPC THEN "list"
    ELSE IF step \in {"storeOverwrite", "deleteRemove"} THEN "pending"
    ELSE "returning"

CallOf(step, l) ==
    [key |-> IF step \in {"storeOverwrite", "deleteRemove"} THEN l.key ELSE 0,
     val |-> IF step = "storeOverwrite" THEN l.val ELSE NoValue]

Phase == [p \in Procs |-> PhaseOf(pc[p])]
Call == [p \in Procs |-> CallOf(pc[p], local[p])]

Map == INSTANCE AtomicMap WITH map <- items, phase <- Phase, call <- Call
-----------------------------------------------------------------------------
(***************************************************************************)
(* Properties                                                              *)
(***************************************************************************)
\* Every Store writes its value and every Delete removes its key exactly once
\* while it runs, although a Store that found the key writes it in a second
\* step, when the key may be gone; nothing else removes an entry, except a
\* Cleanup.  The counter and firstKey do not come into it.
\* (LoadOrStore, then Store, in Store; LoadAndDelete in Delete)
MapSpec == Map!MapSpec

\* The counter never runs ahead of the map: whatever Stores, Deletes and
\* Cleanups do to each other, len is at most the number of entries once the
\* pending increments and decrements are accounted for.  (c.len.Add calls)
LenNeverOvercounts == Drift >= 0

\* A Store found the key and overwrites it when it is gone.
LostOverwrite(p) == StoreOverwrite(p) /\ local[p].key \notin Present

\* There is one way only for the counter to go wrong, for good and by one: the
\* second write of a Store puts back a key that was removed after the Store
\* had found it.  Nothing else that goroutines do to each other is to blame.
\* (c.items.Store after c.items.LoadOrStore, uncounted; c.len.Add calls)
OnlyLostOverwritesDrift ==
    [][ \/ Drift' = Drift
        \/ Drift' = Drift + 1 /\ \E p \in Procs : LostOverwrite(p)]_vars

\* While a goroutine ranges over the map or works off the keys it found, none
\* of those keys disappears under it: List never mixes the states before and
\* after a Cleanup, and Cleanup's unconditional c.len.Add(-1) always stands
\* for an entry that was there.  (snapshotMu in Delete, List and Cleanup)
RangeSafe ==
    \A p \in Procs :
        pc[p] \in {"deleteRescan", "cleanupCollect", "cleanupEvict",
                   "cleanupUncount", "cleanupPublish", "listRange",
                   "listFirst"}
            => local[p].keys \subseteq Present

\* Cleanup drops at most one entry in Divisor, although it sizes the cut by
\* the counter and takes it from the map, and so never empties the cache: the
\* branches for toRemove > len(keys) and firstKey.Store(0) are dead code.
CleanupKeepsMost ==
    \A p \in Procs :
        /\ pc[p] = "cleanupEvict"
              => local[p].n * Divisor <= Cardinality(local[p].keys)
        /\ pc[p] = "cleanupPublish" => local[p].keys # {}

AtRest == \A p \in Procs : pc[p] = "idle"

\* Between calls, if calls do not overlap: len counts the entries and firstKey
\* is the smallest key.  (the bookkeeping of Store, Delete and Cleanup)
ExactAtRest ==
    AtRest => /\ len = Cardinality(Present)
              /\ Present # {} => IsMin(firstKey, Present)

\* cache.go:36 and 127-129: len never goes negative.
LenNeverNegative == len >= 0

\* cache.go:127: Len returns the current number of cached entries, at least
\* when no call is in progress.
LenCountsEntries == AtRest => len = Cardinality(Present)
=============================================================================
