----------------------- MODULE CacheSequentialProofs -----------------------
(***************************************************************************)
(* Proofs about Cache when calls do not overlap: any number of goroutines  *)
(* may take turns, and then len and firstKey are exact between calls.      *)
(***************************************************************************)
EXTENDS CacheProofs

\* At most one call is in progress.
OneAtATime == \A p, q \in Procs : pc[p] # "idle" /\ pc[q] # "idle" => p = q

FirstIsMin == Present # {} => IsMin(firstKey, Present)

(***************************************************************************)
(* What the goroutine that runs knows of firstKey: it is the smallest key  *)
(* before the call's effect, then of what was there before, and the keys a *)
(* Range found stay all there are.                                         *)
(***************************************************************************)
FirstOK(p) ==
    LET k == local[p].key IN
    /\ pc[p] \in {"storeOverwrite", "deleteRemove", "cleanupSize"} \cup ListPC
          => FirstIsMin
    /\ pc[p] = "storeOverwrite" => k \in Present
    /\ pc[p] \in {"storeCount", "storeFirst"}
          => /\ k \in Present
             /\ Present # {k} => IsMin(firstKey, Present \ {k})
    /\ pc[p] = "storeFirst" => local[p].n = Cardinality(Present)
    /\ pc[p] = "storeSetFirst" => IsMin(k, Present)
    /\ pc[p] \in {"deleteUncount", "deleteFirst"}
          => k \notin Present /\ IsMin(firstKey, Present \cup {k})
    /\ pc[p] \in {"deleteRescan", "cleanupCollect", "cleanupEvict",
                  "cleanupUncount", "cleanupPublish"}
          => local[p].keys = Present

SeqOK ==
    /\ Drift = 0
    /\ \A p \in Procs : FirstOK(p)
    /\ AtRest => FirstIsMin
-----------------------------------------------------------------------------
\* What is to be shown of a step that takes the goroutine p to s.
Settled(p, s) ==
    /\ Goto(p, s)
    /\ FirstOK(p)'
    /\ s = "idle" => FirstIsMin'

\* Nobody else is in a call when p begins, works on, or ends one.
LEMMA Alone ==
    ASSUME TypeOK, OneAtATime, OneAtATime', NEW p \in Procs, NEW s,
           Goto(p, s), pc[p] # "idle" \/ s # "idle"
    PROVE  /\ pc'[p] = s
           /\ \A q \in Procs : q # p => pc[q] = "idle" /\ pc'[q] = "idle"
<1>1. pc'[p] = s /\ \A q \in Procs : q # p => pc'[q] = pc[q]
  BY DEF Goto, TypeOK
<1> QED
  BY <1>1 DEF OneAtATime

\* Before a call begins firstKey is the smallest key.
LEMMA Begins ==
    ASSUME TypeOK, OneAtATime, OneAtATime', SeqOK, NEW p \in Procs, NEW s,
           Goto(p, s), pc[p] = "idle", s # "idle"
    PROVE  FirstIsMin
<1>1. AtRest
  BY Alone DEF AtRest
<1> QED
  BY <1>1 DEF SeqOK

\* The goroutines that take no step know nothing of firstKey.
LEMMA Rest ==
    ASSUME TypeOK, OneAtATime, OneAtATime', NEW p \in Procs, NEW s,
           Settled(p, s), pc[p] # "idle" \/ s # "idle"
    PROVE  /\ \A q \in Procs : FirstOK(q)'
           /\ AtRest' => FirstIsMin'
<1>1. /\ pc'[p] = s
      /\ \A q \in Procs : q # p => pc'[q] = "idle"
  BY Alone DEF Settled
<1>2. ASSUME NEW q \in Procs, q # p PROVE FirstOK(q)'
  BY <1>1, <1>2 DEF FirstOK, ListPC
<1>3. AtRest' => s = "idle"
  BY <1>1 DEF AtRest
<1> QED
  BY <1>2, <1>3 DEF Settled

\* A call that counts its new key has seen all entries.
LEMMA CountsAll ==
    ASSUME TypeOK, OneAtATime, SeqOK, NEW p \in Procs, pc[p] = "storeCount"
    PROVE  len + 1 = Cardinality(Present)
<1>1. Uncounted = {p} /\ Overcounted = {}
  BY DEF OneAtATime, Uncounted, Overcounted
<1>2. Cardinality(Uncounted) = 1 /\ Cardinality(Overcounted) = 0
  BY <1>1, FS_Singleton, FS_EmptySet
<1> QED
  BY <1>2, CountersFinite DEF SeqOK, Drift

\* One entry: it is the one.
LEMMA OnlyEntry ==
    ASSUME TypeOK, NEW k \in Present
    PROVE  Cardinality(Present) = 1 <=> Present = {k}
BY CountersFinite, FS_Singleton
-----------------------------------------------------------------------------
(***************************************************************************)
(* The steps of the four calls.                                            *)
(***************************************************************************)
\* Store makes a new key firstKey if it is the only one or the smallest.
LEMMA StoreSettles ==
    ASSUME TypeOK, OneAtATime, OneAtATime', SeqOK, NEW p \in Procs, Store(p)
    PROVE  \E s : Settled(p, s) /\ (pc[p] # "idle" \/ s # "idle")
<1> USE CacheAssumption DEF Settled, FirstOK, ListPC
<1>0. FirstOK(p) /\ local[p] \in Locals
  BY DEF SeqOK, TypeOK
<1>1. ASSUME NEW k \in Keys, NEW v \in Values, StoreInsert(p, k, v)
      PROVE  Settled(p, "storeCount")
  <2>1. Goto(p, "storeCount") /\ pc[p] = "idle" /\ pc'[p] = "storeCount"
    BY <1>1 DEF StoreInsert, Goto, TypeOK
  <2>2. FirstIsMin
    BY <2>1, Begins
  <2>3. /\ Present' = Present \cup {k} /\ k \notin Present
        /\ firstKey' = firstKey /\ local'[p].key = k
    BY <1>1 DEF StoreInsert, Present, TypeOK, Locals
  <2>4. Present' \ {k} = Present
    BY <2>3
  <2> QED
    BY <2>1, <2>2, <2>3, <2>4 DEF FirstIsMin
<1>2. ASSUME NEW k \in Keys, NEW v \in Values, StoreLoaded(p, k, v)
      PROVE  Settled(p, "storeOverwrite")
  <2>1. /\ Goto(p, "storeOverwrite") /\ pc[p] = "idle"
        /\ pc'[p] = "storeOverwrite"
    BY <1>2 DEF StoreLoaded, Goto, TypeOK
  <2>2. FirstIsMin
    BY <2>1, Begins
  <2>3. /\ Present' = Present /\ k \in Present
        /\ firstKey' = firstKey /\ local'[p].key = k
    BY <1>2 DEF StoreLoaded, Present, TypeOK, Locals
  <2> QED
    BY <2>1, <2>2, <2>3 DEF FirstIsMin
<1>3. ASSUME StoreCount(p) PROVE Settled(p, "storeFirst")
  <2>1. /\ Goto(p, "storeFirst") /\ pc[p] = "storeCount"
        /\ pc'[p] = "storeFirst"
    BY <1>3 DEF StoreCount, Goto, TypeOK
  <2>2. /\ Present' = Present /\ firstKey' = firstKey
        /\ local'[p].key = local[p].key /\ local'[p].n = len + 1
    BY <1>3 DEF StoreCount, Present, TypeOK, Locals
  <2>3. local'[p].n = Cardinality(Present')
    BY <2>1, <2>2, CountsAll
  <2> QED
    BY <1>0, <2>1, <2>2, <2>3
<1>4. ASSUME StoreFirst(p)
      PROVE  Settled(p, "storeSetFirst") \/ Settled(p, "idle")
  <2> DEFINE k == local[p].key
  <2>1. pc[p] = "storeFirst" /\ k \in Keys /\ firstKey \in Nat
    BY <1>4 DEF StoreFirst, TypeOK, StorePC
  <2>2. /\ k \in Present /\ local[p].n = Cardinality(Present)
        /\ Present # {k} => IsMin(firstKey, Present \ {k})
    BY <1>0, <2>1
  <2>3. local[p].n = 1 <=> Present = {k}
    BY <2>2, OnlyEntry
  <2>4. Present' = Present /\ firstKey' = firstKey
    BY <1>4 DEF StoreFirst, Present
  <2>5. Present \subseteq Nat
    BY DEF Present
  <2>6. CASE local[p].n = 1 \/ k < firstKey
    <3>1. /\ Goto(p, "storeSetFirst") /\ pc'[p] = "storeSetFirst"
          /\ local' = local
      BY <1>4, <2>6 DEF StoreFirst, Goto, TypeOK
    <3>2. IsMin(k, Present)
      <4> HIDE DEF k
      <4>1. CASE Present = {k}
        BY <2>2, <2>5, <4>1 DEF IsMin
      <4>2. CASE Present # {k} /\ k < firstKey
        BY <2>1, <2>2, <2>5, <4>2 DEF IsMin
      <4> QED
        BY <2>3, <2>6, <4>1, <4>2 DEF k
    <3> QED
      BY <2>4, <3>1, <3>2
  <2>7. CASE ~(local[p].n = 1 \/ k < firstKey)
    <3>1. Goto(p, "idle") /\ pc'[p] = "idle"
      BY <1>4, <2>7 DEF StoreFirst, Done, Goto, TypeOK
    <3>2. IsMin(firstKey, Present)
      <4>1. Present # {k}
        BY <2>3, <2>7
      <4>2. ~(k < firstKey)
        BY <2>7
      <4> HIDE DEF k
      <4>3. k \in Nat /\ firstKey <= k
        BY <2>1, <2>2, <2>5, <4>2
      <4> QED
        BY <2>1, <2>2, <2>5, <4>1, <4>3 DEF IsMin
    <3> QED
      BY <2>4, <3>1, <3>2 DEF FirstIsMin
  <2> QED
    BY <2>6, <2>7
<1>5. ASSUME StoreSetFirst(p) PROVE Settled(p, "idle")
  <2>1. /\ Goto(p, "idle") /\ pc[p] = "storeSetFirst" /\ pc'[p] = "idle"
        /\ Present' = Present /\ firstKey' = local[p].key
    BY <1>5 DEF StoreSetFirst, Done, Goto, Present, TypeOK
  <2> QED
    BY <1>0, <2>1 DEF FirstIsMin
<1>6. ASSUME StoreOverwrite(p) PROVE Settled(p, "idle")
  <2>1. /\ Goto(p, "idle") /\ pc[p] = "storeOverwrite" /\ pc'[p] = "idle"
        /\ Present' = Present \cup {local[p].key} /\ firstKey' = firstKey
    BY <1>6 DEF StoreOverwrite, Done, Goto, Present, TypeOK, StorePC
  <2>2. Present' = Present
    BY <1>0, <2>1
  <2> QED
    BY <1>0, <2>1, <2>2 DEF FirstIsMin
<1>7. ASSUME StoreCount(p) \/ StoreFirst(p) \/ StoreSetFirst(p)
                \/ StoreOverwrite(p)
      PROVE  pc[p] # "idle"
  BY <1>7 DEF StoreCount, StoreFirst, StoreSetFirst, StoreOverwrite
<1> HIDE DEF Settled, FirstOK
<1> QED
  BY <1>1, <1>2, <1>3, <1>4, <1>5, <1>6, <1>7 DEF Store

\* Delete looks for the smallest key left if it removed firstKey.
LEMMA DeleteSettles ==
    ASSUME TypeOK, OneAtATime, OneAtATime', SeqOK, NEW p \in Procs, Delete(p)
    PROVE  \E s : Settled(p, s) /\ (pc[p] # "idle" \/ s # "idle")
<1> USE CacheAssumption DEF Settled, FirstOK, ListPC
<1>0. FirstOK(p) /\ local[p] \in Locals
  BY DEF SeqOK, TypeOK
<1>1. ASSUME NEW k \in Keys, DeleteLock(p, k)
      PROVE  Settled(p, "deleteRemove")
  <2>1. Goto(p, "deleteRemove") /\ pc[p] = "idle" /\ pc'[p] = "deleteRemove"
    BY <1>1 DEF DeleteLock, Goto, TypeOK
  <2>2. FirstIsMin
    BY <2>1, Begins
  <2>3. Present' = Present /\ firstKey' = firstKey
    BY <1>1 DEF DeleteLock, Present
  <2> QED
    BY <2>1, <2>2, <2>3 DEF FirstIsMin
<1>2. ASSUME DeleteRemove(p)
      PROVE  Settled(p, "deleteUncount") \/ Settled(p, "idle")
  <2> DEFINE k == local[p].key
  <2>1. pc[p] = "deleteRemove" /\ k \in Keys /\ firstKey' = firstKey
    BY <1>2 DEF DeleteRemove, TypeOK, DeletePC
  <2>2. FirstIsMin
    BY <1>0, <2>1
  <2>3. Present' = Present \ {k}
    BY <1>2, <2>1 DEF DeleteRemove, Present, TypeOK
  <2>4. CASE k \in Present
    <3>1. /\ Goto(p, "deleteUncount") /\ pc'[p] = "deleteUncount"
          /\ local' = local
      BY <1>2, <2>4 DEF DeleteRemove, Goto, TypeOK
    <3>2. Present' \cup {k} = Present
      BY <2>3, <2>4
    <3> QED
      BY <2>1, <2>2, <2>3, <2>4, <3>1, <3>2 DEF FirstIsMin
  <2>5. CASE k \notin Present
    <3>1. Goto(p, "idle") /\ pc'[p] = "idle"
      BY <1>2, <2>5 DEF DeleteRemove, Done, Goto, TypeOK
    <3>2. Present' = Present
      BY <2>3, <2>5
    <3> QED
      BY <2>1, <2>2, <3>1, <3>2 DEF FirstIsMin
  <2> QED
    BY <2>4, <2>5
<1>3. ASSUME DeleteUncount(p) PROVE Settled(p, "deleteFirst")
  <2>1. /\ Goto(p, "deleteFirst") /\ pc[p] = "deleteUncount"
        /\ pc'[p] = "deleteFirst" /\ Present' = Present
        /\ firstKey' = firstKey /\ local' = local
    BY <1>3 DEF DeleteUncount, Goto, Present, TypeOK
  <2> QED
    BY <1>0, <2>1
<1>4. ASSUME DeleteFirst(p)
      PROVE  Settled(p, "deleteRescan") \/ Settled(p, "idle")
  <2> DEFINE k == local[p].key
  <2>1. /\ pc[p] = "deleteFirst"
        /\ Present' = Present /\ firstKey' = firstKey
    BY <1>4 DEF DeleteFirst, Present
  <2>2. IsMin(firstKey, Present \cup {k})
    BY <1>0, <2>1
  <2>3. CASE k = firstKey
    <3>1. /\ Goto(p, "deleteRescan") /\ pc'[p] = "deleteRescan"
          /\ local'[p].keys = Present
      BY <1>4, <2>3 DEF DeleteFirst, Goto, TypeOK, Locals
    <3> QED
      BY <2>1, <3>1
  <2>4. CASE k # firstKey
    <3>1. Goto(p, "idle") /\ pc'[p] = "idle"
      BY <1>4, <2>4 DEF DeleteFirst, Done, Goto, TypeOK
    <3>2. IsMin(firstKey, Present)
      BY <2>2, <2>4 DEF IsMin
    <3> QED
      BY <2>1, <3>1, <3>2 DEF FirstIsMin
  <2> QED
    BY <2>3, <2>4
<1>5. ASSUME DeleteRescan(p) PROVE Settled(p, "idle")
  <2>1. /\ Goto(p, "idle") /\ pc[p] = "deleteRescan" /\ pc'[p] = "idle"
        /\ Present' = Present
    BY <1>5 DEF DeleteRescan, Done, Goto, Present, TypeOK
  <2>2. local[p].keys = Present
    BY <1>0, <2>1
  <2>3. PICK S \in Visited(local[p].keys), next \in Keys \cup {0} :
          Smallest(next, S) /\ firstKey' = next
    BY <1>5 DEF DeleteRescan
  <2>4. S = Present
    BY <2>2 DEF Visited
  <2> QED
    BY <2>1, <2>3, <2>4 DEF FirstIsMin, Smallest
<1>6. ASSUME DeleteRemove(p) \/ DeleteUncount(p) \/ DeleteFirst(p)
                \/ DeleteRescan(p)
      PROVE  pc[p] # "idle"
  BY <1>6 DEF DeleteRemove, DeleteUncount, DeleteFirst, DeleteRescan
<1> HIDE DEF Settled, FirstOK
<1> QED
  BY <1>1, <1>2, <1>3, <1>4, <1>5, <1>6 DEF Delete

\* Cleanup publishes the smallest of the keys it leaves.
LEMMA CleanupSettles ==
    ASSUME TypeOK, OneAtATime, OneAtATime', SeqOK, NEW p \in Procs,
           Cleanup(p)
    PROVE  \E s : Settled(p, s) /\ (pc[p] # "idle" \/ s # "idle")
<1> USE CacheAssumption DEF Settled, FirstOK, ListPC
<1>0. FirstOK(p) /\ local[p] \in Locals
  BY DEF SeqOK, TypeOK
<1>1. ASSUME CleanupLock(p) PROVE Settled(p, "cleanupSize")
  <2>1. /\ Goto(p, "cleanupSize") /\ pc[p] = "idle"
        /\ pc'[p] = "cleanupSize"
    BY <1>1 DEF CleanupLock, Goto, TypeOK
  <2>2. FirstIsMin
    BY <2>1, Begins
  <2>3. Present' = Present /\ firstKey' = firstKey
    BY <1>1 DEF CleanupLock, Present
  <2> QED
    BY <2>1, <2>2, <2>3 DEF FirstIsMin
<1>2. ASSUME CleanupSize(p)
      PROVE  Settled(p, "cleanupCollect") \/ Settled(p, "idle")
  <2>1. /\ pc[p] = "cleanupSize"
        /\ Present' = Present /\ firstKey' = firstKey
    BY <1>2 DEF CleanupSize, Present
  <2>2. FirstIsMin
    BY <1>0, <2>1
  <2>3. CASE len \div Divisor > 0
    <3>1. /\ Goto(p, "cleanupCollect") /\ pc'[p] = "cleanupCollect"
          /\ local'[p].keys = Present
      BY <1>2, <2>3 DEF CleanupSize, Goto, TypeOK, Locals
    <3> QED
      BY <2>1, <3>1
  <2>4. CASE ~(len \div Divisor > 0)
    <3>1. Goto(p, "idle") /\ pc'[p] = "idle"
      BY <1>2, <2>4 DEF CleanupSize, Done, Goto, TypeOK
    <3> QED
      BY <2>1, <2>2, <3>1 DEF FirstIsMin
  <2> QED
    BY <2>3, <2>4
<1>3. ASSUME CleanupCollect(p)
      PROVE  Settled(p, "cleanupEvict") \/ Settled(p, "idle")
  <2>1. pc[p] = "cleanupCollect" /\ Present' = Present
    BY <1>3 DEF CleanupCollect, Present
  <2>2. PICK S \in Visited(local[p].keys) :
          IF S = {}
            THEN Done(p)
            ELSE /\ Goto(p, "cleanupEvict")
                 /\ local' = [local EXCEPT
                      ![p].keys = S,
                      ![p].n = IF @ > Cardinality(S)
                                 THEN Cardinality(S) ELSE @]
    BY <1>3 DEF CleanupCollect
  <2>3. S = Present
    BY <1>0, <2>1 DEF Visited
  <2>4. CASE S = {}
    <3>1. Goto(p, "idle") /\ pc'[p] = "idle"
      BY <2>2, <2>4 DEF Done, Goto, TypeOK
    <3> QED
      BY <2>1, <2>3, <2>4, <3>1 DEF FirstIsMin
  <2>5. CASE S # {}
    <3>1. /\ Goto(p, "cleanupEvict") /\ pc'[p] = "cleanupEvict"
          /\ local'[p].keys = S
      BY <2>2, <2>5 DEF Goto, TypeOK, Locals
    <3> QED
      BY <2>1, <2>3, <3>1
  <2> QED
    BY <2>4, <2>5
<1>4. ASSUME CleanupEvict(p) PROVE Settled(p, "cleanupUncount")
  <2>1. /\ Goto(p, "cleanupUncount") /\ pc[p] = "cleanupEvict"
        /\ pc'[p] = "cleanupUncount"
    BY <1>4 DEF CleanupEvict, Goto, TypeOK
  <2>2. PICK k \in local[p].keys :
          /\ items' = [items EXCEPT ![k] = NoValue]
          /\ local' = [local EXCEPT ![p].keys = @ \ {k}]
    BY <1>4 DEF CleanupEvict
  <2>3. Present' = Present \ {k}
    BY <2>2 DEF Present, TypeOK
  <2>4. local'[p].keys = local[p].keys \ {k}
    BY <2>2 DEF TypeOK, Locals
  <2> QED
    BY <1>0, <2>1, <2>3, <2>4
<1>5. ASSUME CleanupUncount(p)
      PROVE  Settled(p, "cleanupPublish") \/ Settled(p, "cleanupEvict")
  <2>1. /\ pc[p] = "cleanupUncount" /\ Present' = Present
        /\ local'[p].keys = local[p].keys
    BY <1>5 DEF CleanupUncount, Present, TypeOK, Locals
  <2>2. PICK s \in {"cleanupPublish", "cleanupEvict"} :
          Goto(p, s) /\ pc'[p] = s
    BY <1>5 DEF CleanupUncount, Goto, TypeOK
  <2> QED
    BY <1>0, <2>1, <2>2
<1>6. ASSUME CleanupPublish(p) PROVE Settled(p, "idle")
  <2>1. /\ Goto(p, "idle") /\ pc[p] = "cleanupPublish" /\ pc'[p] = "idle"
        /\ Present' = Present
    BY <1>6 DEF CleanupPublish, Done, Goto, Present, TypeOK
  <2>2. Smallest(firstKey', local[p].keys)
    BY <1>6 DEF CleanupPublish
  <2> QED
    BY <1>0, <2>1, <2>2 DEF FirstIsMin, Smallest
<1>7. ASSUME CleanupSize(p) \/ CleanupCollect(p) \/ CleanupEvict(p)
                \/ CleanupUncount(p) \/ CleanupPublish(p)
      PROVE  pc[p] # "idle"
  BY <1>7 DEF CleanupSize, CleanupCollect, CleanupEvict, CleanupUncount,
      CleanupPublish
<1> HIDE DEF Settled, FirstOK
<1> QED
  BY <1>1, <1>2, <1>3, <1>4, <1>5, <1>6, <1>7 DEF Cleanup

\* List changes nothing.
LEMMA ListSettles ==
    ASSUME TypeOK, OneAtATime, OneAtATime', SeqOK, NEW p \in Procs, List(p)
    PROVE  \E s : Settled(p, s) /\ (pc[p] # "idle" \/ s # "idle")
<1>1. PICK s \in ListPC \cup {"idle"} :
        /\ Goto(p, s) /\ pc'[p] = s
        /\ pc[p] = "idle" \/ pc[p] \in ListPC
        /\ pc[p] # "idle" \/ s # "idle"
        /\ Present' = Present /\ firstKey' = firstKey
  BY DEF List, ListLock, ListLen, ListRange, ListFirst, ListPC, Done, Goto,
      Present, TypeOK
<1>2. FirstIsMin
  BY <1>1, Begins DEF SeqOK, FirstOK
<1>3. Settled(p, s)
  BY <1>1, <1>2 DEF Settled, FirstOK, FirstIsMin, ListPC
<1> QED
  BY <1>1, <1>3
-----------------------------------------------------------------------------
(***************************************************************************)
(* The theorems.                                                           *)
(***************************************************************************)
\* Every step keeps len and firstKey right: no overwrite is lost when nobody
\* else is there to remove its key.
LEMMA SeqStep ==
    IndInv /\ OneAtATime /\ OneAtATime' /\ SeqOK /\ [Next]_vars => SeqOK'
<1> SUFFICES ASSUME IndInv, OneAtATime, OneAtATime', SeqOK, [Next]_vars
             PROVE  SeqOK'
  OBVIOUS
<1>1. TypeOK /\ RangeSafe
  BY DEF IndInv
<1>2. CASE UNCHANGED vars
  BY <1>2 DEF vars, SeqOK, FirstOK, FirstIsMin, AtRest, Drift, Present,
      Uncounted, Overcounted
<1>3. CASE Next
  <2>1. \A p \in Procs : ~LostOverwrite(p)
    BY DEF SeqOK, FirstOK, LostOverwrite, StoreOverwrite
  <2>2. Drift' = 0
    BY <1>1, <2>1, DriftStep DEF DriftKept, SeqOK
  <2>3. PICK p \in Procs : Store(p) \/ Delete(p) \/ Cleanup(p) \/ List(p)
    BY <1>3 DEF Next
  <2>4. PICK s : Settled(p, s) /\ (pc[p] # "idle" \/ s # "idle")
    BY <1>1, <2>3, StoreSettles, DeleteSettles, CleanupSettles, ListSettles
  <2> QED
    BY <1>1, <2>2, <2>4, Rest DEF SeqOK
<1> QED
  BY <1>2, <1>3

\* As long as calls do not overlap, between them len counts the entries and
\* firstKey is the smallest key.  (the bookkeeping of Store, Delete, Cleanup)
THEOREM ExactWithoutOverlap == Spec /\ []OneAtATime => []ExactAtRest
<1>1. Init => SeqOK
  <2> SUFFICES ASSUME Init PROVE SeqOK
    OBVIOUS
  <2>1. Uncounted = {} /\ Overcounted = {}
    BY DEF Init, Uncounted, Overcounted
  <2>2. IsFiniteSet(Present) /\ Cardinality(Present) \in Nat
    BY CacheAssumption, FS_Subset, FS_CardinalityType DEF Present
  <2>3. Drift = 0
    BY <2>1, <2>2, FS_EmptySet DEF Drift, Init
  <2>4. FirstIsMin
    BY DEF Init, FirstIsMin
  <2>5. \A p \in Procs : FirstOK(p)
    BY DEF Init, FirstOK, ListPC
  <2> QED
    BY <2>3, <2>4, <2>5 DEF SeqOK
<1>2. IndInv /\ SeqOK => ExactAtRest
  <2> SUFFICES ASSUME IndInv, SeqOK, AtRest
               PROVE  /\ len = Cardinality(Present)
                      /\ Present # {} => IsMin(firstKey, Present)
    BY DEF ExactAtRest
  <2>1. Uncounted = {} /\ Overcounted = {}
    BY DEF AtRest, Uncounted, Overcounted
  <2>2. len = Cardinality(Present)
    BY <2>1, FS_EmptySet, CountersFinite DEF Drift, SeqOK, IndInv
  <2> QED
    BY <2>2 DEF SeqOK, FirstIsMin
<1> QED
  BY <1>1, <1>2, SeqStep, Invariance, PTL DEF Spec

\* So it is with one goroutine.
COROLLARY ExactWithOneGoroutine ==
    ASSUME NEW p, Procs = {p}
    PROVE  Spec => []ExactAtRest
<1>1. OneAtATime
  BY DEF OneAtATime
<1> QED
  BY <1>1, ExactWithoutOverlap, PTL
=============================================================================
