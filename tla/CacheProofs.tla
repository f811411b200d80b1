---------------------------- MODULE CacheProofs ----------------------------
(***************************************************************************)
(* Proofs about Cache, for any finite sets of keys and goroutines, any     *)
(* divisor of at least 2 and any bound on the drift.                       *)
(***************************************************************************)
EXTENDS Cache, FiniteSetTheorems, TLAPS

(***************************************************************************)
(* The inductive invariant.                                                *)
(***************************************************************************)
\* snapshotMu: who holds it exclusively holds it alone.
LockOK == \A p \in Writers : \A q \in Writers \cup Readers : p = q

\* The cut is never larger than one entry in Divisor of what Range must, and
\* later did, visit.
CutOK ==
    \A p \in Procs :
        /\ pc[p] \in {"cleanupCollect", "cleanupEvict", "cleanupUncount"}
              => local[p].n >= 1
        /\ pc[p] \in {"cleanupCollect", "cleanupEvict"}
              => local[p].n * Divisor <= Cardinality(local[p].keys)
        /\ pc[p] = "cleanupUncount"
              => local[p].n * Divisor <= Cardinality(local[p].keys) + 1
        /\ pc[p] = "cleanupPublish" => local[p].keys # {}

IndInv ==
    /\ TypeOK
    /\ LockOK
    /\ RangeSafe
    /\ LenNeverOvercounts
    /\ CutOK
-----------------------------------------------------------------------------
(***************************************************************************)
(* Types and the lock.                                                     *)
(***************************************************************************)
\* The fields of a goroutine's local state.
LEMMA LocalFields ==
    ASSUME TypeOK, NEW p \in Procs
    PROVE  /\ local[p].key \in Keys \cup {0}
           /\ local[p].n \in Int
           /\ local[p].keys \subseteq Keys
BY DEF TypeOK, Locals

\* Idle goroutines hold nothing, which is well typed.
LEMMA EmptyType == Empty \in Locals
BY DEF Empty, Locals

\* Every step keeps the types.
LEMMA TypeStep == TypeOK /\ [Next]_vars => TypeOK'
<1> SUFFICES ASSUME TypeOK, [Next]_vars PROVE TypeOK'
  OBVIOUS
<1> USE EmptyType, CacheAssumption DEF TypeOK, StorePC, DeletePC, CleanupPC,
    ListPC, Goto, Done
<1>1. ASSUME NEW p \in Procs, NEW k \in Keys, NEW v \in Values,
             StoreInsert(p, k, v)
      PROVE  TypeOK'
  BY <1>1 DEF StoreInsert, Locals
<1>2. ASSUME NEW p \in Procs, NEW k \in Keys, NEW v \in Values,
             StoreLoaded(p, k, v)
      PROVE  TypeOK'
  BY <1>2 DEF StoreLoaded, Locals
<1>3. ASSUME NEW p \in Procs, StoreCount(p) PROVE TypeOK'
  BY <1>3 DEF StoreCount, Locals
<1>4. ASSUME NEW p \in Procs, StoreFirst(p) PROVE TypeOK'
  BY <1>4 DEF StoreFirst
<1>5. ASSUME NEW p \in Procs, StoreSetFirst(p) PROVE TypeOK'
  BY <1>5 DEF StoreSetFirst
<1>6. ASSUME NEW p \in Procs, StoreOverwrite(p) PROVE TypeOK'
  BY <1>6 DEF StoreOverwrite
<1>7. ASSUME NEW p \in Procs, NEW k \in Keys, DeleteLock(p, k) PROVE TypeOK'
  BY <1>7 DEF DeleteLock, Locals
<1>8. ASSUME NEW p \in Procs, DeleteRemove(p) PROVE TypeOK'
  BY <1>8 DEF DeleteRemove
<1>9. ASSUME NEW p \in Procs, DeleteUncount(p) PROVE TypeOK'
  BY <1>9 DEF DeleteUncount
<1>10. ASSUME NEW p \in Procs, DeleteFirst(p) PROVE TypeOK'
  BY <1>10 DEF DeleteFirst, Locals, Present
<1>11. ASSUME NEW p \in Procs, DeleteRescan(p) PROVE TypeOK'
  BY <1>11 DEF DeleteRescan, Visited, Smallest, IsMin
<1>12. ASSUME NEW p \in Procs, CleanupLock(p) PROVE TypeOK'
  BY <1>12 DEF CleanupLock
<1>13. ASSUME NEW p \in Procs, CleanupSize(p) PROVE TypeOK'
  <2>1. len \div Divisor \in Int
    OBVIOUS
  <2> QED
    BY <1>13, <2>1 DEF CleanupSize, Locals, Present
<1>14. ASSUME NEW p \in Procs, CleanupCollect(p) PROVE TypeOK'
  <2>1. PICK S \in Visited(local[p].keys) :
          IF S = {}
            THEN Done(p)
            ELSE /\ Goto(p, "cleanupEvict")
                 /\ local' = [local EXCEPT
                      ![p].keys = S,
                      ![p].n = IF @ > Cardinality(S)
                                 THEN Cardinality(S) ELSE @]
    BY <1>14 DEF CleanupCollect
  <2>2. S \subseteq Keys /\ Cardinality(S) \in Nat
    BY FS_Subset, FS_CardinalityType DEF Visited, Present
  <2>3. local' \in [Procs -> Locals]
    BY <2>1, <2>2 DEF Locals
  <2> QED
    BY <1>14, <2>1, <2>3 DEF CleanupCollect
<1>15. ASSUME NEW p \in Procs, CleanupEvict(p) PROVE TypeOK'
  BY <1>15 DEF CleanupEvict, Locals
<1>16. ASSUME NEW p \in Procs, CleanupUncount(p) PROVE TypeOK'
  BY <1>16 DEF CleanupUncount, Locals
<1>17. ASSUME NEW p \in Procs, CleanupPublish(p) PROVE TypeOK'
  BY <1>17 DEF CleanupPublish
<1>18. ASSUME NEW p \in Procs, ListLock(p) PROVE TypeOK'
  BY <1>18 DEF ListLock
<1>19. ASSUME NEW p \in Procs, ListLen(p) PROVE TypeOK'
  BY <1>19 DEF ListLen, Locals, Present
<1>20. ASSUME NEW p \in Procs, ListRange(p) PROVE TypeOK'
  BY <1>20 DEF ListRange, Locals, Present, Visited
<1>21. ASSUME NEW p \in Procs, ListFirst(p) PROVE TypeOK'
  BY <1>21 DEF ListFirst
<1>22. CASE UNCHANGED vars
  BY <1>22 DEF vars
<1> QED
  BY <1>1, <1>2, <1>3, <1>4, <1>5, <1>6, <1>7, <1>8, <1>9, <1>10, <1>11,
     <1>12, <1>13, <1>14, <1>15, <1>16, <1>17, <1>18, <1>19, <1>20, <1>21,
         <1>22
  DEF Next, Store, Delete, Cleanup, List

\* Every step keeps the lock exclusive.
LEMMA LockStep == TypeOK /\ LockOK /\ [Next]_vars => LockOK'
<1> SUFFICES ASSUME TypeOK, LockOK, [Next]_vars PROVE LockOK'
  OBVIOUS
<1> USE DEF TypeOK, LockOK, Writers, Readers, DeletePC, CleanupPC, ListPC,
    Goto, Done
<1>1. ASSUME NEW p \in Procs, NEW k \in Keys, NEW v \in Values,
             StoreInsert(p, k, v)
      PROVE  LockOK'
  BY <1>1 DEF StoreInsert
<1>2. ASSUME NEW p \in Procs, NEW k \in Keys, NEW v \in Values,
             StoreLoaded(p, k, v)
      PROVE  LockOK'
  BY <1>2 DEF StoreLoaded
<1>3. ASSUME NEW p \in Procs, StoreCount(p) PROVE LockOK'
  BY <1>3 DEF StoreCount
<1>4. ASSUME NEW p \in Procs, StoreFirst(p) PROVE LockOK'
  BY <1>4 DEF StoreFirst
<1>5. ASSUME NEW p \in Procs, StoreSetFirst(p) PROVE LockOK'
  BY <1>5 DEF StoreSetFirst
<1>6. ASSUME NEW p \in Procs, StoreOverwrite(p) PROVE LockOK'
  BY <1>6 DEF StoreOverwrite
<1>7. ASSUME NEW p \in Procs, NEW k \in Keys, DeleteLock(p, k) PROVE LockOK'
  BY <1>7 DEF DeleteLock
<1>8. ASSUME NEW p \in Procs, DeleteRemove(p) PROVE LockOK'
  BY <1>8 DEF DeleteRemove
<1>9. ASSUME NEW p \in Procs, DeleteUncount(p) PROVE LockOK'
  BY <1>9 DEF DeleteUncount
<1>10. ASSUME NEW p \in Procs, DeleteFirst(p) PROVE LockOK'
  BY <1>10 DEF DeleteFirst
<1>11. ASSUME NEW p \in Procs, DeleteRescan(p) PROVE LockOK'
  BY <1>11 DEF DeleteRescan
<1>12. ASSUME NEW p \in Procs, CleanupLock(p) PROVE LockOK'
  BY <1>12 DEF CleanupLock
<1>13. ASSUME NEW p \in Procs, CleanupSize(p) PROVE LockOK'
  BY <1>13 DEF CleanupSize
<1>14. ASSUME NEW p \in Procs, CleanupCollect(p) PROVE LockOK'
  BY <1>14 DEF CleanupCollect
<1>15. ASSUME NEW p \in Procs, CleanupEvict(p) PROVE LockOK'
  BY <1>15 DEF CleanupEvict
<1>16. ASSUME NEW p \in Procs, CleanupUncount(p) PROVE LockOK'
  BY <1>16 DEF CleanupUncount
<1>17. ASSUME NEW p \in Procs, CleanupPublish(p) PROVE LockOK'
  BY <1>17 DEF CleanupPublish
<1>18. ASSUME NEW p \in Procs, ListLock(p) PROVE LockOK'
  BY <1>18 DEF ListLock
<1>19. ASSUME NEW p \in Procs, ListLen(p) PROVE LockOK'
  BY <1>19 DEF ListLen
<1>20. ASSUME NEW p \in Procs, ListRange(p) PROVE LockOK'
  BY <1>20 DEF ListRange
<1>21. ASSUME NEW p \in Procs, ListFirst(p) PROVE LockOK'
  BY <1>21 DEF ListFirst
<1>22. CASE UNCHANGED vars
  BY <1>22 DEF vars
<1> QED
  BY <1>1, <1>2, <1>3, <1>4, <1>5, <1>6, <1>7, <1>8, <1>9, <1>10, <1>11,
     <1>12, <1>13, <1>14, <1>15, <1>16, <1>17, <1>18, <1>19, <1>20, <1>21,
         <1>22
  DEF Next, Store, Delete, Cleanup, List

\* Every step keeps visited keys in the map: only the holder of the lock
\* removes an entry.
LEMMA RangeStep == TypeOK /\ LockOK /\ RangeSafe /\ [Next]_vars => RangeSafe'
<1> SUFFICES ASSUME TypeOK, LockOK, RangeSafe, [Next]_vars PROVE RangeSafe'
  OBVIOUS
<1> USE CacheAssumption DEF TypeOK, RangeSafe, Present, Goto, Done
<1>1. ASSUME NEW p \in Procs, NEW k \in Keys, NEW v \in Values,
             StoreInsert(p, k, v)
      PROVE  RangeSafe'
  BY <1>1 DEF StoreInsert
<1>2. ASSUME NEW p \in Procs, NEW k \in Keys, NEW v \in Values,
             StoreLoaded(p, k, v)
      PROVE  RangeSafe'
  BY <1>2 DEF StoreLoaded
<1>3. ASSUME NEW p \in Procs, StoreCount(p) PROVE RangeSafe'
  BY <1>3 DEF StoreCount
<1>4. ASSUME NEW p \in Procs, StoreFirst(p) PROVE RangeSafe'
  BY <1>4 DEF StoreFirst
<1>5. ASSUME NEW p \in Procs, StoreSetFirst(p) PROVE RangeSafe'
  BY <1>5 DEF StoreSetFirst
<1>6. ASSUME NEW p \in Procs, StoreOverwrite(p) PROVE RangeSafe'
  BY <1>6 DEF StoreOverwrite, StorePC
<1>7. ASSUME NEW p \in Procs, NEW k \in Keys, DeleteLock(p, k) PROVE RangeSafe'
  BY <1>7 DEF DeleteLock
<1>8. ASSUME NEW p \in Procs, DeleteRemove(p) PROVE RangeSafe'
  BY <1>8 DEF DeleteRemove, LockOK, Writers, Readers, DeletePC, CleanupPC,
      ListPC
<1>9. ASSUME NEW p \in Procs, DeleteUncount(p) PROVE RangeSafe'
  BY <1>9 DEF DeleteUncount
<1>10. ASSUME NEW p \in Procs, DeleteFirst(p) PROVE RangeSafe'
  BY <1>10 DEF DeleteFirst, Locals
<1>11. ASSUME NEW p \in Procs, DeleteRescan(p) PROVE RangeSafe'
  BY <1>11 DEF DeleteRescan
<1>12. ASSUME NEW p \in Procs, CleanupLock(p) PROVE RangeSafe'
  BY <1>12 DEF CleanupLock
<1>13. ASSUME NEW p \in Procs, CleanupSize(p) PROVE RangeSafe'
  BY <1>13 DEF CleanupSize, Locals
<1>14. ASSUME NEW p \in Procs, CleanupCollect(p) PROVE RangeSafe'
  <2>1. PICK S \in Visited(local[p].keys) :
          IF S = {}
            THEN Done(p)
            ELSE /\ Goto(p, "cleanupEvict")
                 /\ local' = [local EXCEPT
                      ![p].keys = S,
                      ![p].n = IF @ > Cardinality(S)
                                 THEN Cardinality(S) ELSE @]
    BY <1>14 DEF CleanupCollect
  <2>2. local'[p].keys = S \/ pc'[p] = "idle"
    BY <2>1 DEF Locals
  <2> QED
    BY <1>14, <2>1, <2>2 DEF CleanupCollect, Visited
<1>15. ASSUME NEW p \in Procs, CleanupEvict(p) PROVE RangeSafe'
  BY <1>15 DEF CleanupEvict, LockOK, Writers, Readers, DeletePC, CleanupPC,
      ListPC, Locals
<1>16. ASSUME NEW p \in Procs, CleanupUncount(p) PROVE RangeSafe'
  BY <1>16 DEF CleanupUncount, Locals
<1>17. ASSUME NEW p \in Procs, CleanupPublish(p) PROVE RangeSafe'
  BY <1>17 DEF CleanupPublish
<1>18. ASSUME NEW p \in Procs, ListLock(p) PROVE RangeSafe'
  BY <1>18 DEF ListLock
<1>19. ASSUME NEW p \in Procs, ListLen(p) PROVE RangeSafe'
  BY <1>19 DEF ListLen, Locals
<1>20. ASSUME NEW p \in Procs, ListRange(p) PROVE RangeSafe'
  BY <1>20 DEF ListRange, Visited, Locals
<1>21. ASSUME NEW p \in Procs, ListFirst(p) PROVE RangeSafe'
  BY <1>21 DEF ListFirst
<1>22. CASE UNCHANGED vars
  BY <1>22 DEF vars
<1> QED
  BY <1>1, <1>2, <1>3, <1>4, <1>5, <1>6, <1>7, <1>8, <1>9, <1>10, <1>11,
     <1>12, <1>13, <1>14, <1>15, <1>16, <1>17, <1>18, <1>19, <1>20, <1>21,
         <1>22
  DEF Next, Store, Delete, Cleanup, List

-----------------------------------------------------------------------------
(***************************************************************************)
(* The counter.                                                            *)
(***************************************************************************)
LEMMA CountersFinite ==
    ASSUME TypeOK
    PROVE  /\ IsFiniteSet(Present) /\ Cardinality(Present) \in Nat
           /\ IsFiniteSet(Uncounted) /\ Cardinality(Uncounted) \in Nat
           /\ IsFiniteSet(Overcounted) /\ Cardinality(Overcounted) \in Nat
           /\ len \in Int
<1>1. Present \subseteq Keys /\ Uncounted \subseteq Procs
        /\ Overcounted \subseteq Procs
  BY DEF Present, Uncounted, Overcounted
<1> QED
  BY <1>1, CacheAssumption, FS_Subset, FS_CardinalityType DEF TypeOK

\* What a step may do to the drift of the counter.
DriftKept ==
    \/ Drift' = Drift
    \/ Drift' = Drift + 1 /\ \E p \in Procs : LostOverwrite(p)

\* What changes the map and what changes len come in pairs, except for an
\* overwrite of a key that is gone.
LEMMA DriftStep == TypeOK /\ RangeSafe /\ [Next]_vars => DriftKept
<1> SUFFICES ASSUME TypeOK, RangeSafe, [Next]_vars
             PROVE  DriftKept
  OBVIOUS
<1> USE CacheAssumption DEF TypeOK, Drift, Goto, Done
<1>1. ASSUME NEW p \in Procs, NEW k \in Keys, NEW v \in Values,
             StoreInsert(p, k, v)
      PROVE  Drift' = Drift
  <2>1. /\ Present' = Present \cup {k} /\ k \notin Present
        /\ Uncounted' = Uncounted \cup {p} /\ p \notin Uncounted
        /\ Overcounted' = Overcounted /\ len' = len
    BY <1>1 DEF StoreInsert, Present, Uncounted, Overcounted
  <2>2. /\ Cardinality(Present') = Cardinality(Present) + 1
        /\ Cardinality(Uncounted') = Cardinality(Uncounted) + 1
    BY <2>1, CountersFinite, FS_AddElement
  <2> QED
    BY <2>1, <2>2, CountersFinite
<1>2. ASSUME NEW p \in Procs, NEW k \in Keys, NEW v \in Values,
             StoreLoaded(p, k, v)
      PROVE  Drift' = Drift
  <2>1. /\ Present' = Present /\ Uncounted' = Uncounted
        /\ Overcounted' = Overcounted /\ len' = len
    BY <1>2 DEF StoreLoaded, Present, Uncounted, Overcounted
  <2> QED
    BY <2>1
<1>3. ASSUME NEW p \in Procs, StoreCount(p) PROVE Drift' = Drift
  <2>1. /\ Present' = Present
        /\ Uncounted' = Uncounted \ {p} /\ p \in Uncounted
        /\ Overcounted' = Overcounted /\ len' = len + 1
    BY <1>3 DEF StoreCount, Present, Uncounted, Overcounted
  <2>2. Cardinality(Uncounted') = Cardinality(Uncounted) - 1
    BY <2>1, CountersFinite, FS_RemoveElement
  <2> QED
    BY <2>1, <2>2, CountersFinite
<1>4. ASSUME NEW p \in Procs, StoreFirst(p) PROVE Drift' = Drift
  <2>1. /\ Present' = Present /\ Uncounted' = Uncounted
        /\ Overcounted' = Overcounted /\ len' = len
    BY <1>4 DEF StoreFirst, Present, Uncounted, Overcounted
  <2> QED
    BY <2>1
<1>5. ASSUME NEW p \in Procs, StoreSetFirst(p) PROVE Drift' = Drift
  <2>1. /\ Present' = Present /\ Uncounted' = Uncounted
        /\ Overcounted' = Overcounted /\ len' = len
    BY <1>5 DEF StoreSetFirst, Present, Uncounted, Overcounted
  <2> QED
    BY <2>1
<1>6. ASSUME NEW p \in Procs, StoreOverwrite(p) PROVE DriftKept
  <2> DEFINE k == local[p].key
  <2>1. /\ Present' = Present \cup {k}
        /\ Uncounted' = Uncounted
        /\ Overcounted' = Overcounted /\ len' = len
    BY <1>6 DEF StoreOverwrite, Present, Uncounted, Overcounted, StorePC
  <2>2. CASE k \in Present
    <3>1. Present' = Present
      BY <2>1, <2>2
    <3> QED
      BY <2>1, <3>1 DEF DriftKept
  <2>3. CASE k \notin Present
    <3>1. LostOverwrite(p)
      BY <1>6, <2>3 DEF LostOverwrite
    <3> HIDE DEF k
    <3>2. Cardinality(Present') = Cardinality(Present) + 1
      BY <2>1, <2>3, CountersFinite, FS_AddElement
    <3>3. Drift' = Drift + 1
      BY <2>1, <3>2, CountersFinite
    <3> QED
      BY <3>1, <3>3 DEF DriftKept
  <2> QED
    BY <2>2, <2>3
<1>7. ASSUME NEW p \in Procs, NEW k \in Keys, DeleteLock(p, k)
      PROVE  Drift' = Drift
  <2>1. /\ Present' = Present /\ Uncounted' = Uncounted
        /\ Overcounted' = Overcounted /\ len' = len
    BY <1>7 DEF DeleteLock, Present, Uncounted, Overcounted
  <2> QED
    BY <2>1
<1>8. ASSUME NEW p \in Procs, DeleteRemove(p) PROVE Drift' = Drift
  <2> DEFINE k == local[p].key
  <2>1. CASE k \in Present
    <3>1. /\ Present' = Present \ {k}
          /\ Uncounted' = Uncounted
          /\ Overcounted' = Overcounted \cup {p} /\ p \notin Overcounted
          /\ len' = len
      BY <1>8, <2>1 DEF DeleteRemove, Present, Uncounted, Overcounted
    <3> HIDE DEF k
    <3>2. /\ Cardinality(Present') = Cardinality(Present) - 1
          /\ Cardinality(Overcounted') = Cardinality(Overcounted) + 1
      BY <2>1, <3>1, CountersFinite, FS_AddElement, FS_RemoveElement
    <3> QED
      BY <3>1, <3>2, CountersFinite
  <2>2. CASE k \notin Present
    <3>1. /\ Present' = Present /\ Uncounted' = Uncounted
          /\ Overcounted' = Overcounted /\ len' = len
      BY <1>8, <2>2 DEF DeleteRemove, Present, Uncounted, Overcounted
    <3> QED
      BY <3>1
  <2> QED
    BY <2>1, <2>2
<1>9. ASSUME NEW p \in Procs, DeleteUncount(p) PROVE Drift' = Drift
  <2>1. /\ Present' = Present /\ Uncounted' = Uncounted
        /\ Overcounted' = Overcounted \ {p} /\ p \in Overcounted
        /\ len' = len - 1
    BY <1>9 DEF DeleteUncount, Present, Uncounted, Overcounted
  <2>2. Cardinality(Overcounted') = Cardinality(Overcounted) - 1
    BY <2>1, CountersFinite, FS_RemoveElement
  <2> QED
    BY <2>1, <2>2, CountersFinite
<1>10. ASSUME NEW p \in Procs, DeleteFirst(p) PROVE Drift' = Drift
  <2>1. /\ Present' = Present /\ Uncounted' = Uncounted
        /\ Overcounted' = Overcounted /\ len' = len
    BY <1>10 DEF DeleteFirst, Present, Uncounted, Overcounted
  <2> QED
    BY <2>1
<1>11. ASSUME NEW p \in Procs, DeleteRescan(p) PROVE Drift' = Drift
  <2>1. /\ Present' = Present /\ Uncounted' = Uncounted
        /\ Overcounted' = Overcounted /\ len' = len
    BY <1>11 DEF DeleteRescan, Present, Uncounted, Overcounted
  <2> QED
    BY <2>1
<1>12. ASSUME NEW p \in Procs, CleanupLock(p) PROVE Drift' = Drift
  <2>1. /\ Present' = Present /\ Uncounted' = Uncounted
        /\ Overcounted' = Overcounted /\ len' = len
    BY <1>12 DEF CleanupLock, Present, Uncounted, Overcounted
  <2> QED
    BY <2>1
<1>13. ASSUME NEW p \in Procs, CleanupSize(p) PROVE Drift' = Drift
  <2>1. /\ Present' = Present /\ Uncounted' = Uncounted
        /\ Overcounted' = Overcounted /\ len' = len
    BY <1>13 DEF CleanupSize, Present, Uncounted, Overcounted
  <2> QED
    BY <2>1
<1>14. ASSUME NEW p \in Procs, CleanupCollect(p) PROVE Drift' = Drift
  <2>1. /\ Present' = Present /\ Uncounted' = Uncounted
        /\ Overcounted' = Overcounted /\ len' = len
    BY <1>14 DEF CleanupCollect, Present, Uncounted, Overcounted
  <2> QED
    BY <2>1
<1>15. ASSUME NEW p \in Procs, CleanupEvict(p) PROVE Drift' = Drift
  <2>1. PICK k \in local[p].keys : items' = [items EXCEPT ![k] = NoValue]
    BY <1>15 DEF CleanupEvict
  <2>2. k \in Present
    BY <1>15, <2>1 DEF CleanupEvict, RangeSafe
  <2>3. /\ Present' = Present \ {k}
        /\ Uncounted' = Uncounted
        /\ Overcounted' = Overcounted \cup {p} /\ p \notin Overcounted
        /\ len' = len
    BY <1>15, <2>1, <2>2 DEF CleanupEvict, Present, Uncounted, Overcounted
  <2>4. /\ Cardinality(Present') = Cardinality(Present) - 1
        /\ Cardinality(Overcounted') = Cardinality(Overcounted) + 1
    BY <2>2, <2>3, CountersFinite, FS_AddElement, FS_RemoveElement
  <2> QED
    BY <2>3, <2>4, CountersFinite
<1>16. ASSUME NEW p \in Procs, CleanupUncount(p) PROVE Drift' = Drift
  <2>1. /\ Present' = Present /\ Uncounted' = Uncounted
        /\ Overcounted' = Overcounted \ {p} /\ p \in Overcounted
        /\ len' = len - 1
    BY <1>16 DEF CleanupUncount, Present, Uncounted, Overcounted
  <2>2. Cardinality(Overcounted') = Cardinality(Overcounted) - 1
    BY <2>1, CountersFinite, FS_RemoveElement
  <2> QED
    BY <2>1, <2>2, CountersFinite
<1>17. ASSUME NEW p \in Procs, CleanupPublish(p) PROVE Drift' = Drift
  <2>1. /\ Present' = Present /\ Uncounted' = Uncounted
        /\ Overcounted' = Overcounted /\ len' = len
    BY <1>17 DEF CleanupPublish, Present, Uncounted, Overcounted
  <2> QED
    BY <2>1
<1>18. ASSUME NEW p \in Procs, ListLock(p) PROVE Drift' = Drift
  <2>1. /\ Present' = Present /\ Uncounted' = Uncounted
        /\ Overcounted' = Overcounted /\ len' = len
    BY <1>18 DEF ListLock, Present, Uncounted, Overcounted
  <2> QED
    BY <2>1
<1>19. ASSUME NEW p \in Procs, ListLen(p) PROVE Drift' = Drift
  <2>1. /\ Present' = Present /\ Uncounted' = Uncounted
        /\ Overcounted' = Overcounted /\ len' = len
    BY <1>19 DEF ListLen, Present, Uncounted, Overcounted
  <2> QED
    BY <2>1
<1>20. ASSUME NEW p \in Procs, ListRange(p) PROVE Drift' = Drift
  <2>1. /\ Present' = Present /\ Uncounted' = Uncounted
        /\ Overcounted' = Overcounted /\ len' = len
    BY <1>20 DEF ListRange, Present, Uncounted, Overcounted
  <2> QED
    BY <2>1
<1>21. ASSUME NEW p \in Procs, ListFirst(p) PROVE Drift' = Drift
  <2>1. /\ Present' = Present /\ Uncounted' = Uncounted
        /\ Overcounted' = Overcounted /\ len' = len
    BY <1>21 DEF ListFirst, Present, Uncounted, Overcounted
  <2> QED
    BY <2>1
<1>22. CASE UNCHANGED vars
  BY <1>22 DEF DriftKept, vars, Present, Uncounted, Overcounted
<1> QED
  BY <1>1, <1>2, <1>3, <1>4, <1>5, <1>6, <1>7, <1>8, <1>9, <1>10, <1>11,
     <1>12, <1>13, <1>14, <1>15, <1>16, <1>17, <1>18, <1>19, <1>20, <1>21,
         <1>22
  DEF DriftKept, Next, Store, Delete, Cleanup, List

\* So the drift never gets below zero.
LEMMA LenStep ==
    TypeOK /\ RangeSafe /\ LenNeverOvercounts /\ [Next]_vars
        => LenNeverOvercounts'
<1> SUFFICES ASSUME TypeOK, RangeSafe, LenNeverOvercounts, [Next]_vars
             PROVE  LenNeverOvercounts'
  OBVIOUS
<1>1. Drift \in Int
  BY CountersFinite DEF Drift
<1>2. Drift' = Drift \/ Drift' = Drift + 1
  BY DriftStep DEF DriftKept
<1> QED
  BY <1>1, <1>2 DEF LenNeverOvercounts

-----------------------------------------------------------------------------
(***************************************************************************)
(* The cut.                                                                *)
(***************************************************************************)
\* Every step keeps the cut small.  The counter does not exceed the map when
\* Cleanup reads it, and no entry leaves the map while Cleanup holds the lock.
LEMMA CutStep ==
    TypeOK /\ LockOK /\ LenNeverOvercounts /\ CutOK /\ [Next]_vars => CutOK'
<1> SUFFICES ASSUME TypeOK, LockOK, LenNeverOvercounts, CutOK, [Next]_vars
             PROVE  CutOK'
  OBVIOUS
<1> USE CacheAssumption DEF TypeOK, CutOK, Goto, Done
<1>1. ASSUME NEW p \in Procs, NEW k \in Keys, NEW v \in Values,
             StoreInsert(p, k, v)
      PROVE  CutOK'
  BY <1>1 DEF StoreInsert
<1>2. ASSUME NEW p \in Procs, NEW k \in Keys, NEW v \in Values,
             StoreLoaded(p, k, v)
      PROVE  CutOK'
  BY <1>2 DEF StoreLoaded
<1>3. ASSUME NEW p \in Procs, StoreCount(p) PROVE CutOK'
  BY <1>3 DEF StoreCount
<1>4. ASSUME NEW p \in Procs, StoreFirst(p) PROVE CutOK'
  BY <1>4 DEF StoreFirst
<1>5. ASSUME NEW p \in Procs, StoreSetFirst(p) PROVE CutOK'
  BY <1>5 DEF StoreSetFirst
<1>6. ASSUME NEW p \in Procs, StoreOverwrite(p) PROVE CutOK'
  BY <1>6 DEF StoreOverwrite
<1>7. ASSUME NEW p \in Procs, NEW k \in Keys, DeleteLock(p, k) PROVE CutOK'
  BY <1>7 DEF DeleteLock
<1>8. ASSUME NEW p \in Procs, DeleteRemove(p) PROVE CutOK'
  BY <1>8 DEF DeleteRemove
<1>9. ASSUME NEW p \in Procs, DeleteUncount(p) PROVE CutOK'
  BY <1>9 DEF DeleteUncount
<1>10. ASSUME NEW p \in Procs, DeleteFirst(p) PROVE CutOK'
  BY <1>10 DEF DeleteFirst
<1>11. ASSUME NEW p \in Procs, DeleteRescan(p) PROVE CutOK'
  BY <1>11 DEF DeleteRescan
<1>12. ASSUME NEW p \in Procs, CleanupLock(p) PROVE CutOK'
  BY <1>12 DEF CleanupLock
<1>13. ASSUME NEW p \in Procs, CleanupSize(p) PROVE CutOK'
  <2>1. CASE len \div Divisor > 0
    <3> DEFINE n == len \div Divisor
    <3>1. n \in Int /\ n >= 1 /\ n * Divisor <= len
      BY <2>1
    <3> HIDE DEF n
    <3>2. Overcounted = {}
      BY <1>13 DEF CleanupSize, LockOK, Writers, Overcounted, DeletePC,
          CleanupPC
    <3>3. Cardinality(Overcounted) = 0
      BY <3>2, FS_EmptySet
    <3>4. len <= Cardinality(Present)
      BY <3>3, CountersFinite DEF LenNeverOvercounts, Drift
    <3>5. n * Divisor <= Cardinality(Present)
      BY <3>1, <3>4, CountersFinite
    <3>6. /\ local'[p].n = n /\ local'[p].keys = Present
          /\ pc'[p] = "cleanupCollect"
      BY <1>13, <2>1 DEF CleanupSize, Locals, n
    <3>7. \A q \in Procs \ {p} : pc'[q] = pc[q] /\ local'[q] = local[q]
      BY <1>13, <2>1 DEF CleanupSize
    <3> QED
      BY <3>1, <3>5, <3>6, <3>7
  <2>2. CASE ~(len \div Divisor > 0)
    BY <1>13, <2>2 DEF CleanupSize
  <2> QED
    BY <2>1, <2>2
<1>14. ASSUME NEW p \in Procs, CleanupCollect(p) PROVE CutOK'
  <2>1. PICK S \in Visited(local[p].keys) :
          IF S = {}
            THEN Done(p)
            ELSE /\ Goto(p, "cleanupEvict")
                 /\ local' = [local EXCEPT
                      ![p].keys = S,
                      ![p].n = IF @ > Cardinality(S)
                                 THEN Cardinality(S) ELSE @]
    BY <1>14 DEF CleanupCollect
  <2>2. CASE S = {}
    BY <2>1, <2>2
  <2>3. CASE S # {}
    <3> DEFINE n == local[p].n
               m == IF n > Cardinality(S) THEN Cardinality(S) ELSE n
    <3>1. /\ n \in Int /\ n >= 1
          /\ n * Divisor <= Cardinality(local[p].keys)
      BY <1>14, LocalFields DEF CleanupCollect
    <3>2. /\ IsFiniteSet(S) /\ local[p].keys \subseteq S
          /\ Cardinality(S) \in Nat /\ Cardinality(local[p].keys) \in Nat
      BY FS_Subset, FS_CardinalityType, CountersFinite DEF Visited
    <3>3. Cardinality(local[p].keys) <= Cardinality(S)
      BY <3>2, FS_Subset
    <3>4. n * Divisor <= Cardinality(S)
      BY <3>1, <3>2, <3>3
    <3>5. m = n
      <4>1. n <= n * Divisor
        BY <3>1
      <4> QED
        BY <3>1, <3>2, <3>4, <4>1
    <3>6. /\ local'[p].n = m /\ local'[p].keys = S
          /\ pc'[p] = "cleanupEvict"
      BY <2>1, <2>3 DEF Locals
    <3>7. \A q \in Procs \ {p} : pc'[q] = pc[q] /\ local'[q] = local[q]
      BY <2>1, <2>3
    <3> QED
      BY <3>1, <3>4, <3>5, <3>6, <3>7
  <2> QED
    BY <2>2, <2>3
<1>15. ASSUME NEW p \in Procs, CleanupEvict(p) PROVE CutOK'
  <2>1. PICK k \in local[p].keys : local' = [local EXCEPT ![p].keys = @ \ {k}]
    BY <1>15 DEF CleanupEvict
  <2> DEFINE K == local[p].keys
  <2>2. IsFiniteSet(K)
    BY LocalFields, FS_Subset
  <2>3. Cardinality(K \ {k}) = Cardinality(K) - 1
    BY <2>1, <2>2, FS_RemoveElement
  <2>4. Cardinality(K) \in Nat
    BY <2>2, FS_CardinalityType
  <2>5. /\ local'[p].n = local[p].n /\ local'[p].keys = K \ {k}
        /\ pc'[p] = "cleanupUncount" /\ pc[p] = "cleanupEvict"
    BY <1>15, <2>1 DEF CleanupEvict, Locals
  <2>6. \A q \in Procs \ {p} : pc'[q] = pc[q] /\ local'[q] = local[q]
    BY <1>15, <2>1 DEF CleanupEvict
  <2> HIDE DEF K
  <2>7. local[p].n >= 1 /\ local[p].n * Divisor <= Cardinality(K)
    BY <2>5 DEF K
  <2>8. local'[p].n * Divisor <= Cardinality(local'[p].keys) + 1
    <3>1. Cardinality(local'[p].keys) + 1 = Cardinality(K)
      BY <2>3, <2>4, <2>5
    <3> QED
      BY <2>5, <2>7, <3>1
  <2> QED
    BY <2>5, <2>6, <2>7, <2>8
<1>16. ASSUME NEW p \in Procs, CleanupUncount(p) PROVE CutOK'
  <2> DEFINE n == local[p].n
             K == local[p].keys
  <2>1. /\ n \in Int /\ n >= 1 /\ n * Divisor <= Cardinality(K) + 1
        /\ IsFiniteSet(K) /\ Cardinality(K) \in Nat
    BY <1>16, LocalFields, FS_Subset, FS_CardinalityType DEF CleanupUncount
  <2>2. /\ local'[p].n = n - 1 /\ local'[p].keys = K
        /\ pc'[p] = IF n = 1 THEN "cleanupPublish" ELSE "cleanupEvict"
    BY <1>16 DEF CleanupUncount, Locals
  <2>3. \A q \in Procs \ {p} : pc'[q] = pc[q] /\ local'[q] = local[q]
    BY <1>16 DEF CleanupUncount
  <2>4. n = 1 => K # {}
    BY <2>1, FS_EmptySet
  <2>5. n # 1 => n - 1 >= 1 /\ (n - 1) * Divisor <= Cardinality(K)
    <3>1. (n - 1) * Divisor = n * Divisor - Divisor
      BY <2>1
    <3> QED
      BY <2>1, <3>1
  <2> HIDE DEF n, K
  <2> QED
    BY <2>2, <2>3, <2>4, <2>5
<1>17. ASSUME NEW p \in Procs, CleanupPublish(p) PROVE CutOK'
  BY <1>17 DEF CleanupPublish
<1>18. ASSUME NEW p \in Procs, ListLock(p) PROVE CutOK'
  BY <1>18 DEF ListLock
<1>19. ASSUME NEW p \in Procs, ListLen(p) PROVE CutOK'
  BY <1>19 DEF ListLen
<1>20. ASSUME NEW p \in Procs, ListRange(p) PROVE CutOK'
  BY <1>20 DEF ListRange
<1>21. ASSUME NEW p \in Procs, ListFirst(p) PROVE CutOK'
  BY <1>21 DEF ListFirst
<1>22. CASE UNCHANGED vars
  BY <1>22 DEF vars
<1> QED
  BY <1>1, <1>2, <1>3, <1>4, <1>5, <1>6, <1>7, <1>8, <1>9, <1>10, <1>11,
     <1>12, <1>13, <1>14, <1>15, <1>16, <1>17, <1>18, <1>19, <1>20, <1>21,
         <1>22
  DEF Next, Store, Delete, Cleanup, List

-----------------------------------------------------------------------------
(***************************************************************************)
(* The theorems.                                                           *)
(***************************************************************************)
\* The inductive invariant holds in every reachable state.
THEOREM Invariance == Spec => []IndInv
<1>1. Init => IndInv
  <2> SUFFICES ASSUME Init PROVE IndInv
    OBVIOUS
  <2> USE DEF Init
  <2>1. TypeOK
    <3>1. IsFiniteSet(Present) /\ Cardinality(Present) \in Nat
      BY CacheAssumption, FS_Subset, FS_CardinalityType DEF Present
    <3>2. len \in Int /\ firstKey \in Nat
      BY <3>1, CacheAssumption
    <3>3. /\ pc \in [Procs -> {"idle"} \cup StorePC \cup DeletePC
                            \cup CleanupPC \cup ListPC]
          /\ local \in [Procs -> Locals]
      BY EmptyType
    <3>4. \A p \in Procs : pc[p] \notin StorePC \cup DeletePC
      BY DEF StorePC, DeletePC
    <3> QED
      BY <3>2, <3>3, <3>4 DEF TypeOK, StorePC
  <2>2. LockOK /\ RangeSafe /\ CutOK
    BY DEF LockOK, RangeSafe, CutOK, Writers, DeletePC, CleanupPC
  <2>3. LenNeverOvercounts
    <3>1. Uncounted = {} /\ Overcounted = {}
      BY DEF Uncounted, Overcounted
    <3>2. Cardinality(Uncounted) = 0 /\ Cardinality(Overcounted) = 0
      BY <3>1, FS_EmptySet
    <3> QED
      BY <2>1, <3>2, CountersFinite DEF LenNeverOvercounts, Drift
  <2> QED
    BY <2>1, <2>2, <2>3 DEF IndInv
<1>2. IndInv /\ [Next]_vars => IndInv'
  BY TypeStep, LockStep, RangeStep, LenStep, CutStep DEF IndInv
<1> QED
  BY <1>1, <1>2, PTL DEF Spec

\* Type correctness of the cache.
THEOREM TypeCorrect == Spec => []TypeOK
<1>1. IndInv => TypeOK
  BY DEF IndInv
<1> QED
  BY <1>1, Invariance, PTL

\* The counter never exceeds the map.
THEOREM CounterBelowMap == Spec => []LenNeverOvercounts
<1>1. IndInv => LenNeverOvercounts
  BY DEF IndInv
<1> QED
  BY <1>1, Invariance, PTL

\* The counter drifts by lost overwrites only.
THEOREM DriftIsExplained == Spec => OnlyLostOverwritesDrift
<1>1. IndInv /\ [Next]_vars => [DriftKept]_vars
  BY DriftStep DEF IndInv
<1>2. [DriftKept]_vars =>
        [ \/ Drift' = Drift
          \/ Drift' = Drift + 1 /\ \E p \in Procs : LostOverwrite(p)]_vars
  BY DEF DriftKept
<1> QED
  BY <1>1, <1>2, Invariance, PTL DEF Spec, OnlyLostOverwritesDrift

\* So Len returns the number of entries whenever no call is in progress, as
\* long as no overwrite was lost.  (cache.go:127)
THEOREM LenIsExact ==
    Spec /\ [][~ \E p \in Procs : LostOverwrite(p)]_vars
        => []LenCountsEntries
<1>1. Init => Drift = 0
  <2> SUFFICES ASSUME Init PROVE Drift = 0
    OBVIOUS
  <2>1. Uncounted = {} /\ Overcounted = {}
    BY DEF Init, Uncounted, Overcounted
  <2>2. IsFiniteSet(Present) /\ Cardinality(Present) \in Nat
    BY CacheAssumption, FS_Subset, FS_CardinalityType DEF Present
  <2> QED
    BY <2>1, <2>2, FS_EmptySet DEF Drift, Init
<1>2. /\ IndInv /\ Drift = 0 /\ [Next]_vars
      /\ [~ \E p \in Procs : LostOverwrite(p)]_vars
      => (Drift = 0)'
  <2> SUFFICES ASSUME IndInv, Drift = 0, [Next]_vars,
                      [~ \E p \in Procs : LostOverwrite(p)]_vars
               PROVE  Drift' = 0
    OBVIOUS
  <2>1. CASE UNCHANGED vars
    BY <2>1 DEF vars, Drift, Present, Uncounted, Overcounted
  <2>2. CASE ~ \E p \in Procs : LostOverwrite(p)
    BY <2>2, DriftStep DEF IndInv, DriftKept
  <2> QED
    BY <2>1, <2>2
<1>3. IndInv /\ Drift = 0 => LenCountsEntries
  <2> SUFFICES ASSUME IndInv, Drift = 0, AtRest
               PROVE  len = Cardinality(Present)
    BY DEF LenCountsEntries
  <2>1. Uncounted = {} /\ Overcounted = {}
    BY DEF AtRest, Uncounted, Overcounted
  <2> QED
    BY <2>1, FS_EmptySet, CountersFinite DEF Drift, IndInv
<1> QED
  BY <1>1, <1>2, <1>3, Invariance, PTL DEF Spec

\* No key disappears under a Range, or under the eviction that follows it.
THEOREM RangesAreSafe == Spec => []RangeSafe
<1>1. IndInv => RangeSafe
  BY DEF IndInv
<1> QED
  BY <1>1, Invariance, PTL

\* Cleanup drops at most one entry in Divisor and leaves at least one.
THEOREM CleanupIsBounded == Spec => []CleanupKeepsMost
<1>1. IndInv => CleanupKeepsMost
  BY DEF IndInv, CutOK, CleanupKeepsMost
<1> QED
  BY <1>1, Invariance, PTL
-----------------------------------------------------------------------------
(***************************************************************************)
(* The cache implements AtomicMap.                                         *)
(***************************************************************************)
Pending == {"storeOverwrite", "deleteRemove"}

\* The goroutine p goes to step s and touches no other's local state.
Moves(p, s) ==
    /\ pc' = [pc EXCEPT ![p] = s]
    /\ \A q \in Procs : q # p => local'[q] = local[q]

\* What a move looks like from outside.
LEMMA MoveIsSeen ==
    ASSUME TypeOK, NEW p \in Procs, NEW s, Moves(p, s)
    PROVE  /\ Phase[p] = PhaseOf(pc[p])
           /\ Call[p] = CallOf(pc[p], local[p])
           /\ Phase' = [Phase EXCEPT ![p] = PhaseOf(s)]
           /\ Call' = [Call EXCEPT ![p] = CallOf(s, local'[p])]
<1>1. pc'[p] = s /\ \A q \in Procs : q # p => pc'[q] = pc[q]
  BY DEF Moves, TypeOK
<1>2. Phase' = [q \in Procs |-> PhaseOf(pc'[q])]
  BY DEF Phase
<1>3. Call' = [q \in Procs |-> CallOf(pc'[q], local'[q])]
  BY DEF Call
<1>4. Phase' = [Phase EXCEPT ![p] = PhaseOf(s)]
  BY <1>1, <1>2 DEF Phase
<1>5. \A q \in Procs : q # p => CallOf(pc'[q], local'[q]) = Call[q]
  BY <1>1 DEF Moves, Call
<1>6. Call' = [Call EXCEPT ![p] = CallOf(s, local'[p])]
  BY <1>1, <1>3, <1>5 DEF Call
<1> QED
  BY <1>4, <1>6 DEF Phase, Call

\* A goroutine whose phase and pending write stay changes nothing outside.
LEMMA NothingIsSeen ==
    ASSUME NEW p \in Procs
    PROVE  /\ [Phase EXCEPT ![p] = Phase[p]] = Phase
           /\ [Call EXCEPT ![p] = Call[p]] = Call
BY DEF Phase, Call

\* A goroutine that has nothing to write, before and after a step that leaves
\* the map alone, stays in its phase or returns.
LEMMA QuietStep ==
    ASSUME TypeOK, NEW p \in Procs, NEW s, Moves(p, s), items' = items,
           pc[p] \notin Pending, s \notin Pending
    PROVE  /\ Call' = Call
           /\ Phase' = [Phase EXCEPT ![p] = PhaseOf(s)]
           /\ PhaseOf(s) = PhaseOf(pc[p]) => UNCHANGED <<items, Phase, Call>>
           /\ s = "idle" /\ PhaseOf(pc[p]) \in {"returning", "cleanup", "list"}
                 => Map!Return(p)
<1>1. CallOf(s, local'[p]) = CallOf(pc[p], local[p])
  BY DEF CallOf, Pending
<1>2. Call' = Call
  BY <1>1, MoveIsSeen, NothingIsSeen
<1>3. PhaseOf(s) = PhaseOf(pc[p]) => Phase' = Phase
  BY MoveIsSeen, NothingIsSeen
<1>4. ASSUME s = "idle",
             PhaseOf(pc[p]) \in {"returning", "cleanup", "list"}
      PROVE  Map!Return(p)
  BY <1>2, <1>4, MoveIsSeen DEF Map!Return, Map!Enter, PhaseOf
<1> QED
  BY <1>2, <1>3, <1>4, MoveIsSeen

\* Every access of a Store is a step of AtomicMap.
LEMMA StoreRefines ==
    ASSUME TypeOK, NEW p \in Procs, Store(p)
    PROVE  Map!MapNext \/ UNCHANGED <<items, Phase, Call>>
<1> USE DEF PhaseOf, Pending, CleanupPC, ListPC
<1>1. ASSUME NEW k \in Keys, NEW v \in Values, StoreInsert(p, k, v)
      PROVE  Map!Immediate(p, k, v)
  <2>1. Moves(p, "storeCount") /\ pc[p] = "idle"
    BY <1>1 DEF StoreInsert, Goto, Moves, TypeOK
  <2>2. CallOf("storeCount", local'[p]) = CallOf("idle", local[p])
    BY DEF CallOf
  <2>3. /\ Phase[p] = "idle" /\ Phase' = [Phase EXCEPT ![p] = "returning"]
        /\ Call' = [Call EXCEPT ![p] = Call[p]]
    BY <2>1, <2>2, MoveIsSeen
  <2>4. Call' = Call
    BY <2>3, NothingIsSeen
  <2> QED
    BY <1>1, <2>3, <2>4 DEF StoreInsert, Map!Immediate, Map!Enter
<1>2. ASSUME NEW k \in Keys, NEW v \in Values, StoreLoaded(p, k, v)
      PROVE  Map!Begin(p, k, v)
  <2>1. Moves(p, "storeOverwrite") /\ pc[p] = "idle"
    BY <1>2 DEF StoreLoaded, Goto, Moves, TypeOK
  <2>2. local'[p].key = k /\ local'[p].val = v
    BY <1>2 DEF StoreLoaded, TypeOK, Locals
  <2>3. CallOf("storeOverwrite", local'[p]) = [key |-> k, val |-> v]
    BY <2>2 DEF CallOf
  <2>4. /\ Phase[p] = "idle" /\ Phase' = [Phase EXCEPT ![p] = "pending"]
        /\ Call' = [Call EXCEPT ![p] = [key |-> k, val |-> v]]
    BY <2>1, <2>3, MoveIsSeen
  <2> QED
    BY <1>2, <2>4 DEF StoreLoaded, Map!Begin, Map!Enter
<1>3. CASE StoreCount(p)
  <2>1. Moves(p, "storeFirst") /\ pc[p] = "storeCount" /\ items' = items
    BY <1>3 DEF StoreCount, Goto, Moves, TypeOK
  <2> QED
    BY <2>1, QuietStep
<1>4. CASE StoreFirst(p)
  <2>1. /\ Moves(p, "storeSetFirst") \/ Moves(p, "idle")
        /\ pc[p] = "storeFirst" /\ items' = items
    BY <1>4 DEF StoreFirst, Goto, Done, Moves, TypeOK
  <2> QED
    BY <2>1, QuietStep DEF Map!MapNext
<1>5. CASE StoreSetFirst(p)
  <2>1. Moves(p, "idle") /\ pc[p] = "storeSetFirst" /\ items' = items
    BY <1>5 DEF StoreSetFirst, Goto, Done, Moves, TypeOK
  <2> QED
    BY <2>1, QuietStep DEF Map!MapNext
<1>6. CASE StoreOverwrite(p)
  <2>1. Moves(p, "idle") /\ pc[p] = "storeOverwrite"
    BY <1>6 DEF StoreOverwrite, Goto, Done, Moves, TypeOK
  <2>2. /\ CallOf("idle", local'[p]) = Map!Nothing
        /\ CallOf("storeOverwrite", local[p]).key = local[p].key
        /\ CallOf("storeOverwrite", local[p]).val = local[p].val
    BY DEF CallOf, Map!Nothing
  <2>3. /\ Phase[p] = "pending" /\ Phase' = [Phase EXCEPT ![p] = "idle"]
        /\ Call[p].key = local[p].key /\ Call[p].val = local[p].val
        /\ Call' = [Call EXCEPT ![p] = Map!Nothing]
    BY <2>1, <2>2, MoveIsSeen
  <2>4. Map!Effect(p)
    BY <1>6, <2>3 DEF StoreOverwrite, Map!Effect, Map!Enter
  <2> QED
    BY <2>4 DEF Map!MapNext
<1> QED
  BY <1>1, <1>2, <1>3, <1>4, <1>5, <1>6 DEF Store, Map!MapNext

\* Every access of a Delete is a step of AtomicMap.
LEMMA DeleteRefines ==
    ASSUME TypeOK, NEW p \in Procs, Delete(p)
    PROVE  Map!MapNext \/ UNCHANGED <<items, Phase, Call>>
<1> USE DEF PhaseOf, Pending, CleanupPC, ListPC
<1>1. ASSUME NEW k \in Keys, DeleteLock(p, k)
      PROVE  Map!Begin(p, k, NoValue)
  <2>1. Moves(p, "deleteRemove") /\ pc[p] = "idle"
    BY <1>1 DEF DeleteLock, Goto, Moves, TypeOK
  <2>2. local'[p].key = k
    BY <1>1 DEF DeleteLock, TypeOK, Locals
  <2>3. CallOf("deleteRemove", local'[p]) = [key |-> k, val |-> NoValue]
    BY <2>2 DEF CallOf
  <2> QED
    BY <1>1, <2>1, <2>3, MoveIsSeen DEF DeleteLock, Map!Begin, Map!Enter
<1>2. CASE DeleteRemove(p)
  <2>1. /\ Moves(p, "deleteUncount") \/ Moves(p, "idle")
        /\ pc[p] = "deleteRemove"
    BY <1>2 DEF DeleteRemove, Goto, Done, Moves, TypeOK
  <2>2. /\ CallOf("idle", local'[p]) = Map!Nothing
        /\ CallOf("deleteUncount", local'[p]) = Map!Nothing
        /\ CallOf("deleteRemove", local[p]).key = local[p].key
        /\ CallOf("deleteRemove", local[p]).val = NoValue
    BY DEF CallOf, Map!Nothing
  <2>3. /\ Phase[p] = "pending"
        /\ \/ Phase' = [Phase EXCEPT ![p] = "idle"]
           \/ Phase' = [Phase EXCEPT ![p] = "returning"]
        /\ Call[p].key = local[p].key /\ Call[p].val = NoValue
        /\ Call' = [Call EXCEPT ![p] = Map!Nothing]
    BY <2>1, <2>2, MoveIsSeen
  <2>4. Map!Effect(p)
    BY <1>2, <2>3 DEF DeleteRemove, Map!Effect, Map!Enter
  <2> QED
    BY <2>4 DEF Map!MapNext
<1>3. CASE DeleteUncount(p)
  <2>1. Moves(p, "deleteFirst") /\ pc[p] = "deleteUncount" /\ items' = items
    BY <1>3 DEF DeleteUncount, Goto, Moves, TypeOK
  <2> QED
    BY <2>1, QuietStep
<1>4. CASE DeleteFirst(p)
  <2>1. /\ Moves(p, "deleteRescan") \/ Moves(p, "idle")
        /\ pc[p] = "deleteFirst" /\ items' = items
    BY <1>4 DEF DeleteFirst, Goto, Done, Moves, TypeOK
  <2> QED
    BY <2>1, QuietStep DEF Map!MapNext
<1>5. CASE DeleteRescan(p)
  <2>1. Moves(p, "idle") /\ pc[p] = "deleteRescan" /\ items' = items
    BY <1>5 DEF DeleteRescan, Goto, Done, Moves, TypeOK
  <2> QED
    BY <2>1, QuietStep DEF Map!MapNext
<1> QED
  BY <1>1, <1>2, <1>3, <1>4, <1>5, CacheAssumption DEF Delete, Map!MapNext

\* Every access of a Cleanup is a step of AtomicMap.
LEMMA CleanupRefines ==
    ASSUME TypeOK, NEW p \in Procs, Cleanup(p)
    PROVE  Map!MapNext \/ UNCHANGED <<items, Phase, Call>>
<1> USE DEF PhaseOf, Pending, CleanupPC, ListPC
<1>1. CASE CleanupLock(p)
  <2>1. Moves(p, "cleanupSize") /\ pc[p] = "idle" /\ items' = items
    BY <1>1 DEF CleanupLock, Goto, Moves, TypeOK
  <2>2. Map!Clean(p)
    BY <2>1, QuietStep, MoveIsSeen DEF Map!Clean, Map!Enter
  <2> QED
    BY <2>2 DEF Map!MapNext
<1>2. CASE CleanupSize(p)
  <2>1. /\ Moves(p, "cleanupCollect") \/ Moves(p, "idle")
        /\ pc[p] = "cleanupSize" /\ items' = items
    BY <1>2 DEF CleanupSize, Goto, Done, Moves, TypeOK
  <2> QED
    BY <2>1, QuietStep DEF Map!MapNext
<1>3. CASE CleanupCollect(p)
  <2>1. /\ Moves(p, "cleanupEvict") \/ Moves(p, "idle")
        /\ pc[p] = "cleanupCollect" /\ items' = items
    BY <1>3 DEF CleanupCollect, Goto, Done, Moves, TypeOK
  <2> QED
    BY <2>1, QuietStep DEF Map!MapNext
<1>4. CASE CleanupEvict(p)
  <2>1. Moves(p, "cleanupUncount") /\ pc[p] = "cleanupEvict"
    BY <1>4 DEF CleanupEvict, Goto, Moves, TypeOK
  <2>2. PICK k \in Keys : items' = [items EXCEPT ![k] = NoValue]
    BY <1>4, LocalFields DEF CleanupEvict
  <2>3. CallOf("cleanupUncount", local'[p]) = CallOf("cleanupEvict", local[p])
    BY DEF CallOf
  <2>4. /\ Phase[p] = "cleanup" /\ Phase' = [Phase EXCEPT ![p] = Phase[p]]
        /\ Call' = [Call EXCEPT ![p] = Call[p]]
    BY <2>1, <2>3, MoveIsSeen
  <2>5. UNCHANGED <<Phase, Call>>
    BY <2>4, NothingIsSeen
  <2>6. Map!Drop(p, k)
    BY <2>2, <2>4, <2>5 DEF Map!Drop
  <2> QED
    BY <2>6 DEF Map!MapNext
<1>5. CASE CleanupUncount(p)
  <2>1. /\ Moves(p, "cleanupPublish") \/ Moves(p, "cleanupEvict")
        /\ pc[p] = "cleanupUncount" /\ items' = items
    BY <1>5 DEF CleanupUncount, Goto, Moves, TypeOK
  <2> QED
    BY <2>1, QuietStep
<1>6. CASE CleanupPublish(p)
  <2>1. Moves(p, "idle") /\ pc[p] = "cleanupPublish" /\ items' = items
    BY <1>6 DEF CleanupPublish, Goto, Done, Moves, TypeOK
  <2> QED
    BY <2>1, QuietStep DEF Map!MapNext
<1> QED
  BY <1>1, <1>2, <1>3, <1>4, <1>5, <1>6 DEF Cleanup

\* Every access of a List is a step of AtomicMap.
LEMMA ListRefines ==
    ASSUME TypeOK, NEW p \in Procs, List(p)
    PROVE  Map!MapNext \/ UNCHANGED <<items, Phase, Call>>
<1> USE DEF PhaseOf, Pending, CleanupPC, ListPC
<1>1. CASE ListLock(p)
  <2>1. Moves(p, "listLen") /\ pc[p] = "idle" /\ items' = items
    BY <1>1 DEF ListLock, Goto, Moves, TypeOK
  <2>2. Map!Read(p)
    BY <2>1, QuietStep, MoveIsSeen DEF Map!Read, Map!Enter
  <2> QED
    BY <2>2 DEF Map!MapNext
<1>2. CASE ListLen(p)
  <2>1. /\ Moves(p, "listRange") \/ Moves(p, "idle")
        /\ pc[p] = "listLen" /\ items' = items
    BY <1>2 DEF ListLen, Goto, Done, Moves, TypeOK
  <2> QED
    BY <2>1, QuietStep DEF Map!MapNext
<1>3. CASE ListRange(p)
  <2>1. Moves(p, "listFirst") /\ pc[p] = "listRange" /\ items' = items
    BY <1>3 DEF ListRange, Goto, Moves, TypeOK
  <2> QED
    BY <2>1, QuietStep
<1>4. CASE ListFirst(p)
  <2>1. Moves(p, "idle") /\ pc[p] = "listFirst" /\ items' = items
    BY <1>4 DEF ListFirst, Goto, Done, Moves, TypeOK
  <2> QED
    BY <2>1, QuietStep DEF Map!MapNext
<1> QED
  BY <1>1, <1>2, <1>3, <1>4 DEF List

\* To its callers the cache is a map with atomic operations.
THEOREM CacheImplementsMap == Spec => MapSpec
<1>1. Init => Map!MapInit
  BY DEF Init, Map!MapInit, Phase, PhaseOf, Call, CallOf, Map!Nothing
<1>2. TypeOK /\ [Next]_vars => [Map!MapNext]_(Map!mapVars)
  <2> SUFFICES ASSUME TypeOK, [Next]_vars
               PROVE  Map!MapNext \/ UNCHANGED <<items, Phase, Call>>
    BY DEF Map!mapVars
  <2>1. CASE UNCHANGED vars
    BY <2>1 DEF vars, Phase, Call
  <2> QED
    BY <2>1, StoreRefines, DeleteRefines, CleanupRefines, ListRefines DEF Next
<1> QED
  BY <1>1, <1>2, TypeCorrect, PTL DEF Spec, MapSpec, Map!MapSpec
=============================================================================
