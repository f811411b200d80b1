--------------------------- MODULE ListingProofs ---------------------------
(***************************************************************************)
(* Proofs about Listing, for any number of ids and any limits.             *)
(***************************************************************************)
EXTENDS Listing, FiniteSetTheorems, TLAPS

(***************************************************************************)
(* The inductive invariant.                                                *)
(***************************************************************************)
\* The place of i in a set of ids.
Place(S, i) == Cardinality({j \in S : j <= i})

\* Ids in use were drawn from the sequence; one that an INSERT still holds
\* has never been a row, so that no page and no beginning had it.
SequenceOK ==
    /\ \A i \in Rows \cup held \cup seen \cup start : i < nextId
    /\ held \cap (Rows \cup seen \cup start) = {}

\* How many rows the walk has left behind.
Bound == IF step \in {"page", "done"} THEN offset + limit ELSE offset

\* Rows that were seen stay among the first Bound ones.
SeenOK ==
    /\ step \in {"idle", "refused"} => seen = {} /\ twice = {}
    /\ ~shifted => /\ twice = {}
                   /\ \A i \in seen \cap Rows : Place(Rows, i) <= Bound

\* Rows of the beginning that were not seen yet are still ahead, and within
\* the total; rows that came later are behind all of them.
AheadOK ==
    step \notin {"idle", "refused"} /\ ~shifted /\ ~removed =>
        /\ \A i \in start \cap Rows :
              /\ i \in seen \/ Place(Rows, i) > Bound
              /\ step \in {"list", "page", "done"} => Place(Rows, i) <= total
              /\ \A j \in Rows \ start : i < j
        /\ step = "done" => offset + limit >= total

\* What Count returned is still true.
TotalOK == step = "list" /\ ~touched => total = Cardinality(Rows)

IndInv ==
    /\ TypeOK
    /\ SequenceOK
    /\ SeenOK
    /\ AheadOK
    /\ TotalOK
    /\ TotalMatchesPage
-----------------------------------------------------------------------------
(***************************************************************************)
(* Ranks.                                                                  *)
(***************************************************************************)
\* The constants are numbers.
LEMMA ConstantsOK ==
    /\ MaxId \in Nat /\ DefaultLimit \in Nat /\ DefaultLimit >= 1
    /\ MaxLimit \in Nat /\ DefaultLimit <= MaxLimit /\ MaxBigint \in Nat
    /\ MaxId + MaxLimit <= MaxBigint
BY ListingAssumption, TableAssumption

\* Sets of ids are finite, and have no more than MaxId members.
LEMMA IdsFinite ==
    ASSUME NEW S \in SUBSET Ids
    PROVE  IsFiniteSet(S) /\ Cardinality(S) \in 0..MaxId
<1>1. IsFiniteSet(Ids) /\ Cardinality(Ids) = MaxId
  BY ConstantsOK, FS_Interval DEF Ids
<1> QED
  BY <1>1, FS_Subset, FS_CardinalityType, ConstantsOK

\* Ids are numbers.
LEMMA IdsAreNumbers == Ids \subseteq Nat
BY ConstantsOK DEF Ids

\* A place is a number up to the size of the set.
LEMMA PlaceType ==
    ASSUME NEW S \in SUBSET Ids, NEW i
    PROVE  Place(S, i) \in Nat /\ Place(S, i) <= Cardinality(S)
BY IdsFinite, FS_Subset DEF Place

\* Places do not grow unless a member appears below.
LEMMA PlaceShrinks ==
    ASSUME NEW S \in SUBSET Ids, NEW T \in SUBSET Ids, NEW i \in S,
           \A j \in T \ S : ~(j < i)
    PROVE  Place(T, i) <= Place(S, i)
<1> T \subseteq Nat /\ i \in Nat
  BY IdsAreNumbers
<1>1. {j \in T : j <= i} \subseteq {j \in S : j <= i}
  <2> SUFFICES ASSUME NEW j \in T, j <= i PROVE j \in S
    OBVIOUS
  <2>1. j = i \/ j < i
    OBVIOUS
  <2> QED
    BY <2>1
<1>2. IsFiniteSet({j \in S : j <= i})
  BY IdsFinite, FS_Subset
<1> QED
  BY <1>1, <1>2, FS_Subset DEF Place

\* Places do not shrink if no member goes.
LEMMA PlaceGrows ==
    ASSUME NEW S \in SUBSET Ids, NEW T \in SUBSET Ids, S \subseteq T, NEW i
    PROVE  Place(S, i) <= Place(T, i)
<1>1. {j \in S : j <= i} \subseteq {j \in T : j <= i}
  OBVIOUS
<1>2. IsFiniteSet({j \in T : j <= i})
  BY IdsFinite, FS_Subset
<1> QED
  BY <1>1, <1>2, FS_Subset DEF Place

\* When j goes, whoever was behind it has at least its place.
LEMMA PlaceInherited ==
    ASSUME NEW S \in SUBSET Ids, NEW i \in S, NEW j \in S, j < i
    PROVE  Place(S \ {j}, i) >= Place(S, j)
<1> DEFINE A == {k \in S : k <= j}
           B == A \ {j}
           C == B \cup {i}
           D == {k \in S \ {j} : k <= i}
<1>1. S \subseteq Nat /\ i \in Nat /\ j \in Nat
  BY IdsAreNumbers
<1>2. j \in A /\ i \notin B /\ C \subseteq D
  <2>1. \A k \in S : k <= j => k <= i
    BY <1>1
  <2>2. j <= j /\ i <= i /\ ~(i <= j) /\ i # j
    BY <1>1
  <2> QED
    BY <2>1, <2>2
<1>3. IsFiniteSet(A) /\ IsFiniteSet(D) /\ Cardinality(A) \in Nat
  BY IdsFinite, FS_Subset
<1>4. IsFiniteSet(B) /\ Cardinality(B) = Cardinality(A) - 1
  BY <1>2, <1>3, FS_RemoveElement
<1>5. Cardinality(C) = Cardinality(B) + 1
  BY <1>2, <1>4, FS_AddElement
<1>6. Cardinality(C) <= Cardinality(D)
  BY <1>2, <1>3, FS_Subset
<1> HIDE DEF A, B, C, D
<1>7. Cardinality(D) >= Cardinality(A)
  <2>1. Cardinality(D) \in Nat
    BY <1>3, FS_CardinalityType
  <2> QED
    BY <1>3, <1>4, <1>5, <1>6, <2>1
<1> QED
  BY <1>7 DEF A, D, Place

\* Places are in the order of the members.
LEMMA PlaceOrder ==
    ASSUME NEW S \in SUBSET Ids, NEW i \in S, NEW j \in S, j < i
    PROVE  Place(S, j) < Place(S, i)
<1> DEFINE A == {k \in S : k <= j}
           D == {k \in S : k <= i}
<1>1. S \subseteq Nat /\ i \in Nat /\ j \in Nat
  BY IdsAreNumbers
<1>2. A \subseteq D /\ i \in D /\ i \notin A
  <2>1. \A k \in S : k <= j => k <= i
    BY <1>1
  <2>2. i <= i /\ ~(i <= j)
    BY <1>1
  <2> QED
    BY <2>1, <2>2
<1>3. IsFiniteSet(D) /\ IsFiniteSet(A)
  BY IdsFinite, FS_Subset
<1>4. Cardinality(A) <= Cardinality(D) /\ Cardinality(A) # Cardinality(D)
  BY <1>2, <1>3, FS_Subset
<1>5. Cardinality(A) \in Nat /\ Cardinality(D) \in Nat
  BY <1>3, FS_CardinalityType
<1> HIDE DEF A, D
<1>6. Cardinality(A) < Cardinality(D)
  BY <1>4, <1>5
<1> QED
  BY <1>6 DEF A, D, Place

\* Every place from one to the size is taken, once.
LEMMA PlaceBijection ==
    ASSUME NEW S \in SUBSET Ids
    PROVE  [i \in S |-> Place(S, i)] \in Bijection(S, 1..Cardinality(S))
<1> DEFINE f == [i \in S |-> Place(S, i)]
           n == Cardinality(S)
<1>1. n \in Nat /\ IsFiniteSet(S)
  BY IdsFinite, ConstantsOK
<1>2. ASSUME NEW i \in S PROVE Place(S, i) \in 1..n
  <2>1. Place(S, i) \in Nat /\ Place(S, i) <= n
    BY PlaceType
  <2>2. i \in {j \in S : j <= i} /\ IsFiniteSet({j \in S : j <= i})
    BY <1>1, FS_Subset DEF Ids
  <2>3. Place(S, i) # 0
    BY <2>2, FS_EmptySet DEF Place
  <2> QED
    BY <1>1, <2>1, <2>3
<1>3. ASSUME NEW i \in S, NEW j \in S, Place(S, i) = Place(S, j)
      PROVE  i = j
  <2>1. i \in Nat /\ j \in Nat /\ Place(S, i) \in Nat
    BY PlaceType DEF Ids
  <2>2. ~(i < j) /\ ~(j < i)
    BY <1>3, <2>1, PlaceOrder
  <2> QED
    BY <2>1, <2>2
<1>4. f \in Injection(S, 1..n)
  BY <1>2, <1>3 DEF Injection, IsInjective
<1>5. IsFiniteSet(1..n) /\ Cardinality(1..n) = n
  BY <1>1, FS_Interval
<1>6. f \in Surjection(S, 1..n)
  BY <1>4, <1>5, FS_Injection
<1> QED
  BY <1>4, <1>6 DEF Bijection

\* How many members have a place after the first m and among the next n.
LEMMA PlacesBetween ==
    ASSUME NEW S \in SUBSET Ids, NEW m \in Nat, NEW n \in Nat
    PROVE  Cardinality({i \in S : m < Place(S, i) /\ Place(S, i) <= m + n})
             = IF Cardinality(S) <= m THEN 0
               ELSE IF Cardinality(S) - m < n THEN Cardinality(S) - m ELSE n
<1> DEFINE f == [i \in S |-> Place(S, i)]
           c == Cardinality(S)
           last == IF c < m + n THEN c ELSE m + n
           T == {i \in S : m < f[i] /\ f[i] <= m + n}
           g == [i \in T |-> f[i]]
<1>1. c \in Nat /\ IsFiniteSet(S) /\ IsFiniteSet(T)
  <2>1. T \in SUBSET S
    OBVIOUS
  <2> HIDE DEF T
  <2>2. c \in Nat /\ IsFiniteSet(S)
    BY IdsFinite, ConstantsOK
  <2> QED
    BY <2>1, <2>2, FS_Subset
<1>2. f \in Bijection(S, 1..c)
  BY PlaceBijection
<1> HIDE DEF f, c
<1>3. /\ \A i \in S : f[i] \in 1..c
      /\ \A i, j \in S : f[i] = f[j] => i = j
      /\ \A k \in 1..c : \E i \in S : f[i] = k
  BY <1>2 DEF Bijection, Injection, IsInjective, Surjection
<1>4. g \in Bijection(T, (m + 1)..last)
  <2>1. ASSUME NEW i \in T PROVE g[i] \in (m + 1)..last
    BY <1>1, <1>3
  <2>2. ASSUME NEW k \in (m + 1)..last PROVE \E i \in T : g[i] = k
    <3>1. k \in 1..c /\ m < k /\ k <= m + n
      BY <1>1
    <3> QED
      BY <1>3, <3>1
  <2> QED
    BY <1>3, <2>1, <2>2 DEF Bijection, Injection, IsInjective, Surjection
<1>5. Cardinality((m + 1)..last) = Cardinality(T)
  BY <1>1, <1>4, FS_Bijection DEF ExistsBijection
<1>6. Cardinality((m + 1)..last) = IF m + 1 > last THEN 0 ELSE last - m
  <2>1. m + 1 \in Int /\ last \in Int
    BY <1>1
  <2>2. Cardinality((m + 1)..last)
          = IF m + 1 > last THEN 0 ELSE last - (m + 1) + 1
    BY <2>1, FS_Interval
  <2> QED
    BY <2>1, <2>2
<1>7. T = {i \in S : m < Place(S, i) /\ Place(S, i) <= m + n}
  BY DEF f
<1> HIDE DEF T
<1> QED
  BY <1>1, <1>5, <1>6, <1>7 DEF c
-----------------------------------------------------------------------------
(***************************************************************************)
(* Steps.                                                                  *)
(***************************************************************************)
\* The place of a row is its rank, and the rank of a row is a number.
LEMMA RankIsPlace ==
    /\ Rows \in SUBSET Ids
    /\ \A i : Rank(i) = Place(Rows, i) /\ Place(Rows, i) \in Nat
<1>1. Rows \in SUBSET Ids
  BY DEF Rows
<1> QED
  BY <1>1, PlaceType DEF Rank, Place

\* A step of the table keeps to the sequence, and adds rows that nobody has
\* seen or removes one.
RowsMove ==
    /\ TableTypeOK'
    /\ \A i \in Rows' \cup held' \cup seen \cup start : i < nextId'
    /\ held' \cap (Rows' \cup seen \cup start) = {}
    /\ \/ /\ Rows \subseteq Rows'
          /\ (Rows' \ Rows) \cap (seen \cup start) = {}
       \/ \E j \in Rows : Rows' = Rows \ {j}

\* Every step of the table is of this kind.
LEMMA TableStep ==
    ASSUME TypeOK, SequenceOK, TableNext
    PROVE  RowsMove
<1> USE DEF TypeOK, TableTypeOK, SequenceOK, Rows, RowsMove
<1>0. /\ MaxId \in Nat /\ Ids \subseteq Nat /\ Ids = 1..MaxId
      /\ nextId \in Nat /\ nextId <= MaxId => nextId \in Ids
      /\ Fresh \subseteq Values /\ NoTask \notin Values
  BY ConstantsOK, IdsAreNumbers, TableAssumption DEF Ids
<1>1. CASE Draw
  BY <1>0, <1>1 DEF Draw
<1>2. ASSUME NEW ids \in SUBSET Ids, Lose(ids) PROVE RowsMove
  BY <1>0, <1>2 DEF Lose
<1>3. ASSUME NEW id \in Ids, Remove(id) PROVE RowsMove
  BY <1>0, <1>3 DEF Remove
<1>4. ASSUME NEW id \in Ids, NEW v \in Fresh, Land(id, v) PROVE RowsMove
  BY <1>0, <1>4 DEF Land
<1>5. ASSUME NEW id \in Ids, NEW v \in Values, Write(id, v) PROVE RowsMove
  BY <1>0, <1>5 DEF Write
<1> QED
  BY <1>1, <1>2, <1>3, <1>4, <1>5 DEF TableNext

\* What other clients write keeps the invariant.
LEMMA OthersStep == IndInv /\ Others => IndInv'
<1> SUFFICES ASSUME IndInv, Others PROVE IndInv'
  OBVIOUS
<1>1. /\ Rows \in SUBSET Ids /\ Rows' \in SUBSET Ids /\ Ids \subseteq Nat
      /\ \A i : Place(Rows, i) \in Nat /\ Place(Rows', i) \in Nat
  BY RankIsPlace, IdsAreNumbers, PlaceType DEF Rows
<1>2. TypeOK /\ SequenceOK /\ TableNext
  BY DEF IndInv, Others
<1>3. /\ TableTypeOK' /\ SequenceOK'
      /\ \/ /\ Rows \subseteq Rows'
            /\ (Rows' \ Rows) \cap (seen \cup start) = {}
         \/ \E j \in Rows : Rows' = Rows \ {j}
  BY <1>2, TableStep DEF RowsMove, SequenceOK, Others, walkVars, seenVars
<1>4. /\ step' = step /\ limit' = limit /\ offset' = offset
      /\ total' = total /\ page' = page
      /\ start' = start /\ seen' = seen /\ twice' = twice
      /\ touched' = (touched \/ Rows' # Rows)
      /\ removed' = (removed \/ \E i \in seen : i \in Rows /\ i \notin Rows')
      /\ shifted' = (shifted \/ \E i \in Rows' \ Rows, j \in Rows : i < j)
  BY DEF Others, walkVars, seenVars
<1>5. TypeOK'
  BY <1>2, <1>3, <1>4 DEF TypeOK
<1>6. Bound' = Bound
  BY <1>4 DEF Bound
<1>7. \A i \in (seen \cup start) \cap Rows' : i \in Rows
  BY <1>3
<1>8. ASSUME ~shifted', NEW i \in Rows PROVE Place(Rows', i) <= Place(Rows, i)
  <2>1. \A j \in Rows' \ Rows : ~(j < i)
    BY <1>4, <1>8
  <2> QED
    BY <1>1, <2>1, PlaceShrinks
<1>9. SeenOK'
  <2>1. SeenOK
    BY DEF IndInv
  <2>2. CASE shifted'
    BY <1>4, <2>1, <2>2 DEF SeenOK
  <2>3. CASE ~shifted'
    <3>1. ASSUME NEW i \in seen \cap Rows' PROVE Place(Rows', i) <= Bound
      <4>1. i \in Rows /\ Place(Rows, i) <= Bound
        BY <1>4, <1>7, <2>1, <2>3 DEF SeenOK
      <4>2. Place(Rows', i) <= Place(Rows, i)
        BY <1>8, <2>3, <4>1
      <4>3. Bound \in Nat
        BY <1>2, ConstantsOK DEF TypeOK, Bound, Offsets
      <4> QED
        BY <1>1, <4>1, <4>2, <4>3
    <3> QED
      BY <1>4, <1>6, <2>1, <2>3, <3>1 DEF SeenOK
  <2> QED
    BY <2>2, <2>3
<1>10. AheadOK'
  <2> SUFFICES ASSUME step \notin {"idle", "refused"}, ~shifted', ~removed'
               PROVE  AheadOK'
    BY <1>4 DEF AheadOK
  <2>1. /\ \A i \in start \cap Rows :
              /\ i \in seen \/ Place(Rows, i) > Bound
              /\ step \in {"list", "page", "done"} => Place(Rows, i) <= total
              /\ \A j \in Rows \ start : i < j
        /\ step = "done" => offset + limit >= total
    BY <1>4 DEF IndInv, AheadOK
  <2>2. Bound \in Nat /\ total \in Nat
    BY <1>2, ConstantsOK DEF TypeOK, Bound, Offsets
  <2>3. ASSUME NEW i \in start \cap Rows', i \notin seen
        PROVE  Place(Rows', i) > Bound
    <3>1. i \in Rows /\ Place(Rows, i) > Bound
      BY <1>7, <2>1, <2>3
    <3>2. CASE Rows \subseteq Rows'
      <4>1. Place(Rows, i) <= Place(Rows', i)
        BY <1>1, <3>2, PlaceGrows
      <4> QED
        BY <1>1, <2>2, <3>1, <4>1
    <3>3. ASSUME NEW j \in Rows, Rows' = Rows \ {j}
          PROVE  Place(Rows', i) > Bound
      <4>1. j \notin seen /\ i \in Nat /\ j \in Nat /\ i # j
        BY <1>1, <1>4, <3>1, <3>3
      <4>2. CASE j < i
        <5>1. j \in start
          BY <2>1, <2>3, <3>1, <4>1, <4>2
        <5>2. Place(Rows, j) > Bound
          BY <2>1, <4>1, <5>1
        <5>3. Place(Rows', i) >= Place(Rows, j)
          BY <1>1, <3>1, <3>3, <4>2, PlaceInherited
        <5> QED
          BY <1>1, <2>2, <5>2, <5>3
      <4>3. CASE i < j
        <5>1. ~(j <= i)
          BY <4>1, <4>3
        <5>2. {k \in Rows' : k <= i} = {k \in Rows : k <= i}
          BY <3>3, <5>1
        <5> QED
          BY <3>1, <5>2 DEF Place
      <4> QED
        BY <4>1, <4>2, <4>3
    <3> QED
      BY <1>3, <3>2, <3>3
  <2>4. ASSUME NEW i \in start \cap Rows', step \in {"list", "page", "done"}
        PROVE  Place(Rows', i) <= total
    <3>1. i \in Rows /\ Place(Rows, i) <= total
      BY <1>7, <2>1, <2>4
    <3>2. Place(Rows', i) <= Place(Rows, i)
      BY <1>8, <3>1
    <3> QED
      BY <1>1, <2>2, <3>1, <3>2
  <2>5. ASSUME NEW i \in start \cap Rows', NEW j \in Rows' \ start
        PROVE  i < j
    <3>1. i \in Rows /\ i \in Nat /\ j \in Nat /\ i # j
      BY <1>1, <1>7
    <3>2. CASE j \in Rows
      BY <2>1, <3>1, <3>2
    <3>3. CASE j \notin Rows
      <4>1. ~(j < i)
        BY <1>4, <3>1, <3>3
      <4> QED
        BY <3>1, <4>1
    <3> QED
      BY <3>2, <3>3
  <2> QED
    BY <1>4, <1>6, <2>1, <2>3, <2>4, <2>5 DEF AheadOK
<1>11. TotalOK' /\ TotalMatchesPage'
  BY <1>4 DEF IndInv, TotalOK, TotalMatchesPage
<1> QED
  BY <1>3, <1>5, <1>9, <1>10, <1>11 DEF IndInv

\* The first request of a walk keeps the invariant.
LEMMA AskStep ==
    ASSUME IndInv, NEW l \in Raw, NEW o \in Raw, Ask(l, o)
    PROVE  IndInv'
<1>1. /\ Rows \in SUBSET Ids /\ Rows' = Rows /\ tableVars' = tableVars
      /\ \A i : Rank(i) = Place(Rows, i) /\ Place(Rows, i) \in Nat
  BY RankIsPlace DEF Rows, Ask, tableVars
<1>2. TypeOK /\ SequenceOK /\ SeenOK
  BY DEF IndInv
<1>3. /\ step = "idle" /\ seen = {} /\ twice = {}
      /\ start' = Rows /\ removed' = FALSE /\ shifted' = FALSE
      /\ total' = total /\ page' = page /\ twice' = {} /\ touched' = touched
  BY <1>2 DEF Ask, SeenOK
<1>4. CASE step' = "refused" /\ UNCHANGED <<limit, offset, seen>>
  BY <1>1, <1>2, <1>3, <1>4
     DEF IndInv, TypeOK, TableTypeOK, SequenceOK, SeenOK, AheadOK, TotalOK,
         TotalMatchesPage, tableVars
<1>5. CASE /\ Parses(l) /\ Parses(o) /\ ValidLimit(ParsedOr(l, DefaultLimit))
           /\ step' = "count"
           /\ limit' = ParsedOr(l, DefaultLimit)
           /\ offset' = ParsedOr(o, 0)
           /\ seen' = {i \in Rows : Rank(i) <= offset'}
  <2>1. limit' \in 1..MaxLimit
    BY <1>5, ConstantsOK
       DEF Raw, Numbers, Offsets, Parses, ParsedOr, ValidLimit
  <2>2. offset' \in Offsets
    BY <1>5, ConstantsOK DEF Raw, Numbers, Offsets, Parses, ParsedOr
  <2>3. offset' \in Nat /\ Bound' = offset'
    BY <1>5, <2>2, ConstantsOK DEF Offsets, Bound
  <2>4. /\ seen' \subseteq Rows
        /\ \A i \in Rows : i \in seen' \/ Rank(i) > offset'
    BY <1>1, <1>5, <2>3
  <2>5. TypeOK'
    BY <1>1, <1>2, <1>3, <1>5, <2>1, <2>2, <2>4
       DEF TypeOK, TableTypeOK, tableVars
  <2>6. SequenceOK'
    BY <1>1, <1>2, <1>3, <2>4 DEF SequenceOK, tableVars
  <2>7. SeenOK'
    BY <1>1, <1>3, <1>5, <2>3 DEF SeenOK
  <2>8. AheadOK'
    BY <1>1, <1>3, <1>5, <2>3, <2>4 DEF AheadOK
  <2> QED
    BY <1>5, <2>5, <2>6, <2>7, <2>8 DEF IndInv, TotalOK, TotalMatchesPage
<1> QED
  BY <1>4, <1>5 DEF Ask

\* Counting the rows keeps the invariant: no row is behind the total.
LEMMA CountStep == IndInv /\ Count => IndInv'
<1> SUFFICES ASSUME IndInv, Count PROVE IndInv'
  OBVIOUS
<1>1. /\ Rows \in SUBSET Ids /\ Rows' = Rows /\ tableVars' = tableVars
      /\ Cardinality(Rows) \in 0..MaxId
      /\ \A i : Place(Rows, i) <= Cardinality(Rows)
  BY RankIsPlace, PlaceType, IdsFinite DEF Rows, Count, tableVars
<1>2. TypeOK /\ SequenceOK /\ SeenOK /\ AheadOK
  BY DEF IndInv
<1>3. /\ step = "count" /\ step' = "list" /\ total' = Cardinality(Rows)
      /\ limit' = limit /\ offset' = offset /\ page' = page
      /\ start' = start /\ seen' = seen /\ twice' = twice
      /\ touched' = FALSE /\ removed' = removed /\ shifted' = shifted
      /\ Bound' = offset /\ Bound = offset
  BY DEF Count, seenVars, Bound
<1>4. TypeOK'
  BY <1>1, <1>2, <1>3 DEF TypeOK, TableTypeOK, tableVars
<1>5. SequenceOK' /\ SeenOK'
  BY <1>1, <1>2, <1>3 DEF SequenceOK, SeenOK, tableVars
<1>6. AheadOK'
  BY <1>1, <1>2, <1>3 DEF AheadOK
<1> QED
  BY <1>1, <1>3, <1>4, <1>5, <1>6 DEF IndInv, TotalOK, TotalMatchesPage

\* Reading a page keeps the invariant: it is what comes after the rows that
\* were left behind, and as long as the total says.
LEMMA ListStep == IndInv /\ List => IndInv'
<1> SUFFICES ASSUME IndInv, List PROVE IndInv'
  OBVIOUS
<1>1. /\ Rows \in SUBSET Ids /\ Rows' = Rows /\ tableVars' = tableVars
      /\ \A i : Rank(i) = Place(Rows, i) /\ Place(Rows, i) \in Nat
  BY RankIsPlace DEF Rows, List, tableVars
<1>2. TypeOK /\ SequenceOK /\ SeenOK /\ AheadOK /\ TotalOK
  BY DEF IndInv
<1>3. /\ step = "list" /\ step' = "page" /\ total' = total
      /\ limit' = limit /\ offset' = offset /\ start' = start
      /\ seen' = seen \cup page' /\ twice' = twice \cup (seen \cap page')
      /\ touched' = touched /\ removed' = removed /\ shifted' = shifted
      /\ Bound' = offset + limit /\ Bound = offset
  BY DEF List, Bound
<1>4. offset \in Nat /\ limit \in Nat /\ limit > 0
  BY <1>2, ConstantsOK DEF TypeOK, Offsets
<1>5. page' = {i \in Rows : /\ offset < Place(Rows, i)
                            /\ Place(Rows, i) <= offset + limit}
  BY <1>1, <1>4 DEF List, Select
<1>6. TypeOK'
  BY <1>1, <1>2, <1>3, <1>5 DEF TypeOK, TableTypeOK, tableVars
<1>7. SequenceOK'
  BY <1>1, <1>2, <1>3, <1>5 DEF SequenceOK, tableVars
<1>8. SeenOK'
  BY <1>1, <1>2, <1>3, <1>4, <1>5 DEF SeenOK
<1>9. AheadOK'
  <2>1. ASSUME ~shifted, ~removed, NEW i \in start \cap Rows
        PROVE  /\ i \in seen' \/ Place(Rows, i) > offset + limit
               /\ Place(Rows, i) <= total
               /\ \A j \in Rows \ start : i < j
    BY <1>1, <1>2, <1>3, <1>4, <1>5, <2>1 DEF AheadOK
  <2> QED
    BY <1>1, <1>3, <2>1 DEF AheadOK
<1>10. TotalMatchesPage'
  <2> SUFFICES ASSUME ~touched PROVE TotalMatchesPage'
    BY <1>3 DEF TotalMatchesPage
  <2>1. total = Cardinality(Rows)
    BY <1>2, <1>3 DEF TotalOK
  <2>2. Cardinality(page') = IF total <= offset THEN 0
                             ELSE IF total - offset < limit THEN total - offset
                             ELSE limit
    BY <1>1, <1>4, <1>5, <2>1, PlacesBetween
  <2> QED
    BY <1>3, <2>2 DEF TotalMatchesPage
<1>11. TotalOK'
  BY <1>3 DEF TotalOK
<1> QED
  BY <1>6, <1>7, <1>8, <1>9, <1>10, <1>11 DEF IndInv

\* A statement that fails, and trying again, keep the invariant.
LEMMA FailureStep == IndInv /\ (StatementFails \/ Retry) => IndInv'
<1> SUFFICES ASSUME IndInv, StatementFails \/ Retry PROVE IndInv'
  OBVIOUS
<1>1. /\ Rows' = Rows /\ tableVars' = tableVars
      /\ limit' = limit /\ offset' = offset /\ page' = page
      /\ start' = start /\ seen' = seen /\ twice' = twice /\ total' = total
      /\ touched' = touched /\ removed' = removed /\ shifted' = shifted
  BY DEF StatementFails, Retry, seenVars, tableVars, Rows
<1>2. /\ step \in {"count", "list", "failed"} /\ step' \in {"count", "failed"}
      /\ Bound' = offset /\ Bound = offset
  BY <1>1 DEF StatementFails, Retry, Bound
<1>3. TypeOK' /\ SequenceOK'
  BY <1>1, <1>2 DEF IndInv, TypeOK, TableTypeOK, SequenceOK, tableVars
<1>4. SeenOK' /\ AheadOK'
  BY <1>1, <1>2 DEF IndInv, SeenOK, AheadOK
<1> QED
  BY <1>2, <1>3, <1>4 DEF IndInv, TotalOK, TotalMatchesPage

\* Going to the next page, or stopping at the total, keeps the invariant.
LEMMA NextPageStep == IndInv /\ NextPage => IndInv'
<1> SUFFICES ASSUME IndInv, NextPage PROVE IndInv'
  OBVIOUS
<1>1. /\ Rows' = Rows /\ tableVars' = tableVars
      /\ limit' = limit /\ page' = page /\ total' = total
      /\ start' = start /\ seen' = seen /\ twice' = twice
      /\ touched' = touched /\ removed' = removed /\ shifted' = shifted
  BY DEF NextPage, seenVars, tableVars, Rows
<1>2. /\ TypeOK /\ offset \in Nat /\ limit \in Nat /\ total \in 0..MaxId
      /\ MaxId \in Nat /\ MaxId <= MaxBigint /\ MaxBigint \in Nat
  BY ConstantsOK DEF IndInv, TypeOK, Offsets
<1>3. /\ step = "page" /\ Bound' = offset + limit /\ Bound = offset + limit
      /\ \/ step' = "count" /\ offset' \in Offsets
         \/ step' = "done" /\ offset' = offset /\ offset' + limit' >= total
  BY <1>1, <1>2 DEF NextPage, Bound, Offsets
<1>4. TypeOK' /\ SequenceOK'
  BY <1>1, <1>3 DEF IndInv, TypeOK, TableTypeOK, SequenceOK, tableVars
<1>5. SeenOK' /\ AheadOK'
  BY <1>1, <1>3 DEF IndInv, SeenOK, AheadOK
<1> QED
  BY <1>3, <1>4, <1>5 DEF IndInv, TotalOK, TotalMatchesPage

\* Where a table and a walk begin.
LEMMA FirstValues ==
    /\ DefaultLimit \in 1..MaxLimit
    /\ 0 \in Offsets
    /\ 0 \in 0..MaxId
    /\ 1 \in 1..(MaxId + 1)
BY ConstantsOK DEF Offsets

\* A new walk keeps the invariant.
LEMMA RestartStep == IndInv /\ Restart => IndInv'
<1> SUFFICES ASSUME IndInv, Restart PROVE IndInv'
  OBVIOUS
<1>1. Rows' = Rows /\ tableVars' = tableVars
  BY DEF Restart, tableVars, Rows
<1>2. TypeOK'
  BY <1>1, FirstValues
     DEF Restart, IndInv, TypeOK, TableTypeOK, tableVars
<1>3. SequenceOK'
  BY <1>1 DEF Restart, IndInv, SequenceOK, tableVars
<1> QED
  BY <1>2, <1>3 DEF Restart, IndInv, SeenOK, AheadOK, TotalOK, TotalMatchesPage
-----------------------------------------------------------------------------
(***************************************************************************)
(* Theorems.                                                               *)
(***************************************************************************)
\* The invariant holds at the beginning and is kept by every step.
THEOREM Invariance == Spec => []IndInv
<1>1. Init => IndInv
  <2> SUFFICES ASSUME Init PROVE IndInv
    OBVIOUS
  <2>1. Rows = {}
    BY DEF Init, TableInit, Rows
  <2>2. TableTypeOK
    BY FirstValues DEF Init, TableInit, TableTypeOK
  <2>3. TypeOK
    BY <2>2, FirstValues DEF Init, TypeOK
  <2>4. SequenceOK
    BY <2>1 DEF Init, TableInit, SequenceOK
  <2> QED
    BY <2>3, <2>4 DEF Init, IndInv, SeenOK, AheadOK, TotalOK, TotalMatchesPage
<1>2. IndInv /\ [Next]_vars => IndInv'
  <2> SUFFICES ASSUME IndInv, [Next]_vars PROVE IndInv'
    OBVIOUS
  <2>1. CASE UNCHANGED vars
    BY <2>1 DEF vars, tableVars, walkVars, seenVars, IndInv, TypeOK,
                TableTypeOK, SequenceOK, SeenOK, AheadOK, TotalOK,
                TotalMatchesPage, Bound, Rows
  <2>2. CASE Next
    BY <2>2, AskStep, CountStep, ListStep, FailureStep, NextPageStep,
       RestartStep, OthersStep DEF Next
  <2> QED
    BY <2>1, <2>2
<1> QED
  BY <1>1, <1>2, PTL DEF Spec

\* Parameters that validated stay in range, offsets never leave what the
\* database understands by paging on, and totals and pages are of ids.
THEOREM TypeCorrect == Spec => []TypeOK
<1>1. IndInv => TypeOK
  BY DEF IndInv
<1> QED
  BY <1>1, Invariance, PTL

\* Pages do not overlap, for any table, limit and offset (SortAsc in
\* TaskService.List).
THEOREM PagesAreDisjoint == Spec => []NothingTwice
<1>1. IndInv => NothingTwice
  BY DEF IndInv, SeenOK, NothingTwice
<1> QED
  BY <1>1, Invariance, PTL

\* A walk to the total misses no row, for any table, limit and offset, unless
\* a row it left behind was removed or one appeared in between
\* (buildListQuery).
THEOREM WalkIsComplete == Spec => []NothingSkipped
<1>1. IndInv => NothingSkipped
  <2> SUFFICES ASSUME IndInv, step = "done", ~removed, ~shifted,
                      NEW i \in start, i \in Rows
               PROVE  i \in seen
    BY DEF NothingSkipped
  <2>1. offset \in Nat /\ limit \in Nat /\ total \in Nat
    BY ConstantsOK DEF IndInv, TypeOK, Offsets
  <2>2. /\ i \in seen \/ Place(Rows, i) > offset + limit
        /\ Place(Rows, i) <= total /\ offset + limit >= total
    BY DEF IndInv, AheadOK, Bound
  <2>3. Place(Rows, i) \in Nat
    BY RankIsPlace
  <2> QED
    BY <2>1, <2>2, <2>3
<1> QED
  BY <1>1, Invariance, PTL

\* Total, limit and offset of an answer say how long its page is, if no row
\* came or went between the two statements of TaskService.List.
THEOREM AnswerIsConsistent == Spec => []TotalMatchesPage
<1>1. IndInv => TotalMatchesPage
  BY DEF IndInv
<1> QED
  BY <1>1, Invariance, PTL
=============================================================================
