-------------------------- MODULE HttpFrontProofs --------------------------
(***************************************************************************)
(* Proofs about HttpFront, for any route group, any words in paths of any  *)
(* length, any methods and any rate limiter that RateAssumption allows.    *)
(***************************************************************************)
EXTENDS HttpFront, RateLimitProofs, SequenceTheorems, WellFoundedInduction

\* The patterns of the two resources (the one of the list is Tasks).
Item == Group \o <<"tasks", Param>>

\* The paths of one task.
ItemPath(path) == \E s \in Words : path = Tasks \o <<s>>

\* The path has no slashes in front or behind that it could do without.
Bare(path) == Blank \notin {path[1], path[Len(path)]}

\* Everything a segment of a path or of a pattern can be.
Texts == Segments \cup {"tasks", Param}
-----------------------------------------------------------------------------
(***************************************************************************)
(* Paths and patterns.                                                     *)
(***************************************************************************)
\* The segments of ROUTE_GROUP.
LEMMA GroupShape ==
    /\ Len(Group) \in Nat /\ Group \in Seq(Texts)
    /\ \A i \in 1..Len(Group) : Group[i] \in Words \ {Param, Blank}
<1>1. Group \in Seq(Words \ {Param})
  BY RouteAssumption
<1>2. Words \ {Param} \subseteq Texts
  BY DEF Texts, Segments
<1>3. Group \in Seq(Texts)
  BY <1>1, <1>2, SeqMonotonic
<1>4. Len(Group) \in Nat
  BY <1>1, LenProperties
<1>5. \A i \in 1..Len(Group) : Group[i] \in Words \ {Param}
  BY <1>1, ElementOfSeq
<1> QED
  BY <1>3, <1>4, <1>5, RouteAssumption

\* The pattern of the list, segment by segment.
LEMMA TasksShape ==
    /\ Tasks \in Seq(Texts) /\ Len(Tasks) = Len(Group) + 1
    /\ \A i \in 1..Len(Group) : Tasks[i] = Group[i]
    /\ Tasks[Len(Group) + 1] = "tasks"
<1> DEFINE t == <<"tasks">>
<1>1. t \in Seq(Texts) /\ Len(t) = 1 /\ t[1] = "tasks"
  BY DEF Texts
<1> HIDE DEF t
<1>2. /\ Group \o t \in Seq(Texts) /\ Len(Group \o t) = Len(Group) + 1
      /\ \A i \in 1..(Len(Group) + 1) :
            (Group \o t)[i] = IF i <= Len(Group) THEN Group[i]
                              ELSE t[i - Len(Group)]
  <2>1. Group \in Seq(Texts)
    BY GroupShape
  <2>2. t \in Seq(Texts)
    BY <1>1
  <2>3. /\ Group \o t \in Seq(Texts)
        /\ Len(Group \o t) = Len(Group) + Len(t)
        /\ \A i \in 1..(Len(Group) + Len(t)) :
              (Group \o t)[i] = IF i <= Len(Group) THEN Group[i]
                                ELSE t[i - Len(Group)]
    BY ONLY <2>1, <2>2, ConcatProperties
  <2> QED
    BY <1>1, <2>3
<1>3. Tasks = Group \o t
  BY DEF Tasks, t
<1> QED
  BY <1>1, <1>2, <1>3, GroupShape

\* The pattern of one task, segment by segment: its parameter is the last.
LEMMA ItemShape ==
    /\ Item \in Seq(Texts) /\ Len(Item) = Len(Group) + 2
    /\ \A i \in 1..Len(Group) : Item[i] = Group[i]
    /\ Item[Len(Group) + 1] = "tasks" /\ Item[Len(Group) + 2] = Param
<1> DEFINE t == <<"tasks", Param>>
<1>1. t \in Seq(Texts) /\ Len(t) = 2 /\ t[1] = "tasks" /\ t[2] = Param
  BY DEF Texts
<1> HIDE DEF t
<1>2. /\ Group \o t \in Seq(Texts) /\ Len(Group \o t) = Len(Group) + 2
      /\ \A i \in 1..(Len(Group) + 2) :
            (Group \o t)[i] = IF i <= Len(Group) THEN Group[i]
                              ELSE t[i - Len(Group)]
  <2>1. Group \in Seq(Texts)
    BY GroupShape
  <2>2. t \in Seq(Texts)
    BY <1>1
  <2>3. /\ Group \o t \in Seq(Texts)
        /\ Len(Group \o t) = Len(Group) + Len(t)
        /\ \A i \in 1..(Len(Group) + Len(t)) :
              (Group \o t)[i] = IF i <= Len(Group) THEN Group[i]
                                ELSE t[i - Len(Group)]
    BY ONLY <2>1, <2>2, ConcatProperties
  <2> QED
    BY <1>1, <2>3
<1>3. Item = Group \o t
  BY DEF Item, t
<1> QED
  BY <1>1, <1>2, <1>3, GroupShape

\* Only the pattern of one task has a parameter.
LEMMA Params ==
    /\ ~HasParam(Tasks)
    /\ HasParam(Item)
    /\ (CHOOSE i \in DOMAIN Item : Item[i] = Param) = Len(Group) + 2
<1> DEFINE n == Len(Group)
<1>1. n \in Nat /\ DOMAIN Tasks = 1..(n + 1) /\ DOMAIN Item = 1..(n + 2)
  BY GroupShape, TasksShape, ItemShape, LenProperties
<1>2. \A i \in 1..n : Tasks[i] # Param /\ Item[i] # Param
  BY GroupShape, TasksShape, ItemShape
<1>3. /\ Tasks[n + 1] # Param /\ Item[n + 1] # Param /\ Item[n + 2] = Param
  BY TasksShape, ItemShape DEF Param
<1> HIDE DEF n
<1>4. \A i \in 1..(n + 1) : i \in 1..n \/ i = n + 1
  BY <1>1
<1>5. ~HasParam(Tasks)
  BY <1>1, <1>2, <1>3, <1>4 DEF HasParam
<1>6. \A i \in 1..(n + 2) : Item[i] = Param <=> i = n + 2
  <2>1. \A i \in 1..(n + 2) : i \in 1..n \/ i = n + 1 \/ i = n + 2
    BY <1>1
  <2>2. n + 2 # n + 1 /\ n + 2 \notin 1..n
    BY <1>1
  <2> QED
    BY <1>2, <1>3, <2>1, <2>2
<1>7. n + 2 \in 1..(n + 2)
  BY <1>1
<1>8. HasParam(Item)
  BY <1>1, <1>6, <1>7 DEF HasParam
<1>9. (CHOOSE i \in DOMAIN Item : Item[i] = Param) = n + 2
  BY <1>1, <1>6, <1>7
<1> QED
  BY <1>5, <1>8, <1>9 DEF n

\* Paths are sequences.
LEMMA PathShape ==
    ASSUME NEW path \in Paths
    PROVE  /\ path \in Seq(Segments) /\ path \in Seq(Texts)
           /\ Len(path) \in Nat /\ Len(path) >= 1
           /\ DOMAIN path = 1..Len(path)
<1>1. PICK n \in 1..MaxSegments : path \in [1..n -> Segments]
  BY DEF Paths
<1>2. n \in Nat
  BY RouteAssumption
<1>3. path \in Seq(Segments)
  BY <1>1, <1>2, SeqDef
<1>4. Len(path) \in Nat /\ DOMAIN path = 1..Len(path)
  BY <1>3, LenProperties
<1>5. Len(path) = n
  BY <1>1, <1>2, <1>3
<1>6. path \in Seq(Texts)
  BY <1>3, SeqMonotonic DEF Texts
<1> QED
  BY <1>1, <1>3, <1>4, <1>5, <1>6, RouteAssumption

\* The ends of a set of numbers.
LEMMA Least ==
    ASSUME NEW S, S \subseteq Nat, S # {}
    PROVE  \E i \in S : \A j \in S : i <= j
<1> DEFINE R == OpToRel(<, Nat)
<1>1. IsWellFoundedOn(R, Nat)
  BY NatLessThanWellFounded
<1>2. ASSUME NEW i \in Nat, NEW j \in Nat, <<j, i>> \notin R
      PROVE  i <= j
  BY <1>2 DEF OpToRel
<1> HIDE DEF R
<1>3. PICK i \in S : \A j \in S : ~(<<j, i>> \in R)
  BY <1>1, WFMin
<1> QED
  BY <1>2, <1>3

LEMMA Greatest ==
    ASSUME NEW n \in Nat, NEW S, S \subseteq 1..n, S # {}
    PROVE  \E i \in S : \A j \in S : j <= i
<1> DEFINE T == {n - i : i \in S}
<1>1. T \subseteq Nat
  <2> SUFFICES ASSUME NEW i \in S PROVE n - i \in Nat
    OBVIOUS
  <2>1. i \in 1..n
    OBVIOUS
  <2> QED
    BY <2>1
<1>2. PICK t \in T : \A u \in T : t <= u
  BY <1>1, Least
<1>3. PICK i \in S : t = n - i
  OBVIOUS
<1>4. \A j \in S : n - i <= n - j
  BY <1>2, <1>3
<1> QED
  BY <1>3, <1>4

\* What is left of a path begins and ends with the first and the last segment
\* that is not empty.
LEMMA TrimEnds ==
    ASSUME NEW path \in Paths, NEW k \in DOMAIN path, path[k] # Blank
    PROVE  \E first, final \in DOMAIN path :
              /\ first <= k /\ k <= final
              /\ path[first] # Blank /\ path[final] # Blank
              /\ Trim(path) = SubSeq(path, first, final)
<1> DEFINE full == {i \in DOMAIN path : path[i] # Blank}
           first == CHOOSE i \in full : \A j \in full : i <= j
           final == CHOOSE i \in full : \A j \in full : j <= i
<1>1. Len(path) \in Nat /\ DOMAIN path = 1..Len(path)
  BY PathShape
<1>2. k \in full /\ full \subseteq 1..Len(path) /\ full \subseteq Nat
  BY <1>1
<1>3. Trim(path) = SubSeq(path, first, final)
  BY <1>2, Zenon DEF Trim
<1>4. \A i \in full : i \in DOMAIN path /\ path[i] # Blank
  OBVIOUS
<1> HIDE DEF full
<1>5. first \in full /\ first <= k
  BY <1>2, Least
<1>6. final \in full /\ k <= final
  BY <1>1, <1>2, Greatest
<1> QED
  BY <1>3, <1>4, <1>5, <1>6

\* Of a bare path everything is left.
LEMMA TrimBare ==
    ASSUME NEW path \in Paths, Bare(path)
    PROVE  Trim(path) = path
<1> DEFINE m == Len(path)
           full == {i \in DOMAIN path : path[i] # Blank}
           first == CHOOSE i \in full : \A j \in full : i <= j
           final == CHOOSE i \in full : \A j \in full : j <= i
<1>1. m \in Nat /\ m >= 1 /\ DOMAIN path = 1..m /\ path \in Seq(Segments)
  BY PathShape
<1>2. SubSeq(path, 1, m) = path
  BY <1>1, SubSeqFull
<1>3. path[1] # Blank /\ path[m] # Blank
  BY DEF Bare
<1> HIDE DEF m
<1>4. 1 \in full /\ m \in full /\ full \subseteq 1..m
  BY <1>1, <1>3
<1>5. Trim(path) = SubSeq(path, first, final)
  BY <1>4, Zenon DEF Trim
<1> HIDE DEF full
<1>6. \A j \in full : j \in Nat /\ 1 <= j /\ j <= m
  BY <1>1, <1>4
<1>7. \A i \in full : (\A j \in full : i <= j) => i = 1
  BY <1>4, <1>6
<1>8. \A i \in full : (\A j \in full : j <= i) => i = m
  BY <1>1, <1>4, <1>6
<1>9. first = 1 /\ final = m
  BY <1>4, <1>6, <1>7, <1>8, Zenon
<1> QED
  BY <1>2, <1>5, <1>9

\* What is left of a path ends with a word, unless nothing is left.
LEMMA TrimLast ==
    ASSUME NEW path \in Paths, NEW n \in Nat, n >= 2, Len(Trim(path)) = n
    PROVE  Trim(path)[n] \in Words
<1> DEFINE m == Len(path)
<1>1. m \in Nat /\ DOMAIN path = 1..m /\ path \in Seq(Segments)
  BY PathShape
<1>2. \A i \in 1..m : path[i] \in Segments
  BY <1>1, ElementOfSeq
<1>3. PICK k \in DOMAIN path : path[k] # Blank
  <2> SUFFICES ASSUME \A k \in DOMAIN path : path[k] = Blank PROVE FALSE
    OBVIOUS
  <2>1. {i \in DOMAIN path : path[i] # Blank} = {}
    OBVIOUS
  <2>2. Trim(path) = <<Blank>>
    BY <2>1 DEF Trim
  <2>3. Len(<<Blank>>) = 1
    OBVIOUS
  <2> QED
    BY <2>2, <2>3
<1>4. PICK first, final \in DOMAIN path :
         /\ first <= k /\ k <= final /\ path[final] # Blank
         /\ Trim(path) = SubSeq(path, first, final)
  BY <1>3, TrimEnds
<1>5. /\ first \in 1..m /\ final \in 1..m /\ first <= final
  BY <1>1, <1>3, <1>4
<1> DEFINE q == SubSeq(path, first, final)
<1>6. /\ Len(q) = IF first <= final THEN final - first + 1 ELSE 0
      /\ \A i \in 1..(final - first + 1) : q[i] = path[first + i - 1]
  <2>1. \A i \in first..final : path[i] \in Segments
    BY <1>1, <1>2, <1>5
  <2>2. first \in Int /\ final \in Int
    BY <1>1, <1>5
  <2> QED
    BY ONLY <2>1, <2>2, SubSeqProperties
<1> HIDE DEF q, m
<1>7. n = final - first + 1 /\ n \in 1..(final - first + 1)
      /\ first + n - 1 = final
  <2>1. Len(q) = n
    BY <1>4 DEF q
  <2> QED
    BY <1>1, <1>5, <1>6, <2>1
<1>8. q[n] = path[final]
  BY <1>6, <1>7
<1>9. path[final] \in Words
  BY <1>2, <1>4, <1>5 DEF Segments
<1> QED
  BY <1>4, <1>8, <1>9 DEF q

\* What one more segment makes of the path of the list.
LEMMA ItemPathShape ==
    ASSUME NEW s \in Words
    PROVE  LET n == Len(Group)
               one == Tasks \o <<s>>
           IN  /\ one \in Seq(Texts) /\ Len(one) = n + 2
               /\ \A i \in 1..(n + 1) : one[i] = Tasks[i]
               /\ one[n + 2] = s
<1> DEFINE n == Len(Group)
           t == <<s>>
<1>1. n \in Nat /\ Tasks \in Seq(Texts) /\ Len(Tasks) = n + 1
  BY GroupShape, TasksShape
<1>2. s \in Texts
  BY DEF Texts, Segments
<1>3. t \in Seq(Texts) /\ Len(t) = 1 /\ t[1] = s
  BY <1>2
<1> HIDE DEF n, t
<1>4. /\ Tasks \o t \in Seq(Texts)
      /\ Len(Tasks \o t) = Len(Tasks) + Len(t)
      /\ \A i \in 1..(Len(Tasks) + Len(t)) :
            (Tasks \o t)[i] = IF i <= Len(Tasks) THEN Tasks[i]
                              ELSE t[i - Len(Tasks)]
  BY ONLY <1>1, <1>3, ConcatProperties
<1>5. /\ Tasks \o t \in Seq(Texts) /\ Len(Tasks \o t) = n + 2
      /\ \A i \in 1..(n + 1) : (Tasks \o t)[i] = Tasks[i]
      /\ (Tasks \o t)[n + 2] = s
  BY ONLY <1>1, <1>3, <1>4
<1> QED
  BY <1>5 DEF n, t

\* The path of one task begins like the one of the list.
Below(path) == \A i \in 1..(Len(Group) + 1) : path[i] = Tasks[i]

\* The paths of one task, segment by segment.
LEMMA ItemPathIs ==
    ASSUME NEW path \in Paths
    PROVE  ItemPath(path) <=>
               /\ Below(path) /\ path[Len(Group) + 2] \in Words
               /\ Len(path) = Len(Group) + 2
<1> DEFINE n == Len(Group)
<1>0. n \in Nat /\ path \in Seq(Texts)
  BY GroupShape, PathShape
<1>1. ASSUME ItemPath(path)
      PROVE  Below(path) /\ path[n + 2] \in Words /\ Len(path) = n + 2
  <2>1. PICK s \in Words : path = Tasks \o <<s>>
    BY <1>1 DEF ItemPath
  <2> QED
    BY <2>1, ItemPathShape DEF Below
<1>2. ASSUME Below(path), path[n + 2] \in Words, Len(path) = n + 2
      PROVE  ItemPath(path)
  <2> DEFINE s == path[n + 2]
             one == Tasks \o <<s>>
  <2>1. /\ one \in Seq(Texts) /\ Len(one) = n + 2
        /\ \A i \in 1..(n + 1) : one[i] = Tasks[i]
        /\ one[n + 2] = s
    BY <1>2, ItemPathShape
  <2> HIDE DEF one
  <2>2. \A i \in 1..(n + 1) : path[i] = one[i]
    BY <1>2, <2>1 DEF Below
  <2> HIDE DEF n
  <2>3. \A i \in 1..(n + 2) : i \in 1..(n + 1) \/ i = n + 2
    BY ONLY <1>0
  <2>4. \A i \in 1..Len(path) : path[i] = one[i]
    BY <1>2, <2>1, <2>2, <2>3
  <2>5. path = one
    BY <1>0, <1>2, <2>1, <2>4, SeqEqual
  <2> QED
    BY <1>2, <2>5, Zenon DEF ItemPath, one
<1> QED
  BY <1>1, <1>2

\* A pattern matches the path of the list if it is that path.
LEMMA ListMatches ==
    ASSUME NEW path
    PROVE  /\ MatchPattern(Tasks, path) <=> path = Tasks
           /\ RequestParam(Tasks, path) = Blank
BY Params DEF MatchPattern, RequestParam

\* What the pattern of one task asks of a path.
LEMMA ItemPattern ==
    ASSUME NEW path
    PROVE  /\ MatchPattern(Item, path) <=>
                  Len(Trim(path)) = Len(Group) + 2 /\ Below(Trim(path))
           /\ RequestParam(Item, path) = Trim(path)[Len(Group) + 2]
<1> DEFINE n == Len(Group)
           parts == Trim(path)
<1>1. n \in Nat /\ DOMAIN Item = 1..(n + 2) /\ Len(Item) = n + 2
  BY GroupShape, ItemShape, LenProperties
<1>2. \A i \in 1..(n + 1) : Item[i] = Tasks[i] /\ Item[i] # Param
  <2>1. \A i \in 1..(n + 1) : i \in 1..n \/ i = n + 1
    BY <1>1
  <2>2. \A i \in 1..n : Item[i] = Tasks[i] /\ Item[i] # Param
    BY GroupShape, TasksShape, ItemShape
  <2>3. Item[n + 1] = Tasks[n + 1] /\ Item[n + 1] # Param
    BY TasksShape, ItemShape DEF Param
  <2> QED
    BY <2>1, <2>2, <2>3
<1>3. Item[n + 2] = Param
  BY ItemShape
<1>4. RequestParam(Item, path) = parts[n + 2]
  BY Params DEF RequestParam
<1>5. MatchPattern(Item, path) <=>
         /\ Len(Item) = Len(parts)
         /\ \A i \in DOMAIN Item : Item[i] \in {Param, parts[i]}
  BY Params DEF MatchPattern
<1> HIDE DEF n, parts
<1>6. \A i \in 1..(n + 2) : i \in 1..(n + 1) \/ i = n + 2
  BY <1>1
<1>7. 1..(n + 1) \subseteq 1..(n + 2)
  BY <1>1
<1>8. (\A i \in 1..(n + 2) : Item[i] \in {Param, parts[i]})
         <=> \A i \in 1..(n + 1) : parts[i] = Tasks[i]
  BY <1>2, <1>3, <1>6, <1>7
<1>9. MatchPattern(Item, path) <=> Len(parts) = n + 2 /\ Below(parts)
  BY <1>1, <1>5, <1>8 DEF Below, n
<1> QED
  BY <1>4, <1>9 DEF n, parts

\* The segment that the pattern of one task takes for the id is never empty;
\* of the bare paths, the pattern matches those of one task.
LEMMA ItemMatches ==
    ASSUME NEW path \in Paths
    PROVE  /\ MatchPattern(Item, path) => RequestParam(Item, path) \in Words
           /\ Bare(path) => (MatchPattern(Item, path) <=> ItemPath(path))
<1> DEFINE n == Len(Group)
           parts == Trim(path)
<1>1. n \in Nat /\ n + 2 \in Nat /\ n + 2 >= 2
  BY GroupShape
<1>2. /\ MatchPattern(Item, path) <=> Len(parts) = n + 2 /\ Below(parts)
      /\ RequestParam(Item, path) = parts[n + 2]
  BY ItemPattern
<1>3. Len(parts) = n + 2 => parts[n + 2] \in Words
  <2> HIDE DEF n
  <2> QED
    BY <1>1, TrimLast
<1>4. ItemPath(path) <=>
         Below(path) /\ path[n + 2] \in Words /\ Len(path) = n + 2
  BY ItemPathIs
<1>5. Bare(path) => parts = path
  BY TrimBare
<1> HIDE DEF n, parts
<1> QED
  BY <1>2, <1>3, <1>4, <1>5

\* A path is not both.
LEMMA NotBoth ==
    /\ Tasks \in Paths => ~ItemPath(Tasks)
<1>1. Len(Group) \in Nat /\ Len(Tasks) = Len(Group) + 1
  BY GroupShape, TasksShape
<1> QED
  BY <1>1, ItemPathIs
-----------------------------------------------------------------------------
(***************************************************************************)
(* The routes and the documentation.                                       *)
(***************************************************************************)
\* The methods of the two resources, with their handlers.
ListDoc == {<<"GET", "ListTasks">>, <<"POST", "CreateTask">>}
ItemDoc == {<<"GET", "GetTask">>, <<"PATCH", "UpdateTask">>,
            <<"DELETE", "DeleteTask">>}

LEMMA DocumentedIs ==
    ASSUME NEW path
    PROVE  Documented(path) = IF path = Tasks THEN ListDoc
                              ELSE IF ItemPath(path) THEN ItemDoc ELSE {}
BY DEF Documented, ItemPath, ListDoc, ItemDoc

\* No method of a resource has two handlers.
LEMMA OneHandler ==
    ASSUME NEW path, NEW d \in Documented(path), NEW e \in Documented(path),
           d[1] = e[1]
    PROVE  d = e
<1>1. \/ d \in ListDoc /\ e \in ListDoc
      \/ d \in ItemDoc /\ e \in ItemDoc
  BY DocumentedIs
<1>2. CASE d \in ListDoc /\ e \in ListDoc
  BY <1>2 DEF ListDoc
<1>3. CASE d \in ItemDoc /\ e \in ItemDoc
  BY <1>3 DEF ItemDoc
<1> QED
  BY <1>1, <1>2, <1>3

\* A route is one of the list's or one of those of one task.
LEMMA RouteIs ==
    ASSUME NEW r \in Routes
    PROVE  \/ /\ r.pattern = Tasks /\ <<r.method, r.handler>> \in ListDoc
              /\ r.handler \notin ItemHandlers
           \/ /\ r.pattern = Item /\ <<r.method, r.handler>> \in ItemDoc
              /\ r.handler \in ItemHandlers
<1> DEFINE o == <<"tasks">>
           t == <<"tasks", Param>>
<1>1. r \in {Route("GET", o, "ListTasks"), Route("POST", o, "CreateTask"),
             Route("GET", t, "GetTask"), Route("PATCH", t, "UpdateTask"),
             Route("DELETE", t, "DeleteTask")}
  BY DEF Routes
<1>2. Tasks = Group \o o /\ Item = Group \o t
  BY DEF Tasks, Item
<1> HIDE DEF o, t
<1> QED
  BY <1>1, <1>2 DEF Route, ListDoc, ItemDoc, ItemHandlers

\* Everything documented has its route.
LEMMA RouteOf ==
    ASSUME NEW d \in ListDoc \cup ItemDoc
    PROVE  \E r \in Routes : d = <<r.method, r.handler>>
<1> DEFINE o == <<"tasks">>
           t == <<"tasks", Param>>
<1>1. Routes = {Route("GET", o, "ListTasks"), Route("GET", t, "GetTask"),
                Route("POST", o, "CreateTask"),
                Route("PATCH", t, "UpdateTask"),
                Route("DELETE", t, "DeleteTask")}
  BY DEF Routes
<1> HIDE DEF o, t
<1> QED
  BY <1>1 DEF Route, ListDoc, ItemDoc

\* A route with an id gets one that is not empty; of the bare paths, a route
\* matches the ones it is documented for.
LEMMA Matching ==
    ASSUME NEW path \in Paths, NEW r \in Routes
    PROVE  /\ Bare(path) =>
                  (MatchPattern(r.pattern, path)
                     <=> <<r.method, r.handler>> \in Documented(path))
           /\ MatchPattern(r.pattern, path) =>
                  RequestParam(r.pattern, path) \in
                     IF r.handler \in ItemHandlers THEN Words ELSE {Blank}
<1>1. ListDoc \cap ItemDoc = {}
  BY DEF ListDoc, ItemDoc
<1>2. path = Tasks => ~ItemPath(path)
  BY NotBoth
<1>3. CASE /\ r.pattern = Tasks /\ <<r.method, r.handler>> \in ListDoc
           /\ r.handler \notin ItemHandlers
  BY <1>1, <1>2, <1>3, DocumentedIs, ListMatches
<1>4. CASE /\ r.pattern = Item /\ <<r.method, r.handler>> \in ItemDoc
           /\ r.handler \in ItemHandlers
  BY <1>1, <1>2, <1>4, DocumentedIs, ItemMatches
<1> QED
  BY <1>3, <1>4, RouteIs

\* The router calls a handler, with an id that is not empty, or refuses.
LEMMA Routed ==
    ASSUME NEW path \in Paths, NEW method, NEW a \in ServeHTTP(method, path)
    PROVE  \/ \E r \in Routes, id \in Segments :
                 /\ a = Answer(r.handler, id, 0)
                 /\ r.handler \in ItemHandlers => id # Blank
           \/ \E code \in {404, 405} : a = Answer("none", Blank, code)
<1> DEFINE matching == {r \in Routes : MatchPattern(r.pattern, path)}
           own == {r \in matching : r.method = method}
<1>1. a \in IF own # {}
              THEN {Answer(r.handler, RequestParam(r.pattern, path), 0) :
                      r \in own}
              ELSE {Answer("none", Blank,
                           IF matching = {} THEN 404 ELSE 405)}
  BY DEF ServeHTTP
<1>2. CASE own # {}
  <2>1. PICK r \in own :
          a = Answer(r.handler, RequestParam(r.pattern, path), 0)
    BY <1>1, <1>2
  <2>2. r \in Routes /\ MatchPattern(r.pattern, path)
    OBVIOUS
  <2> DEFINE id == RequestParam(r.pattern, path)
  <2>3. id \in Segments /\ (r.handler \in ItemHandlers => id # Blank)
    BY <2>2, Matching, RouteAssumption DEF Segments
  <2> HIDE DEF id
  <2> QED
    BY <2>1, <2>2, <2>3 DEF id
<1>3. CASE own = {}
  BY <1>1, <1>3
<1> QED
  BY <1>2, <1>3

\* What it makes of a bare path: the documented handler or the documented
\* refusal.
LEMMA Served ==
    ASSUME NEW path \in Paths, NEW hidden, Bare(path),
           ~Redirected(path, hidden), ~InSwagger(path, hidden),
           NEW method, NEW a \in ServeHTTP(method, path)
    PROVE  LET pr == Promise(method, path, hidden) IN
           \/ \E r \in Routes, id \in Segments :
                 /\ a = Answer(r.handler, id, 0)
                 /\ r.handler \in ItemHandlers => id # Blank
                 /\ pr = [handler |-> r.handler, code |-> 0]
           \/ \E code \in {404, 405} :
                 /\ a = Answer("none", Blank, code)
                 /\ pr = [handler |-> "none", code |-> code]
<1> DEFINE doc == {d \in Documented(path) : d[1] = method}
           matching == {r \in Routes : MatchPattern(r.pattern, path)}
           own == {r \in matching : r.method = method}
           pr == Promise(method, path, hidden)
<1>1. pr = IF doc # {}
             THEN [handler |-> (CHOOSE d \in doc : TRUE)[2], code |-> 0]
             ELSE [handler |-> "none",
                   code |-> IF Documented(path) = {} THEN 404 ELSE 405]
  BY DEF Promise, Bare
<1>2. a \in IF own # {}
              THEN {Answer(r.handler, RequestParam(r.pattern, path), 0) :
                      r \in own}
              ELSE {Answer("none", Blank,
                           IF matching = {} THEN 404 ELSE 405)}
  BY DEF ServeHTTP
<1>3. \A d \in Documented(path) :
         \E r \in matching : d = <<r.method, r.handler>>
  BY RouteOf, DocumentedIs, Matching
<1>4. \A r \in matching : <<r.method, r.handler>> \in Documented(path)
  BY Matching
<1>5. \A r \in own : <<r.method, r.handler>> \in doc
  BY <1>4
<1>6. doc = {} <=> own = {}
  <2>1. ASSUME NEW d \in doc PROVE own # {}
    <3>1. d \in Documented(path) /\ d[1] = method
      OBVIOUS
    <3>2. PICK r \in matching : d = <<r.method, r.handler>>
      BY <1>3, <3>1
    <3>3. r.method = method
      BY <3>1, <3>2
    <3> QED
      BY <3>3
  <2>2. own # {} => doc # {}
    BY <1>5
  <2> QED
    BY <2>1, <2>2
<1>7. Documented(path) = {} <=> matching = {}
  BY <1>3, <1>4
<1>8. CASE own # {}
  <2>1. PICK r \in own :
          a = Answer(r.handler, RequestParam(r.pattern, path), 0)
    BY <1>2, <1>8
  <2>2. r \in Routes /\ MatchPattern(r.pattern, path)
    OBVIOUS
  <2> DEFINE id == RequestParam(r.pattern, path)
             d == CHOOSE d \in doc : TRUE
  <2>3. id \in Segments /\ (r.handler \in ItemHandlers => id # Blank)
    BY <2>2, Matching, RouteAssumption DEF Segments
  <2>4. d \in doc
    BY <1>6, <1>8
  <2>5. <<r.method, r.handler>> \in doc
    BY <1>5
  <2>6. d = <<r.method, r.handler>>
    <3> HIDE DEF d
    <3>1. d \in Documented(path) /\ d[1] = method
      BY <2>4
    <3>2. <<r.method, r.handler>> \in Documented(path)
      BY <2>5
    <3>3. <<r.method, r.handler>>[1] = method
      BY <2>5
    <3> QED
      BY <3>1, <3>2, <3>3, OneHandler
  <2>7. pr = [handler |-> d[2], code |-> 0]
    BY <1>1, <1>6, <1>8
  <2>8. pr = [handler |-> r.handler, code |-> 0]
    <3> HIDE DEF d, pr
    <3> QED
      BY <2>6, <2>7
  <2> HIDE DEF id, pr
  <2> QED
    BY <2>1, <2>2, <2>3, <2>8 DEF id, pr
<1>9. CASE own = {}
  <2> DEFINE code == IF matching = {} THEN 404 ELSE 405
  <2>1. a = Answer("none", Blank, code)
    BY <1>2, <1>9
  <2>2. pr = [handler |-> "none", code |-> code]
    BY <1>1, <1>6, <1>7, <1>9
  <2>3. code \in {404, 405}
    OBVIOUS
  <2> HIDE DEF code
  <2> QED
    BY <2>1, <2>2, <2>3
<1> QED
  BY <1>8, <1>9
-----------------------------------------------------------------------------
(***************************************************************************)
(* Answers.                                                                *)
(***************************************************************************)
Codes == {0, 400, 404, 405, 429, 500}

AnswerSet ==
    [handler : {"none", "redirect", "swagger"} \cup HandlerNames,
     id : Segments, code : Codes, tooLong : BOOLEAN,
     promise : [handler : {"none", "any"} \cup HandlerNames,
                code : {0, 404, 405}]]

\* What TypeOK, RoutesAsDocumented and IdIsNeverEmpty say of an answer.
GoodAnswer(a) ==
    /\ a \in AnswerSet
    /\ a.promise # NoPromise =>
          /\ a.handler = a.promise.handler
          /\ a.handler = "none" => a.code = a.promise.code
    /\ a.handler \in ItemHandlers => a.id # Blank

\* The handlers keep everything but the code, which they set only if the
\* router found one of them.
HandledAs(a, handler, id, code, promise) ==
    \E c \in {code, 400, 500}, tooLong \in BOOLEAN :
      /\ a = [handler |-> handler, id |-> id, code |-> c,
              tooLong |-> tooLong, promise |-> promise]
      /\ handler \in {"none", "redirect", "swagger"} => c = code

LEMMA Handled ==
    ASSUME NEW handler, NEW id, NEW code, NEW body, NEW promise
    PROVE  HandledAs([Handle(Answer(handler, id, code), body)
                        EXCEPT !.promise = promise],
                     handler, id, code, promise)
<1> DEFINE ans == Answer(handler, id, code)
           idOK == ans.handler \in ItemHandlers => ParsePathID(ans.id)
           binds == idOK /\ ans.handler \in {"CreateTask", "UpdateTask"}
           noRow == ans.handler \in ItemHandlers /\ ans.id \notin Bigints
           c == IF ~idOK \/ (binds /\ ~BindJSON(body)) THEN 400
                ELSE IF noRow THEN 500 ELSE ans.code
           tooLong == binds /\ body = "long"
<1>1. /\ ans = [handler |-> handler, id |-> id, code |-> code,
                tooLong |-> FALSE, promise |-> NoPromise]
      /\ ans.handler = handler /\ ans.code = code
  BY DEF Answer
<1>2. Handle(ans, body) = [ans EXCEPT !.code = c, !.tooLong = tooLong]
  <2> HIDE DEF ans
  <2> QED
    BY DEF Handle
<1> HIDE DEF ans
<1>3. c \in {code, 400, 500} /\ tooLong \in BOOLEAN
  BY <1>1
<1>4. handler \in {"none", "redirect", "swagger"} => c = code
  BY <1>1 DEF ItemHandlers
<1> HIDE DEF c, tooLong
<1>5. Handle(ans, body) = [handler |-> handler, id |-> id, code |-> c,
                           tooLong |-> tooLong, promise |-> NoPromise]
  BY <1>1, <1>2
<1>6. [Handle(ans, body) EXCEPT !.promise = promise] =
        [handler |-> handler, id |-> id, code |-> c,
         tooLong |-> tooLong, promise |-> promise]
  BY <1>5
<1> DEFINE a == [Handle(ans, body) EXCEPT !.promise = promise]
<1>7. HandledAs(a, handler, id, code, promise)
  <2> HIDE DEF a
  <2>1. a = [handler |-> handler, id |-> id, code |-> c,
             tooLong |-> tooLong, promise |-> promise]
    BY <1>6 DEF a
  <2> SUFFICES \E x \in {code, 400, 500}, y \in BOOLEAN :
                 /\ a = [handler |-> handler, id |-> id, code |-> x,
                         tooLong |-> y, promise |-> promise]
                 /\ handler \in {"none", "redirect", "swagger"} => x = code
    BY Zenon DEF HandledAs
  <2> USE <1>3
  <2> WITNESS c \in {code, 400, 500}, tooLong \in BOOLEAN
  <2> QED
    BY <1>4, <2>1, Zenon
<1> QED
  BY <1>7 DEF ans

\* Every answer the mux, the router and the handlers may give is a good one.
LEMMA AnswersAreGood ==
    ASSUME NEW a \in Answers
    PROVE  GoodAnswer(a)
<1>1. PICK method \in Methods, t \in Targets :
        a \in AnswersTo(method, t[1], t[2])
  BY DEF Answers
<1> DEFINE path == t[1]
           hidden == t[2]
           pr == Promise(method, path, hidden)
<1>2. path \in Paths
  BY DEF Targets
<1> HIDE DEF path, hidden
<1>3. PICK b \in Dispatch(method, path, hidden), body \in Bodies :
        a = [Handle(b, body) EXCEPT !.promise = pr]
  BY <1>1 DEF AnswersTo, path, hidden
<1>4. /\ \A h \in {"none", "redirect", "swagger"} : h \notin ItemHandlers
      /\ Blank \in Segments
      /\ NoPromise \in [handler : {"none", "any"} \cup HandlerNames,
                        code : {0, 404, 405}]
  BY DEF ItemHandlers, Segments, NoPromise
<1>5. ASSUME pr = NoPromise,
             NEW h \in {"none", "redirect", "swagger"} \cup HandlerNames,
             NEW id \in Segments, NEW code \in Codes,
             b = Answer(h, id, code), h \in ItemHandlers => id # Blank
      PROVE  GoodAnswer(a)
  <2> HIDE DEF pr
  <2>1. PICK c \in {code, 400, 500}, tooLong \in BOOLEAN :
          a = [handler |-> h, id |-> id, code |-> c,
               tooLong |-> tooLong, promise |-> pr]
    <3>1. HandledAs(a, h, id, code, pr)
      BY <1>3, <1>5, Handled
    <3> QED
      BY <3>1 DEF HandledAs
  <2> QED
    BY <1>4, <1>5, <2>1 DEF GoodAnswer, AnswerSet, Codes
<1>6. CASE Redirected(path, hidden) \/ InSwagger(path, hidden)
  <2>1. pr = NoPromise
    BY <1>6 DEF Promise
  <2>2. PICK h \in {"redirect", "swagger"} : b = Answer(h, Blank, 0)
    BY <1>6 DEF Dispatch
  <2> QED
    BY <1>4, <1>5, <2>1, <2>2 DEF Codes
<1>7. CASE ~Redirected(path, hidden) /\ ~InSwagger(path, hidden)
           /\ ~Bare(path)
  <2>1. pr = NoPromise
    BY <1>7 DEF Promise, Bare
  <2>2. b \in ServeHTTP(method, path)
    BY <1>7 DEF Dispatch
  <2>3. CASE \E r \in Routes, id \in Segments :
              /\ b = Answer(r.handler, id, 0)
              /\ r.handler \in ItemHandlers => id # Blank
    <3>1. PICK r \in Routes, id \in Segments :
              /\ b = Answer(r.handler, id, 0)
              /\ r.handler \in ItemHandlers => id # Blank
      BY <2>3
    <3> DEFINE h == r.handler
    <3>2. h \in HandlerNames /\ 0 \in Codes
      BY DEF HandlerNames, Codes
    <3>3. b = Answer(h, id, 0) /\ (h \in ItemHandlers => id # Blank)
      BY <3>1
    <3> HIDE DEF h, pr
    <3> QED
      BY <1>5, <2>1, <3>2, <3>3
  <2>4. CASE \E code \in {404, 405} : b = Answer("none", Blank, code)
    BY <1>4, <1>5, <2>1, <2>4 DEF Codes
  <2> QED
    BY <1>2, <2>2, <2>3, <2>4, Routed
<1>8. CASE ~Redirected(path, hidden) /\ ~InSwagger(path, hidden)
           /\ Bare(path)
  <2>1. b \in ServeHTTP(method, path)
    BY <1>8 DEF Dispatch
  <2>2. \/ \E r \in Routes, id \in Segments :
              /\ b = Answer(r.handler, id, 0)
              /\ r.handler \in ItemHandlers => id # Blank
              /\ pr = [handler |-> r.handler, code |-> 0]
        \/ \E code \in {404, 405} :
              /\ b = Answer("none", Blank, code)
              /\ pr = [handler |-> "none", code |-> code]
    BY <1>2, <1>8, <2>1, Served
  <2>3. CASE \E r \in Routes, id \in Segments :
              /\ b = Answer(r.handler, id, 0)
              /\ r.handler \in ItemHandlers => id # Blank
              /\ pr = [handler |-> r.handler, code |-> 0]
    <3>1. PICK r \in Routes, id \in Segments :
              /\ b = Answer(r.handler, id, 0)
              /\ r.handler \in ItemHandlers => id # Blank
              /\ pr = [handler |-> r.handler, code |-> 0]
      BY <2>3
    <3> DEFINE h == r.handler
    <3>2. h \in HandlerNames
      BY DEF HandlerNames
    <3>3. h # "none"
      BY RouteIs DEF ListDoc, ItemDoc
    <3>4. PICK c \in {0, 400, 500}, tooLong \in BOOLEAN :
            a = [handler |-> h, id |-> id, code |-> c,
                 tooLong |-> tooLong, promise |-> pr]
      <4> HIDE DEF pr
      <4> QED
        <5>1. HandledAs(a, h, id, 0, pr)
          BY <1>3, <3>1, Handled
        <5> QED
          BY <5>1 DEF HandledAs
    <3>5. /\ pr = [handler |-> h, code |-> 0]
          /\ h \in ItemHandlers => id # Blank
      BY <3>1
    <3> HIDE DEF h, pr
    <3> QED
      BY <3>2, <3>3, <3>4, <3>5 DEF GoodAnswer, AnswerSet, Codes
  <2>4. CASE \E code \in {404, 405} :
              /\ b = Answer("none", Blank, code)
              /\ pr = [handler |-> "none", code |-> code]
    <3>1. PICK code \in {404, 405} :
              /\ b = Answer("none", Blank, code)
              /\ pr = [handler |-> "none", code |-> code]
      BY <2>4
    <3>2. PICK c \in {code, 400, 500}, tooLong \in BOOLEAN :
            /\ a = [handler |-> "none", id |-> Blank, code |-> c,
                    tooLong |-> tooLong, promise |-> pr]
            /\ c = code
      <4> HIDE DEF pr
      <4> QED
        <5>1. HandledAs(a, "none", Blank, code, pr)
          BY <1>3, <3>1, Handled
        <5> QED
          BY <5>1 DEF HandledAs
    <3> HIDE DEF pr
    <3> QED
      BY <1>4, <3>1, <3>2 DEF GoodAnswer, AnswerSet, Codes
  <2> QED
    BY <2>2, <2>3, <2>4
<1> QED
  BY <1>6, <1>7, <1>8
-----------------------------------------------------------------------------
(***************************************************************************)
(* The specification.                                                      *)
(***************************************************************************)
Inv == GoodAnswer(last)

\* What no handler has seen promises nothing.
LEMMA RefusalIsGood ==
    ASSUME NEW code \in Codes
    PROVE  GoodAnswer(Answer("none", Blank, code))
<1>1. NoPromise = [handler |-> "any", code |-> 0]
  BY DEF NoPromise
<1>2. "none" \notin ItemHandlers /\ Blank \in Segments
  BY DEF ItemHandlers, Segments
<1> QED
  BY <1>1, <1>2 DEF GoodAnswer, AnswerSet, Answer

LEMMA NoAnswerIsGood == GoodAnswer(NoAnswer)
BY RefusalIsGood DEF NoAnswer, Codes

\* Every answer is good, in every state.
LEMMA InvHolds == Spec => []Inv
<1>1. Init => Inv
  BY NoAnswerIsGood DEF Init, Inv
<1>2. Inv /\ [Next]_vars => Inv'
  <2> SUFFICES ASSUME Inv, [Next]_vars
               PROVE  GoodAnswer(last')
    BY DEF Inv, GoodAnswer
  <2>1. CASE Limit /\ last' = NoAnswer
    BY <2>1, NoAnswerIsGood
  <2>2. ASSUME NEW p \in Procs, Serve(p)
        PROVE  GoodAnswer(last')
    BY <2>2, AnswersAreGood DEF Serve
  <2>3. ASSUME NEW p \in Procs, TooManyRequests(p)
        PROVE  GoodAnswer(last')
    BY <2>3, RefusalIsGood DEF TooManyRequests, Codes
  <2>4. CASE UNCHANGED vars
    BY <2>4 DEF Inv, vars
  <2> QED
    BY <2>1, <2>2, <2>3, <2>4 DEF Next
<1> QED
  BY <1>1, <1>2, PTL DEF Spec

\* Whatever the group, the words, the length of the path, its escaped slashes
\* and the method: the documented handler is reached and no other, another
\* method is 405 and an unknown path 404.
\* (matchPattern, Router.ServeHTTP, InitRoutes)
THEOREM RoutesAgree == Spec => []RoutesAsDocumented
<1>1. Inv => RoutesAsDocumented
  BY DEF Inv, GoodAnswer, RoutesAsDocumented
<1> QED
  BY <1>1, InvHolds, PTL

\* "task id is required" is never answered.  (parsePathID)
THEOREM IdIsThere == Spec => []IdIsNeverEmpty
<1>1. Inv => IdIsNeverEmpty
  BY DEF Inv, GoodAnswer, IdIsNeverEmpty
<1> QED
  BY <1>1, InvHolds, PTL

\* The rate limiter does in front of the router what it does by itself: an
\* answer, of whatever kind, is its Finish.  (middleware.RateLimit)
THEOREM FrontLimits == Spec => RateSpec
<1>1. Init => RateInit
  BY DEF Init
<1>2. [Next]_vars => [Limit \/ \E p \in Procs : Finish(p)]_rateVars
  BY DEF Next, Serve, TooManyRequests, vars
<1> QED
  BY <1>1, <1>2, PTL DEF Spec, RateSpec

\* Type correctness of the composition.
THEOREM FrontTypes == Spec => []TypeOK
<1>1. Inv /\ RateTypeOK => TypeOK
  BY DEF Inv, GoodAnswer, AnswerSet, Codes, TypeOK
<1>2. IndInv => RateTypeOK
  BY DEF IndInv
<1> QED
  BY <1>1, <1>2, InvHolds, FrontLimits, Invariance, PTL

\* So nothing that is proved of the limiter is lost by what follows it.
COROLLARY FrontKeepsRates ==
    Spec => /\ BucketsSpec
            /\ []BurstIsBounded
            /\ []CollectedInTime
BY FrontLimits, LimiterImplementsBuckets, RateIsKept, BucketsAreCollected
=============================================================================
