------------------------------ MODULE Listing ------------------------------
(***************************************************************************)
(* GET /tasks?limit=N&offset=M, from internal/server/task.go through       *)
(* TaskService.List to Count and List of the repository, and a client that *)
(* reads the whole list with it: page after page, each offset the last one *)
(* plus the limit, until the offset reaches the total of the last answer.  *)
(* Every page is two statements, Count and List, each of which may fail;   *)
(* any other client may write the table between any two of them.  The      *)
(* cache is not involved.                                                  *)
(***************************************************************************)
EXTENDS TaskTable, FiniteSets

CONSTANTS
    DefaultLimit,   \* limit when the query has none (50)
    MaxLimit,       \* largest limit that validates (500)
    ListLimit,      \* defaultListLimit of the repository (1000)
    MaxBigint,      \* largest offset the database understands (2^63 - 1)
    Absent,         \* a query parameter that is not there
    NotANumber      \* one that does not parse as a uint64

ASSUME ListingAssumption ==
    /\ {DefaultLimit, MaxLimit, ListLimit, MaxBigint} \subseteq Nat \ {0}
    /\ DefaultLimit <= MaxLimit
    /\ MaxId + MaxLimit <= MaxBigint

Offsets == 0..(MaxBigint + 1)
Numbers == Offsets \cup 0..(MaxLimit + 1)

VARIABLES
    step,       \* what happens next to the page being read
    limit,      \* ListTasksQuery.Limit
    offset,     \* ListTasksQuery.Offset
    total,      \* what Count returned
    page,       \* ids of the rows that List returned
    start,      \* history: the rows at the beginning of the walk
    seen,       \* history: ids listed so far, or before the first offset
    twice,      \* history: ids listed by two pages
    touched,    \* history: rows came or went since the last Count
    removed,    \* history: a row of seen has been removed
    shifted     \* history: a row appeared below another one

walkVars == <<step, limit, offset, total, page>>
seenVars == <<start, seen, twice>>
vars == <<tableVars, walkVars, seenVars, touched, removed, shifted>>
-----------------------------------------------------------------------------
TypeOK ==
    /\ TableTypeOK
    /\ step \in {"idle", "count", "list", "page", "refused", "failed", "done"}
    /\ limit \in 1..MaxLimit
    /\ offset \in Offsets
    /\ total \in 0..MaxId
    /\ page \subseteq Ids /\ start \subseteq Ids
    /\ seen \subseteq Ids /\ twice \subseteq seen
    /\ touched \in BOOLEAN /\ removed \in BOOLEAN /\ shifted \in BOOLEAN

Init ==
    /\ TableInit
    /\ step = "idle" /\ limit = DefaultLimit /\ offset = 0
    /\ total = 0 /\ page = {}
    /\ start = {} /\ seen = {} /\ twice = {}
    /\ touched = FALSE /\ removed = FALSE /\ shifted = FALSE
-----------------------------------------------------------------------------
Parses(raw) == raw # NotANumber

ParsedOr(raw, default) == IF raw = Absent THEN default ELSE raw

\* MUTANT: the validation has no min.
ValidLimitNoMin(l) == l <= MaxLimit

\* validate:"min=1,max=500"; an offset is valid if it parses.
ValidLimit(l) == 1 <= l /\ l <= MaxLimit

(***************************************************************************)
(* buildListQuery: a limit of zero is the default of the repository.  The  *)
(* statement orders by id, drops the first `from` rows and keeps the next. *)
(***************************************************************************)
Rank(i) == Cardinality({j \in Rows : j <= i})

\* MUTANT: newest first, as fill reads them.
SelectDesc(l, from) ==
    LET n == IF l > 0 THEN l ELSE ListLimit
        Place(i) == Cardinality({j \in Rows : j >= i})
    IN  {i \in Rows : from < Place(i) /\ Place(i) <= from + n}

\* MUTANT: the offset counts from one.
SelectFromNext(l, from) ==
    LET n == IF l > 0 THEN l ELSE ListLimit
    IN  {i \in Rows : from + 1 < Rank(i) /\ Rank(i) <= from + 1 + n}

Select(l, from) ==
    LET n == IF l > 0 THEN l ELSE ListLimit
    IN  {i \in Rows : from < Rank(i) /\ Rank(i) <= from + n}
-----------------------------------------------------------------------------
(***************************************************************************)
(* One page: ListTasks, TaskService.List.                                  *)
(***************************************************************************)
\* The first request of a walk, with whatever parameters the client likes.
Ask(rawLimit, rawOffset) ==
    /\ step = "idle"
    /\ IF /\ Parses(rawLimit) /\ Parses(rawOffset)
          /\ ValidLimit(ParsedOr(rawLimit, DefaultLimit))
         THEN /\ step' = "count"
              /\ limit' = ParsedOr(rawLimit, DefaultLimit)
              /\ offset' = ParsedOr(rawOffset, 0)
              /\ seen' = {i \in Rows : Rank(i) <= offset'}
         ELSE step' = "refused" /\ UNCHANGED <<limit, offset, seen>>
    /\ start' = Rows
    /\ removed' = FALSE /\ shifted' = FALSE
    /\ UNCHANGED <<tableVars, total, page, twice, touched>>

\* MUTANT: only the rows from the offset on are counted.
CountFromOffset ==
    /\ step = "count"
    /\ step' = "list"
    /\ total' = Cardinality(Select(MaxId, offset))
    /\ touched' = FALSE
    /\ UNCHANGED <<tableVars, limit, offset, page, seenVars, removed, shifted>>

Count ==
    /\ step = "count"
    /\ step' = "list"
    /\ total' = Cardinality(Rows)
    /\ touched' = FALSE
    /\ UNCHANGED <<tableVars, limit, offset, page, seenVars, removed, shifted>>

List ==
    /\ step = "list"
    /\ offset <= MaxBigint
    /\ step' = "page"
    /\ page' = Select(limit, offset)
    /\ seen' = seen \cup page'
    /\ twice' = twice \cup (seen \cap page')
    /\ UNCHANGED <<tableVars, limit, offset, total, start, touched, removed,
                   shifted>>

\* Either statement fails, List always on an offset that is no bigint: 500.
StatementFails ==
    /\ step \in {"count", "list"}
    /\ step' = "failed"
    /\ UNCHANGED <<tableVars, limit, offset, total, page, seenVars, touched,
                   removed, shifted>>
-----------------------------------------------------------------------------
(***************************************************************************)
(* The client: on to the next page, again after a 500, once more from the  *)
(* start.                                                                  *)
(***************************************************************************)
NextPage ==
    /\ step = "page"
    /\ IF offset + limit < total
         THEN step' = "count" /\ offset' = offset + limit
         ELSE step' = "done" /\ UNCHANGED offset
    /\ UNCHANGED <<tableVars, limit, total, page, seenVars, touched, removed,
                   shifted>>

Retry ==
    /\ step = "failed"
    /\ step' = "count"
    /\ UNCHANGED <<tableVars, limit, offset, total, page, seenVars, touched,
                   removed, shifted>>

Restart ==
    /\ step \in {"refused", "failed", "done"}
    /\ step' = "idle" /\ limit' = DefaultLimit /\ offset' = 0
    /\ total' = 0 /\ page' = {}
    /\ start' = {} /\ seen' = {} /\ twice' = {}
    /\ touched' = FALSE /\ removed' = FALSE /\ shifted' = FALSE
    /\ UNCHANGED tableVars
-----------------------------------------------------------------------------
\* Other clients write the table.
Others ==
    /\ TableNext
    /\ touched' = (touched \/ Rows' # Rows)
    /\ removed' = (removed \/ \E i \in seen : i \in Rows /\ i \notin Rows')
    /\ shifted' = (shifted \/ \E i \in Rows' \ Rows, j \in Rows : i < j)
    /\ UNCHANGED <<walkVars, seenVars>>

Raw == Numbers \cup {Absent, NotANumber}

Next ==
    \/ \E l \in Raw, o \in Raw : Ask(l, o)
    \/ Count \/ List \/ StatementFails
    \/ NextPage \/ Retry \/ Restart
    \/ Others

Spec == Init /\ [][Next]_vars
-----------------------------------------------------------------------------
(***************************************************************************)
(* Properties                                                              *)
(***************************************************************************)
\* Pages do not overlap, whatever is created, changed and deleted between
\* them, unless an INSERT commits after one with a larger id: the order by
\* ascending id puts new rows behind every page that was read.
\* (SortAsc in TaskService.List; tests/integration/tasks_test.go:179)
NothingTwice == ~shifted => twice = {}

\* A client that follows the pages to the total has seen every row that was
\* there when it began and still is, unless a row it had left behind was
\* removed (all later rows move up) or a row appeared in between: rows that
\* are created, or removed ahead of the walk, do not make it miss another.
\* (LIMIT/OFFSET of buildListQuery, total of TaskService.List)
NothingSkipped ==
    step = "done" /\ ~removed /\ ~shifted
        => {i \in start : i \in Rows} \subseteq seen

\* If no row came or went between the two statements, the page holds exactly
\* what the total, the limit and the offset of the same answer say.
\* (Count and List in TaskService.List, ListTasksResponse)
TotalMatchesPage ==
    step = "page" /\ ~touched =>
        Cardinality(page) =
            IF total <= offset THEN 0
            ELSE IF total - offset < limit THEN total - offset ELSE limit
=============================================================================
