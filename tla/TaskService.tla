----------------------------- MODULE TaskService -----------------------------
(***************************************************************************)
(* internal/services/task_service.go over internal/adapters/repositories   *)
(* and the TaskCache: HTTP handler goroutines (Clients) run Create, Get,   *)
(* Update and Delete concurrently against one PostgreSQL table (db) and    *)
(* one in-memory cache.  Every call to the repository is one SQL statement *)
(* and so one atomic step on db, except that an INSERT draws its id before *)
(* it commits; every call to the cache is one atomic step on the entry of  *)
(* one id (module Cache models its inside).  Between two such steps any    *)
(* other goroutine may run.                                                *)
(*                                                                         *)
(* A repository call can fail: it runs under a 5 s timeout and under the   *)
(* request's context.  Either the statement never took effect, or the      *)
(* service gave up on a statement that the database still holds.  Such a   *)
(* statement is an orphan: it commits later, or is lost.                   *)
(***************************************************************************)
EXTENDS Task, Naturals, FiniteSets

CONSTANTS
    Clients,      \* handler goroutines
    MaxId,        \* bound: number of rows the id sequence may hand out
    MaxOrphans,   \* bound: statements given up on and still in the database
    FillLimit,    \* defaultListLimit of the repository: rows read by fill
    NoTask,       \* no row / no cache entry
    Nil           \* a field that a PATCH body does not mention

Ids == 1..MaxId

ASSUME ServiceAssumption ==
    /\ MaxId \in Nat
    /\ MaxOrphans \in Nat
    /\ FillLimit \in Nat
    /\ NoTask \notin Tasks
    /\ Nil \notin Names
    /\ Nil \notin TaskStatus

VARIABLES
    db,        \* the tasks table
    nextId,    \* its BIGSERIAL sequence
    orphans,   \* statements reported as failed that may still commit
    cache,     \* the entries of TaskCache
    up,        \* the process runs and serves requests
    req,       \* per goroutine: the request it is working on
    suspect    \* history: ids written behind a pending cache.Store or, by an
               \* orphan, behind a cached entry

vars == <<db, nextId, orphans, cache, up, req, suspect>>
dbVars == <<db, nextId, orphans>>
-----------------------------------------------------------------------------
MaybeTask == Tasks \cup {NoTask}

(***************************************************************************)
(* A request: the call it makes next (pc), the id, the task the code holds *)
(* in its local variable, the HTTP status it will answer, and (history)    *)
(* base, the row as repository.Get returned it.                            *)
(***************************************************************************)
PC == {"idle", "repositoryStore", "repositoryGet", "repositoryUpdate",
       "cacheStore", "cacheDelete", "respond"}
Codes == {0, 200, 204, 400, 404, 500}
Requests == [pc : PC, id : 0..MaxId, task : MaybeTask, base : MaybeTask,
             code : Codes]
Idle == [pc |-> "idle", id |-> 0, task |-> NoTask, base |-> NoTask, code |-> 0]

\* An INSERT, UPDATE or (task = NoTask) DELETE that the service gave up on.
Orphans == [id : Ids, task : MaybeTask, base : MaybeTask, insert : BOOLEAN]

TypeOK ==
    /\ db \in [Ids -> MaybeTask]
    /\ nextId \in 1..(MaxId + 1)
    /\ orphans \subseteq Orphans
    /\ cache \in [Ids -> MaybeTask]
    /\ up \in BOOLEAN
    /\ req \in [Clients -> Requests]
    /\ suspect \subseteq Ids

Rows == {i \in Ids : db[i] # NoTask}

At(c, pc, id) == req[c].pc = pc /\ req[c].id = id

\* Goroutines whose statement on row id is done and whose cache call is not.
Storing(id) == {c \in Clients : At(c, "cacheStore", id)}
Busy(id) == Storing(id) \cup {c \in Clients : At(c, "cacheDelete", id)}

\* The ids that INSERTs have drawn and not committed: of running requests, and
\* of statements that the service gave up on.
Inserting == {c \in Clients : req[c].pc = "repositoryStore"}
Held == {req[c].id : c \in Inserting}
            \cup {o.id : o \in {s \in orphans : s.insert}}

Init ==
    /\ db = [i \in Ids |-> NoTask]
    /\ nextId = 1
    /\ orphans = {}
    /\ cache = [i \in Ids |-> NoTask]
    /\ up = FALSE
    /\ req = [c \in Clients |-> Idle]
    /\ suspect = {}
-----------------------------------------------------------------------------
Accepts(c) == up /\ req[c].pc = "idle"

Goto(c, pc, id, task, base, code) ==
    req' = [req EXCEPT ![c] = [pc |-> pc, id |-> id, task |-> task,
                               base |-> base, code |-> code]]

Answer(c, id, code) == Goto(c, "respond", id, NoTask, NoTask, code)

(***************************************************************************)
(* The history variable.  A row is written: its entry can be trusted once  *)
(* the writer's own cache call is done, unless some goroutine still has an *)
(* older task to store.  A row is found missing, or its entry is evicted:  *)
(* the same, but nothing new becomes doubtful.                             *)
(***************************************************************************)
Written(id) ==
    suspect' = IF Storing(id) = {} THEN suspect \ {id} ELSE suspect \cup {id}

Cleared(id) ==
    suspect' = IF Storing(id) = {} THEN suspect \ {id} ELSE suspect

\* The service gives up on a statement: it never ran, or the database has it.
GivesUpOn(statement) ==
    \/ UNCHANGED orphans
    \/ /\ Cardinality(orphans) < MaxOrphans
       /\ orphans' = orphans \cup {statement}
-----------------------------------------------------------------------------
\* The path or the body does not parse or validate: the service is not called.
Reject(c) ==
    /\ Accepts(c)
    /\ Answer(c, 0, 400)
    /\ UNCHANGED <<dbVars, cache, up, suspect>>

(***************************************************************************)
(* Create: repository.Store, then cache.Store.                             *)
(***************************************************************************)
\* The INSERT draws its id, or does not get as far as that.
CreateDraw(c, name) ==
    /\ Accepts(c)
    /\ \/ /\ nextId <= MaxId
          /\ nextId' = nextId + 1
          /\ Goto(c, "repositoryStore", nextId, NewTask(name), NoTask, 0)
       \/ /\ nextId' = nextId
          /\ Answer(c, 0, 500)
    /\ UNCHANGED <<db, orphans, cache, up, suspect>>

\* It commits.
CreateStore(c) ==
    LET r == req[c] IN
    /\ r.pc = "repositoryStore"
    /\ db' = [db EXCEPT ![r.id] = r.task]
    /\ Goto(c, "cacheStore", r.id, r.task, NoTask, 200)
    /\ Written(r.id)
    /\ UNCHANGED <<nextId, orphans, cache, up>>

CreateFails(c) ==
    LET r == req[c] IN
    /\ r.pc = "repositoryStore"
    /\ GivesUpOn([id |-> r.id, task |-> r.task, base |-> NoTask,
                  insert |-> TRUE])
    /\ Answer(c, 0, 500)
    /\ UNCHANGED <<db, nextId, cache, up, suspect>>

(***************************************************************************)
(* Get: the cache first, the repository on a miss.  A miss does not fill   *)
(* the cache.                                                              *)
(***************************************************************************)
GetLookup(c, id) ==
    /\ Accepts(c)
    /\ IF cache[id] # NoTask
         THEN Answer(c, id, 200)
         ELSE Goto(c, "repositoryGet", id, NoTask, NoTask, 0)
    /\ UNCHANGED <<dbVars, cache, up, suspect>>

GetRepository(c) ==
    LET id == req[c].id IN
    /\ req[c].pc = "repositoryGet"
    /\ \/ Answer(c, id, IF db[id] # NoTask THEN 200 ELSE 404)
       \/ Answer(c, id, 500)
    /\ UNCHANGED <<dbVars, cache, up, suspect>>

(***************************************************************************)
(* Update: repository.Get, merge the fields the body mentions, check the   *)
(* transition, repository.Update of the whole row, cache.Store.            *)
(***************************************************************************)
Params == [name : Names \cup {Nil}, status : TaskStatus \cup {Nil}]

\* MUTANT: fields that the body does not mention are overwritten too.
MergeAll(task, p) == [name |-> p.name, status |-> p.status]

Merge(task, p) == [name   |-> IF p.name = Nil THEN task.name ELSE p.name,
                   status |-> IF p.status = Nil THEN task.status ELSE p.status]

Permitted(task, p) == p.status # Nil => CanTransitionTo(task.status, p.status)

UpdateLoad(c, id, p) ==
    LET row == db[id] IN
    /\ Accepts(c)
    /\ \/ row = NoTask /\ Answer(c, id, 404)
       \/ row # NoTask /\ ~Permitted(row, p) /\ Answer(c, id, 400)
       \/ /\ row # NoTask /\ Permitted(row, p)
          /\ Goto(c, "repositoryUpdate", id, Merge(row, p), row, 0)
       \/ Answer(c, id, 500)
    /\ UNCHANGED <<dbVars, cache, up, suspect>>

\* MUTANT: the statement is an upsert.
UpdateWriteUpserts(c) ==
    LET r == req[c] IN
    /\ r.pc = "repositoryUpdate"
    /\ db' = [db EXCEPT ![r.id] = r.task]
    /\ Goto(c, "cacheStore", r.id, r.task, NoTask, 200)
    /\ Written(r.id)
    /\ UNCHANGED <<nextId, orphans, cache, up>>

UpdateWrite(c) ==
    LET r == req[c] IN
    /\ r.pc = "repositoryUpdate"
    /\ db[r.id] # NoTask
    /\ db' = [db EXCEPT ![r.id] = r.task]
    /\ Goto(c, "cacheStore", r.id, r.task, NoTask, 200)
    /\ Written(r.id)
    /\ UNCHANGED <<nextId, orphans, cache, up>>

\* No row was affected: someone deleted it since repository.Get.
UpdateMissing(c) ==
    LET r == req[c] IN
    /\ r.pc = "repositoryUpdate"
    /\ db[r.id] = NoTask
    /\ Goto(c, "cacheDelete", r.id, NoTask, NoTask, 404)
    /\ Cleared(r.id)
    /\ UNCHANGED <<dbVars, cache, up>>

UpdateFails(c) ==
    LET r == req[c] IN
    /\ r.pc = "repositoryUpdate"
    /\ GivesUpOn([id |-> r.id, task |-> r.task, base |-> r.base,
                  insert |-> FALSE])
    /\ Answer(c, r.id, 500)
    /\ UNCHANGED <<db, nextId, cache, up, suspect>>

(***************************************************************************)
(* Delete: repository.Delete, then cache.Delete, also when there was no    *)
(* such row.                                                               *)
(***************************************************************************)
\* MUTANT: the entry of a deleted row stays in the cache.
DeleteRowKeepsEntry(c, id) ==
    /\ Accepts(c)
    /\ db[id] # NoTask
    /\ db' = [db EXCEPT ![id] = NoTask]
    /\ Answer(c, id, 204)
    /\ Written(id)
    /\ UNCHANGED <<nextId, orphans, cache, up>>

DeleteRow(c, id) ==
    /\ Accepts(c)
    /\ db[id] # NoTask
    /\ db' = [db EXCEPT ![id] = NoTask]
    /\ Goto(c, "cacheDelete", id, NoTask, NoTask, 204)
    /\ Written(id)
    /\ UNCHANGED <<nextId, orphans, cache, up>>

\* MUTANT: the number of affected rows is not looked at.
DeleteMissingSucceeds(c, id) ==
    /\ Accepts(c)
    /\ db[id] = NoTask
    /\ Goto(c, "cacheDelete", id, NoTask, NoTask, 204)
    /\ Cleared(id)
    /\ UNCHANGED <<dbVars, cache, up>>

DeleteMissing(c, id) ==
    /\ Accepts(c)
    /\ db[id] = NoTask
    /\ Goto(c, "cacheDelete", id, NoTask, NoTask, 404)
    /\ Cleared(id)
    /\ UNCHANGED <<dbVars, cache, up>>

DeleteFails(c, id) ==
    /\ Accepts(c)
    /\ GivesUpOn([id |-> id, task |-> NoTask, base |-> NoTask,
                  insert |-> FALSE])
    /\ Answer(c, id, 500)
    /\ UNCHANGED <<db, nextId, cache, up, suspect>>

(***************************************************************************)
(* The cache calls that end Create, Update and Delete, and the answer.     *)
(***************************************************************************)
\* MUTANT: Store only inserts, it does not replace an entry.
CacheStoreInserts(c) ==
    LET r == req[c] IN
    /\ r.pc = "cacheStore"
    /\ cache' = [cache EXCEPT ![r.id] = IF @ = NoTask THEN r.task ELSE @]
    /\ Answer(c, r.id, r.code)
    /\ UNCHANGED <<dbVars, up, suspect>>

CacheStore(c) ==
    LET r == req[c] IN
    /\ r.pc = "cacheStore"
    /\ cache' = [cache EXCEPT ![r.id] = r.task]
    /\ Answer(c, r.id, r.code)
    /\ UNCHANGED <<dbVars, up, suspect>>

CacheDelete(c) ==
    LET r == req[c] IN
    /\ r.pc = "cacheDelete"
    /\ cache' = [cache EXCEPT ![r.id] = NoTask]
    /\ Answer(c, r.id, r.code)
    /\ UNCHANGED <<dbVars, up, suspect>>

Respond(c) ==
    /\ req[c].pc = "respond"
    /\ req' = [req EXCEPT ![c] = Idle]
    /\ UNCHANGED <<dbVars, cache, up, suspect>>
-----------------------------------------------------------------------------
(***************************************************************************)
(* Everything that is not a request.                                       *)
(***************************************************************************)
\* Cleanup may drop any entry (which ones is the business of module Cache).
Evict(id) ==
    /\ up
    /\ cache[id] # NoTask
    /\ cache' = [cache EXCEPT ![id] = NoTask]
    /\ Cleared(id)
    /\ UNCHANGED <<dbVars, up, req>>

\* What statement o does to its row when it commits.
Outcome(o) == IF o.insert \/ db[o.id] # NoTask THEN o.task ELSE NoTask

OrphanCommit(o) ==
    /\ db' = [db EXCEPT ![o.id] = Outcome(o)]
    /\ orphans' = orphans \ {o}
    /\ suspect' = IF \/ Outcome(o) = db[o.id]
                     \/ cache[o.id] = NoTask /\ Storing(o.id) = {}
                    THEN suspect
                    ELSE suspect \cup {o.id}
    /\ UNCHANGED <<nextId, cache, up, req>>

OrphanLost(o) ==
    /\ orphans' = orphans \ {o}
    /\ UNCHANGED <<db, nextId, cache, up, req, suspect>>

\* The process ends, by a signal, a failed job or a crash: its memory is gone.
Crash ==
    /\ up
    /\ up' = FALSE
    /\ cache' = [i \in Ids |-> NoTask]
    /\ req' = [c \in Clients |-> Idle]
    /\ suspect' = {}
    /\ UNCHANGED dbVars

\* NewTaskCache fills the cache with the newest k rows: at most the default
\* limit of the repository, fewer if the memory budget is used up first.
Start ==
    /\ ~up
    /\ up' = TRUE
    /\ \E k \in 0..FillLimit :
         cache' = [i \in Ids |->
                      IF Cardinality({j \in Rows : j >= i}) <= k
                        THEN db[i] ELSE NoTask]
    /\ UNCHANGED <<dbVars, req, suspect>>
-----------------------------------------------------------------------------
\* What a goroutine does of its own, once it has a request.
Proceed(c) ==
    \/ CreateStore(c) \/ CreateFails(c)
    \/ GetRepository(c)
    \/ UpdateWrite(c) \/ UpdateMissing(c) \/ UpdateFails(c)
    \/ CacheStore(c) \/ CacheDelete(c)
    \/ Respond(c)

\* What an arriving request makes it do first.
Arrive(c) ==
    \/ Reject(c)
    \/ \E name \in Names : CreateDraw(c, name)
    \/ \E id \in Ids : \/ GetLookup(c, id)
                       \/ DeleteRow(c, id)
                       \/ DeleteMissing(c, id)
                       \/ DeleteFails(c, id)
                       \/ \E p \in Params : UpdateLoad(c, id, p)

Next ==
    \/ \E c \in Clients : Arrive(c) \/ Proceed(c)
    \/ \E id \in Ids : Evict(id)
    \/ \E o \in orphans : OrphanCommit(o) \/ OrphanLost(o)
    \/ Crash
    \/ Start

Spec == Init /\ [][Next]_vars

(***************************************************************************)
(* A goroutine that has a request runs on: the Go scheduler is fair, every *)
(* statement returns within its 5 s timeout, and no lock is held across    *)
(* calls.  Clients need not send requests, the memory monitor need not     *)
(* evict, orphans need not commit and the process need not stop.           *)
(***************************************************************************)
FairSpec == Spec /\ \A c \in Clients : WF_vars(Proceed(c))
-----------------------------------------------------------------------------
Table == INSTANCE TaskTable WITH
             Values <- Tasks,
             Fresh <- {NewTask(name) : name \in Names},
             held <- Held
-----------------------------------------------------------------------------
(***************************************************************************)
(* Properties                                                              *)
(***************************************************************************)
\* The service keeps the table's promise, with every request, timeout, late
\* commit, crash and restart: ids are used once, a row begins NEW, only rows
\* that exist are rewritten, and what was removed stays removed.
\* (INSERT ... RETURNING id, UPDATE and DELETE ... WHERE id of the repository)
TableSpec == Table!TableSpec

\* Once no goroutine is between its statement and its cache call for a row,
\* a cached entry is the row, except for rows that were written behind the
\* back of a pending cache.Store or by a statement the service had given up
\* on.  (write-through order of task_service.go Create, Update, Delete)
Coherent ==
    \A id \in Ids \ suspect :
        Busy(id) = {} => cache[id] \in {NoTask, db[id]}

\* Whoever is told 204 deleted the row, and a row is deleted once: two
\* concurrent Deletes of a task cannot both be answered 204, whatever else
\* runs in between.  (affected == 0 in TaskRepository.Delete)
OneDeleterWins ==
    \A c1, c2 \in Clients :
        req[c1].code = 204 /\ req[c2].code = 204 /\ req[c1].id = req[c2].id
            => c1 = c2

\* A row that is gone stays gone: an Update that read the row before it was
\* deleted, or a late UPDATE, does not bring it back.  Only an INSERT that has
\* drawn its id and not committed fills a row below the sequence.
\* (affected == 0 in TaskRepository.Update, DELETE is final: README.md:182)
DeletedRowStaysDeleted ==
    [][\A id \in Ids :
          /\ id < nextId
          /\ db[id] = NoTask
          /\ id \notin Held
          => db'[id] = NoTask]_vars

\* Statuses of a row move as the lifecycle says, except that a writer whose
\* repository.Get is out of date may take any step: a lost update is the only
\* way around CanTransitionTo.  (task_service.go Update)
LifecycleGuarded ==
    [][\A id \in Ids :
          db[id] # NoTask /\ db'[id] # NoTask =>
             \/ LegalMove(db[id].status, db'[id].status)
             \/ \E c \in Clients : /\ At(c, "repositoryUpdate", id)
                                   /\ req'[c] # req[c]
                                   /\ req[c].base # db[id]
             \/ \E o \in orphans \ orphans' : o.id = id /\ o.base # db[id]
      ]_vars

\* A client that keeps getting a stale entry for a clean row will not forever:
\* the goroutine that wrote the row reaches its cache call.
\* (cache.Store / cache.Delete at the end of Update and Delete)
Stale(id) == cache[id] \notin {NoTask, db[id]}
StaleHeals ==
    \A id \in Ids : Stale(id) /\ id \notin suspect
                        ~> ~Stale(id) \/ id \in suspect

\* domain/task.go:62: COMPLETE and CANCEL are terminal, nothing leaves them.
TerminalIsFinal ==
    [][\A id \in Ids :
          /\ db[id] # NoTask /\ db'[id] # NoTask
          /\ db[id].status \in Terminal
          => db'[id].status = db[id].status]_vars

\* tests/integration/tasks_test.go:296: after a DELETE, a GET must be 404.
\* Once every call on a deleted task has returned, the cache has no entry.
DeletedIsNotServed ==
    \A id \in Ids :
        /\ id < nextId
        /\ db[id] = NoTask
        /\ Busy(id) = {}
        => cache[id] = NoTask
=============================================================================
