# TLA+ verification of task-service-go

task-service-go is a small REST service: tasks live in one PostgreSQL table,
an in-memory cache sits in front of it, and a background registrar runs the
HTTP server, the log writer and the cache's memory monitor.  What is hard about
the program is that many request goroutines, the memory monitor, the log
writer, the rate limiter's collector and the shutdown sequence share state with
few locks, and that the database answers late or not at all.  This directory models
those parts in TLA+, checks them with TLC on small instances and proves the
main safety properties with TLAPS for instances of any size.

## Inventory

| Component | State | Operations | Talks to |
|---|---|---|---|
| task entity (`internal/domain`) | none | `NewTask`, `IsValid`, `CanTransitionTo` | |
| task service (`internal/services/task_service.go`) | none of its own | `Create`, `Get`, `Update`, `Delete`, `List` | repository, cache, async logger |
| task repository (`internal/adapters/repositories`) | table `tasks`, its id sequence | one SQL statement per call, each under a 5 s timeout and the request's context | PostgreSQL |
| task cache (`internal/services/task_cache.go`) | the generic cache | `fill` at the start, `Store`, `Get`, `Delete`, `Run` | repository (only `fill`), generic cache |
| generic cache (`pkg/cache`) | a `sync.Map`, the atomics `len` and `firstKey`, `snapshotMu` | `Store`, `Get`, `Delete`, `List`, `Cleanup`, `Run` | |
| HTTP API (`internal/server`, `pkg/http/protocol`) | per request | parse, validate, call the service, map its error to a status | task service |
| registrar (`pkg/background`) | jobs, stop handlers, a result channel | `Run`, `Stop` | everything long-lived |
| async logger (`pkg/logging`) | an unbuffered channel, a cancellable context | `AsyncX` (send), `Process` (receive), `Stop` | |
| wiring (`internal/root`, `cmd`) | the process context | `New` (configuration, logger, database, `fill`), `Run`, exit status | registrar, PostgreSQL |
| rate limiter (`pkg/http/middleware/ratelimit.go`) | a map of buckets per address | `get` and `Allow` per request, `gc` per TTL | `golang.org/x/time/rate` |
| body limit, router (`pkg/http`), `ServeMux` | none; a table of routes | one decision per request | handlers |
| server options, log formatting, generated docs | none | pure I/O | |

What is hard, and the property that answers it:

- *Several writers of one task.*  `Update` reads a row, checks the transition,
  and later overwrites the whole row; nothing ties the two together.
  `LifecycleGuarded` says exactly what survives, `TerminalIsFinal` what does
  not, and `LifecycleWhenApart` (proved) what keeping requests apart would buy.
- *Two stores, no transaction.*  Each request writes the table and then the
  cache; another request may run completely between the two.  `Coherent` says
  when the cache can be trusted, `DeletedIsNotServed` exhibits when it cannot,
  `StaleHeals` that an ordinary lag ends.
- *Timeouts.*  A statement reported as failed may commit later: all properties
  of the service are checked with such statements around.
- *Crash and restart.*  The process may stop between any two calls and fills a
  part of the cache when it starts again (`Coherent`).
- *Deletes.*  A deleted row stays deleted (`DeletedRowStaysDeleted`) and one of
  several concurrent Deletes wins (`OneDeleterWins`).  `TableSpec` says it from
  the outside: to whoever looks, the table obeys a small abstract machine.
- *Reading a list page by page.*  Each page is two statements and the next page
  another request, while rows come and go (`NothingTwice`, `NothingSkipped`,
  `TotalMatchesPage`).
- *A half-locked data structure.*  `Store` takes no lock while `Delete`,
  `Cleanup` and `List` do (`LenNeverOvercounts`, `RangeSafe`,
  `CleanupKeepsMost`, `ExactAtRest`, and two documented claims that fail).
  `OnlyLostOverwritesDrift` names the one step that spoils the counter for good.
  `MapSpec` says what callers may rely on in spite of it.
- *Buckets that are created and thrown away under the requests that use them.*
  `BucketsSpec` says that nobody can tell, `BurstIsBounded` that no address
  gains by it, `CollectedInTime` that they do go.
- *Paths.*  Static patterns, patterns with a parameter and the mux each treat
  slashes differently (`RoutesAsDocumented`, `IdIsNeverEmpty`); a body that is
  cut off must be told from bad JSON (`OversizeIs413`, refuted).
- *Start and shutdown.*  A signal may come at any stage, and everything is
  stopped in parallel although handlers depend on the log writer
  (`SignalEndsProcess`, `LogEntriesAreTaken`, `CleanExitNeedsSignal`,
  `NoRequestCutOff`, `EveryComponentStops`).

`PROJECT.json` lists every hazard with its line, including those no property
covers yet.

## Modules and how they correspond to the code

`Task` is `internal/domain/task.go`.  A task is a name and a status: `Body` is
handled exactly like `Name` everywhere and the timestamps are never read back
by the service.  `CanTransitionTo` is the code's case analysis; `LegalMove` is
the README's description of the lifecycle, used in properties only.

`TaskService` (extends `Task`) is the service over repository and cache.  `db`,
`nextId` are the table and its `BIGSERIAL`; `cache` the entries; `req[c]` what
handler goroutine `c` is doing: the call it makes next, the task in its local
variable and the HTTP status it is going to answer.  A client is one goroutine
serving one request at a time, any number of times.  Each repository call is
one statement and one step, except that an INSERT draws its id from the sequence
first and commits later, with anything in between; each cache call is one step
on the entry of one id.

| Action | Code |
|---|---|
| `Reject` | path id or body refused before the service is called |
| `CreateDraw`, `CreateStore`, `CreateFails`, `CacheStore` | `Create` |
| `GetLookup`, `GetRepository` | `Get` |
| `UpdateLoad`, `UpdateWrite`, `UpdateMissing`, `UpdateFails`, `CacheStore`, `CacheDelete` | `Update` |
| `DeleteRow`, `DeleteMissing`, `DeleteFails`, `CacheDelete` | `Delete` |
| `Respond` | the handler writes its answer |
| `Evict` | an entry dropped by `Cleanup` |
| `OrphanCommit`, `OrphanLost` | the database ends a statement the service had given up on (external) |
| `Crash`, `Start` | the process ends; it starts and `fill`s the cache |

A call that fails is either a statement that never took effect or one that
stays in `orphans`.  A process that dies while a statement is running is
`UpdateFails` (or its siblings) followed by `Crash`.  Unknown statuses never
reach the service: the validator of `UpdateTaskRequest` refuses them
(`Reject`), so `ErrUnknownStatus` is dead code behind the HTTP API.

Two variables are history and never read by an action's guard: `base`, the row
as `Update` read it, and `suspect`, the rows that were written while some
goroutine still had an older task to store, or by an orphan behind a cached
entry.  `suspect` is what makes it possible to say precisely when the cache is
right.  A row leaves it when its entry is rewritten, dropped or found missing
with nobody's `cache.Store` pending.

`TaskTable` is the abstract table: `Draw`, `Land`, `Lose`, `Write`, `Remove`.  An
INSERT draws its id from the `BIGSERIAL` before it commits, so ids may appear
out of order.  `TaskService!Table` instantiates it with `Held`, the ids of
INSERTs that run or are among the orphans; a crash loses all that run at once.
All requests, crashes and restarts together implement it (`TableSpec`).

`Listing` (extends `TaskTable`) is `GET /tasks`: `Ask` parses and validates the
query (`parseListQuery`), `Count` and `List` are the two statements of
`TaskService.List`, `Select` is the statement that `buildListQuery` builds, and
`Others` is anything the abstract table may do in between; because of
`TableSpec` this covers everything `TaskService` does.  `NextPage`, `Retry` and
`Restart` are a client that follows the total.  `seen`, `start`, `twice`,
`touched`, `removed` and `shifted` are history.

`Cache` opens up the cache calls: every access to the map, to `len` and to
`firstKey` is a step.  `Delete` and `Cleanup` hold `snapshotMu` exclusively,
`List` shared, `Store` not at all; the lock is not a variable but follows from
where the goroutines are (`Writers`, `Readers`).  `sync.Map.Range` is not a
snapshot, so it is two steps: the keys present when it starts must be visited,
keys added until it ends may be (`Visited`).  `Init` is any state `fill` can
leave.  `Get`, `Len` and `FirstKey` are single reads and change nothing;
`SetFirstKey` is called by `fill` only.

`AtomicMap` is what `TaskService` takes for granted when it makes a cache call
one step: each call changes its own key exactly once between its beginning and
its end, and entries disappear otherwise only during a `Cleanup`.
`Cache!Map` instantiates it with `phase` and `call` computed from where a
goroutine is (`Phase`, `Call`).

`Background` has the actions of `pkg/background/registrar.go`, for any jobs and
handlers.  `Lifecycle` extends it with the stages of `root.New` (`LoadConfig`,
`NewLogger`, `OpenDatabase`, `FillCache`, each of which may fail in
`BootFails`) and with what this program registers: the log writer, the memory
monitor and the HTTP server as jobs; the logger's `Stop`, the database's `Close` and the server's `Shutdown` as stop
handlers; requests (`Conns`) that hand log entries to the log writer over the
unbuffered channel; signals; and the exit status.  `LogLevel` decides which
`AsyncX` calls send (`CheckLevel`); at every level below FATAL some do, so that
a handler may or may not log before it answers.

`RateLimit` is the rate limiter.  `Get` is the map access under the mutex and
`Allow` the later question to the limiter that was found; `Gc` is one sweep,
`Tick` lets time pass (limiters refill, entries age).  A sweep may end up to
`Lag` after its tick: the goroutine is scheduled late, or takes its cutoff and
then waits for the mutex (`age`).  Points in time are kept as the time since or
until them, so that the state space is finite.
`TokenBuckets` is the promise: one eternal bucket per address.  The refinement
holds only if a bucket that idled for `TTL` is full again and no goroutine
sleeps that long between `Get` and `Allow`, or the collector between its tick
and the end of its sweep, which `RateAssumption` states and the code leaves to
configuration (50 per second, 100 and ten minutes by
default).  `excess` is history: by how much the admitted requests of an address
exceed its rate, in the stretch of time up to now where they exceed it most.
It is counted per address and not per limiter, so that a bucket which is thrown
away too early would show.

`HttpFront` (extends `RateLimit`) is the rest of the way to a handler's service
call: `Dispatch` is the `ServeMux`, `ServeHTTP`, `MatchPattern` and `Trim` the
router, `Handle` the parsing of the id and the binding of the body behind
`MaxBytesReader`.  These are pure, so that a request's answer is drawn from
`Answers`, the set of everything that methods, paths and bodies lead to.  The
segments of `ROUTE_GROUP`, the words that segments of a path may be, which of
them are numbers, the methods and the length of paths are constants;
`RouteAssumption` asks that the group has no empty segment, no dots and no
parameter, and leaves CONNECT out, for which the mux does not clean paths.

The router matches the decoded path, while the mux cleans, and picks a subtree
by, the path as it was sent.  A request is therefore a decoded path and the set
of slashes in it that were escaped (`Targets`): `Unclean` and `InSwagger` look
at the others only, so that paths with empty segments and dots reach the router
behind an escaped slash.  Escaped dots are ordinary words to both.
`Promise` is what the repository's README says of a request; it is silent about
requests that the mux redirects or serves itself, and about slashes at the ends
of a path, which `matchPattern` trims for one task (`/tasks/7/` is served) and
not for the list (`/tasks/` is 404).

`MCTaskService`, `MCCache` and `MCHttpFront` add symmetry sets for TLC.
`TaskServiceProofs`, `CacheProofs`, `ListingProofs`, `LifecycleProofs`,
`RateLimitProofs` and `HttpFrontProofs` hold the theorems about the module they
are named after, `CacheSequentialProofs` those about `Cache` when calls do not
overlap.  Operators marked `MUTANT` are plausible
bugs; no specification uses them.  Each property has one that violates it.

## Runs

| Run | Instance | What it shows |
|---|---|---|
| `service` | 2 clients, 1 name, 1 row, 1 late statement, fairness | all properties of the service with timeouts, eviction, crash and restart; a stale entry of a row nobody raced for is repaired; the whole refines `TaskTable` |
| `cache_concurrent` | 3 goroutines, 3 keys, divisor 2 | counter, Range and Cleanup under every interleaving; the one step by which the counter falls behind; refinement of `AtomicMap` |
| `cache_sequential` | 1 goroutine, 7 keys, divisor 5 | exact bookkeeping without concurrency |
| `lifecycle` | 2 requests, fairness | start and end: exit status, no request cut off without a signal, termination after one, log entries taken |
| `listing` | 4 ids, pages of at most 2, offsets up to one beyond a bigint | what a client that pages through a changing list may rely on |
| `http_front` | 2 addresses, 2 goroutines, 1 token per tick, buckets of 2, TTL 3, sweeps up to 1 late | the limiter refines `TokenBuckets` and bounds bursts; all methods and all paths of up to 4 segments, with any of their slashes escaped, are routed as documented |

Runs that expect a violation; each refutes a sentence of the repository:

| Run | Sentence | What TLC finds |
|---|---|---|
| `service_terminal` | `domain/task.go:62`, `README.md:176`: COMPLETE and CANCEL are terminal | a PATCH that read the task earlier writes its old status over COMPLETE |
| `service_deleted_served` | `tests/integration/tasks_test.go:296`: after DELETE, GET must be 404 | a Delete between another request's statement and its `cache.Store`; the entry stays until it is evicted or deleted again, or the process restarts |
| `cache_len_negative` | `cache.go:36,128`: the counter never goes negative | Delete overtakes Store between insert and count |
| `cache_len_count` | `cache.go:127`: Len is the number of entries | Store overwrites a key that was deleted after its LoadOrStore |
| `lifecycle_stop` | `README.md:82`: every component is stopped | the listener fails during a request; log writer gone, handler stuck, Shutdown waits for ever |
| `http_oversize` | `README.md:100`: a body over the limit is answered 413 | a POST whose value exceeds the limit is answered 400 |

`TaskService.List` never calls `Cache.List`, so that the panic behind
`cache_len_negative` (a negative capacity, `cache.go:116`) is a defect of the
package that this service does not reach.

Other sentences are refuted, or qualified, by reading the models:

- `cache.go:53-55` says firstKey points at the smallest key; two `Store`s may
  pass `StoreFirst` and then take `StoreSetFirst` in the wrong order.
- `cache.go:30-32` says that List's items and firstKey are a consistent pair;
  `Store` takes no lock and may come between `ListRange` and `ListFirst`.
- `registrar.go:44-47` says that Run returns nil only on cancellation;
  `RunSelect` passes on whatever the first job returned.
  `CleanExitNeedsSignal` shows that none of this program's jobs returns nil
  early.
- `http_server.go:27` calls the rate limiter outermost; lines 29-34 put the body
  limit outside.  No answer depends on it, since the body limit only wraps the
  body.
- "task id is required" (`server/task.go`) is never answered
  (`IdIsNeverEmpty`), and the `ToID` filter of the repository is set by nobody.
- A body that goes on beyond the limit after a complete JSON value is accepted:
  the decoder reads one value (`BindJSON`, "padded").
- `README.md:103` calls the TTL "how long an idle per-IP limiter is kept in
  memory".  The collector runs once per TTL, so that a bucket stays for up to
  twice the TTL plus what the collector is late (`CollectedInTime`).
- The stop function of `signal.NotifyContext` is dropped, so that a second
  signal never kills a start or a shutdown that hangs.

### Bounds

- `MaxId` caps the id sequence.  Rows never influence each other except through
  `fill`, which is why one row is enough for the races; that a restart fills
  only part of the cache is covered by the theorem `CacheCoherence`, which
  holds for any number of rows.  Two INSERTs that commit in the other order than
  they drew their ids need two rows: they are in the theorems, and in `listing`.
- `MaxOrphans` caps statements that are given up on at the same time; one is
  enough to have it commit before, between and after every step of the others.
- `Clients`: every race of the service is between two requests for one task;
  the theorems cover any number.
- `FillLimit` stands for the repository's 1000.
- `Names` has one member: statuses already tell two writers' tasks apart.
- `MaxDrift` stops Store from starting while the counter falls short of the map
  by that much.  The counter only drifts downwards (`LenNeverOvercounts`,
  proved), so this bounds a counter that would otherwise fall without end.
- `Divisor` is 5 in the code.  With three keys 2 makes `Cleanup` do something;
  the sequential run has seven keys and 5.
- `Conns`: two, so that one handler can be stuck while another is served.
- `LogLevel` is 0 (debug), where handlers log most.
- `listing`: with four ids and pages of two a walk has up to two full pages, and
  rows can be added, removed or land late before, inside and behind each.
  `MaxBigint` 6 stands for 2^63 - 1; it lies above every offset a walk reaches.
- `http_front`: `TTL` 3 and `Stall` 1 are the smallest values for which an idle
  bucket of 2 is full again just in time, so that collecting a tick earlier is
  noticed; with `Lag` 1 a sweep comes on time or late, with a fresh or an old
  cutoff.  Patterns have at most three segments, so paths of four already fail
  by length; the segments are each literal of a route, the empty one, the
  double dot, and ids that are and are not numbers.

The theorems hold for every value of the constants of their modules.

### Fairness

`TaskService.FairSpec` has weak fairness on the steps a goroutine takes once
it has a request: the Go scheduler runs it, every statement returns within its
timeout, and no lock is held across calls.  Nothing makes clients send
requests, the monitor evict, orphans commit or the process stop.

`Lifecycle.FairSpec` has weak fairness on the stages of the start (the ping and
the query of `fill` have timeouts), on the goroutines of main, the jobs and the
stop handlers.  Strong fairness is used twice per request: senders queue at
a Go channel, so a sender is served if the receiver keeps coming back; and a
handler makes finitely many log calls, so it answers in the end.  Nothing is
assumed about signals, clients or the listener.

Deadlock checking is off for `Lifecycle` only: a process that has exited takes
no steps.

## Proofs

`TaskServiceProofs` proves, from `ServiceAssumption` alone (naturals as bounds,
`NoTask` and `Nil` distinct from real values), the type invariant, `Coherent`,
`OneDeleterWins`, `DeletedRowStaysDeleted` and `LifecycleGuarded`.  None of
them is inductive.  The inductive invariant `IndInv` adds

- `RequestOK`, `OrphanOK`: a write that is still to come, by a goroutine or by
  the database, is a legal move *from the row it was computed from*.  This is
  what remains of the check in `Update` when the row has changed since;
- `SequenceOK`: ids in use were drawn from the sequence, and an INSERT that has
  not committed, running or late, owns its id.  Without it a late INSERT could
  fill somebody else's row;
- `DeleterOK`: the row of a request that will be answered 204 is gone and no
  INSERT can bring it back, so that a second Delete finds nothing;
- `StoringOK`: a pending `cache.Store` for a row that is not suspect stores
  that row.  This carries `Coherent` over the gap between statement and cache.

`RowWriters` names the actions that change the table; the two action
properties follow from it and `IndInv`.

Two sentences of the repository that runs refute are proved under a condition:
`TerminalWhenApart` (from `LifecycleWhenApart`: every change of a status is a
legal move) and `NotServedWhenApart` (`DeletedIsNotServed`) hold in every
behaviour with `[]Apart`: no two goroutines are at work on the same row, from
the `Get` or the statement to the cache call, and no UPDATE or DELETE outlives
its timeout.  Requests for other rows, reads, evictions, INSERTs that commit
late, crashes and restarts are all allowed.  A lock per task in the service
would establish the first half of the condition.
`CurrentOK` carries the argument (a pending UPDATE was computed from what is
still the row, and no row is suspect); `FreshOK` keeps ids that are not handed
out, or still held by an INSERT, out of the cache.

`CacheProofs` proves the type invariant, `LenNeverOvercounts`, `RangeSafe` and
`CleanupKeepsMost` from `CacheAssumption`, for all finite sets of keys and
goroutines.  `LockOK` (mutual exclusion of `snapshotMu`) carries `RangeSafe`:
no step can remove a key while someone else ranges.  `LenNeverOvercounts`
counts goroutines between a change of the map and of the counter; it needs
`RangeSafe`, because `Cleanup` decrements unconditionally.  `CutOK` then bounds
the cut: the counter is at most the map when `Cleanup` reads it, since nobody
else can be between removal and decrement.  `DriftStep` looks at the same
difference more closely: it never changes, except that it grows by one when a
`Store` writes a key that was removed since `LoadOrStore` found it.  This is
`OnlyLostOverwritesDrift`, and it makes `Len` exact at rest in every behaviour
without such a step (`LenIsExact`).  A consequence of `CutOK` is that the branches
`toRemove > len(keys)` and `firstKey.Store(0)` of `Cleanup` are dead code.

`CacheSequentialProofs` proves `ExactAtRest` for any number of goroutines whose
calls do not overlap (`ExactWithoutOverlap`), one goroutine being a special
case.  `SeqOK` says what the goroutine in a call knows: `firstKey` is the
smallest key before the call's own change, then the smallest of what was there
before it, and a Range has found every key.

Three refinements are proved.

- `ServiceImplementsTable`: `Spec => TableSpec`.  `CreateDraw` is `Draw`: an
  INSERT holds its id until it commits, which is `Land`, or is lost, which is
  `Lose`; giving up on it changes nothing, the orphan holds the id on.
  `SequenceOK` makes the id its own, `InsertOK` its task a new one.
  All other steps are one step of the table or none.
- `CacheImplementsMap`: `Spec => MapSpec`.  `QuietStep` collects the steps of a
  goroutine that has nothing to write: they are not seen from outside or return
  from the call; each of the others is one step of the abstract map.  The type invariant is enough, since which phase a
  call is in is computed from where its goroutine is.
- `LimiterImplementsBuckets`: `RateSpec => BucketsSpec`, for finite sets and
  under `RateAssumption`.  The inductive invariant has `OwnOK` (no two addresses
  share a limiter), `HeldOK` (what a goroutine is going to ask is still the
  limiter of its address, because an entry it touched cannot age past the TTL
  before it asks) and `RefilledOK` (an idle limiter has refilled with time, so
  what `gc` throws away is full), and `DueOK` (no bucket is older than the next
  sweep allows, however late the last one was).  A free limiter always exists by
  counting.
  `RateSpec` is what `HttpFront`'s specification does to the limiter's
  variables.  The same invariant gives `CollectedInTime`.  `RateIsKept`
  (`BurstIsBounded`) adds `ExcessOK`: what an address has in excess and what its
  bucket still holds are never more than a full bucket together.

`HttpFrontProofs` proves `RoutesAsDocumented`, `IdIsNeverEmpty` and the type
invariant for any group, words, methods and lengths of paths, and any set of
escaped slashes.  `Trim` needs no induction: a path with a segment that is not
empty has a first and a last one (`Least` and `Greatest`, from the
well-foundedness of the naturals), so that what is left has no empty segment at
either end (`TrimEnds`), and a path without such ends is left as it is
(`TrimBare`).  From it follow that the id is not empty (`TrimLast`), which
patterns match a path without outer slashes (`Bare`, `Routed`), what the router
answers (`Served`), and that every member of `Answers` is a good answer
(`AnswersAreGood`), which is the invariant.
`FrontLimits` is `Spec => RateSpec`: everything proved of the limiter holds of
the front as a whole (`FrontKeepsRates`).

`LifecycleProofs` proves the type invariant, `CleanExitNeedsSignal` and
`NoRequestCutOff` for any number of requests and any log level.  `IndInv` adds
the order of main (`OrderOK`), that a nil error comes from a finished context
only (`NilOK`), how the process comes to exit (`ExitOK`), and that a server
which has shut down stays drained because nothing listens any more
(`DrainedOK`).

`ListingProofs` proves the type invariant, `NothingTwice`, `NothingSkipped` and
`TotalMatchesPage` for any number of ids, any limits and any first offset.
`Bound` is the number of rows the walk has left behind.  `SeenOK` keeps the rows
that were seen among the first `Bound`, `AheadOK` keeps those that were not
behind them and within the total, and rows that came later behind both.  The
work is in what one write does to the places of the other rows
(`PlaceShrinks`, `PlaceGrows`, `PlaceInherited`) and in the number of rows
between two places (`PlacesBetween`, a bijection with an interval).
`SequenceOK` is needed because a row that lands late must not be one that was
seen, removed and inserted again.

Only model-checked:

- liveness (`StaleHeals`, `SignalEndsProcess`, `LogEntriesAreTaken`):
  fairness is out of the prover's reach;
- the violations.

## Not modelled

- Texts: JSON, error messages, log lines and their formatting, timestamps.
- The memory statistics that trigger `Cleanup`: it may run at any time.
- The options of the HTTP server.  Of the timeouts in the configuration only
  reading and idling are passed on; the values of `HTTP_SERVER_WRITE_TIMEOUT`
  and `POSTGRES_QUERY_TIMEOUT` are read by nobody.
- The values of the configuration; that loading it can fail is
  `Lifecycle!LoadConfig`.
- The connection pool: a statement fails or not (`TaskService`), opening it
  fails or not (`Lifecycle!OpenDatabase`).
- `docs/docs.go`, which is generated.

## Plan

Done: all modules above, with their runs and proofs; every safety property of
a passing run is stated by a theorem.  Left, in this order:

1. `Lifecycle` composed with statements that fail once the pool is closed, so
   that what a request is answered during a shutdown can be stated.
2. The safety part of `LogEntriesAreTaken`: that a handler can find the log
   writer gone only after a stop has begun or a job has failed.
