----------------------------- MODULE Lifecycle -----------------------------
(***************************************************************************)
(* internal/root, cmd/main.go, pkg/postgres and pkg/logging over the       *)
(* registrar: how the process starts, runs and ends.  Once it has been     *)
(* initialised three jobs run, the log writer (AsyncLogger.Process), the   *)
(* memory monitor of the cache and the HTTP server, while handler          *)
(* goroutines (Conns) serve requests and hand log entries to the log       *)
(* writer over an unbuffered channel.  Three stop handlers run in          *)
(* parallel: cancel the log writer, close the database, shut the HTTP      *)
(* server down.                                                            *)
(***************************************************************************)
EXTENDS Background

CONSTANTS
    Conns,        \* requests that arrive during one life of the process
    LogLevel      \* the configured level, as parseLogLevel numbers it

DebugLevel == 0
ErrorLevel == 3
FatalLevel == 4

ASSUME LifecycleAssumption ==
    /\ LogLevel \in DebugLevel..FatalLevel
    /\ Jobs = {"logger", "cache", "http"}
    /\ Handlers = {"logger", "db", "http"}

VARIABLES
    boot,         \* what main does next, "done" when New has returned
    logStopped,   \* AsyncLogger.Stop has cancelled the log writer's context
    process,      \* the log writer: "select", or "print" with an entry
    listening,    \* the HTTP server accepts connections
    conn,         \* per request: "none", "handling", "logging", "answered"
    exit          \* "none", or the exit status of the process

appVars == <<boot, logStopped, process, listening, conn, exit>>
vars == <<backgroundVars, appVars>>
-----------------------------------------------------------------------------
TypeOK ==
    /\ BackgroundTypeOK
    /\ boot \in {"config", "logger", "database", "fill", "done"}
    /\ logStopped \in BOOLEAN
    /\ process \in {"select", "print"}
    /\ listening \in BOOLEAN
    /\ conn \in [Conns -> {"none", "handling", "logging", "answered"}]
    /\ exit \in {"none", "ok", "fatal"}

Init ==
    /\ BackgroundInit
    /\ boot = "config"
    /\ logStopped = FALSE
    /\ process = "select"
    /\ listening = FALSE
    /\ conn = [c \in Conns |-> "none"]
    /\ exit = "none"

Alive == exit = "none"

\* The context of the log writer is a child of the process's.
LogCtxDone == ctxDone \/ logStopped

CheckLevel(level) == LogLevel <= level

Active == {c \in Conns : conn[c] \in {"handling", "logging"}}
-----------------------------------------------------------------------------
(***************************************************************************)
(* main and root.New up to Run.  Ping and the List of fill run under the   *)
(* context that a signal ends; reading the configuration and making the    *)
(* logger do not look at it.  The jobs and stop handlers registered so far *)
(* are forgotten when a stage fails.                                       *)
(***************************************************************************)
Pass(stage, next) ==
    /\ Alive
    /\ boot = stage
    /\ boot' = next
    /\ UNCHANGED <<backgroundVars, logStopped, process, listening, conn, exit>>

LoadConfig == Pass("config", "logger")

NewLogger == Pass("logger", "database")

OpenDatabase == ~ctxDone /\ Pass("database", "fill")

FillCache == ~ctxDone /\ Pass("fill", "done")

\* log.Fatalf or logger.Fatal, which ends the process at every level.
BootFails ==
    /\ Alive
    /\ boot # "done"
    /\ CheckLevel(FatalLevel)
    /\ exit' = "fatal"
    /\ UNCHANGED <<backgroundVars, boot, logStopped, process, listening, conn>>

Boot == LoadConfig \/ NewLogger \/ OpenDatabase \/ FillCache \/ BootFails
-----------------------------------------------------------------------------
(***************************************************************************)
(* The log writer.                                                         *)
(***************************************************************************)
\* write: the handler and Process meet at the channel.  Process may take an
\* entry although its context is done: select takes either.
LogHandoff(c) ==
    /\ Alive
    /\ conn[c] = "logging"
    /\ job["logger"] = "running" /\ process = "select"
    /\ conn' = [conn EXCEPT ![c] = "handling"]
    /\ process' = "print"
    /\ UNCHANGED <<backgroundVars, boot, logStopped, listening, exit>>

LogPrint ==
    /\ Alive
    /\ process = "print"
    /\ process' = "select"
    /\ UNCHANGED <<backgroundVars, boot, logStopped, listening, conn, exit>>

LogReturns ==
    /\ Alive
    /\ process = "select"
    /\ LogCtxDone
    /\ JobReturns("logger", "nil")
    /\ UNCHANGED appVars

LogStop ==
    /\ Alive
    /\ HandlerReturns("logger")
    /\ logStopped' = TRUE
    /\ UNCHANGED <<boot, process, listening, conn, exit>>

(***************************************************************************)
(* The memory monitor of the cache, and the database.                      *)
(***************************************************************************)
\* MUTANT: with no interval configured the monitor returns at once.
MonitorReturnsEarly ==
    /\ Alive
    /\ JobReturns("cache", "nil")
    /\ UNCHANGED appVars

MonitorReturns ==
    /\ Alive
    /\ ctxDone
    /\ JobReturns("cache", "nil")
    /\ UNCHANGED appVars

DbClose ==
    /\ Alive
    /\ HandlerReturns("db")
    /\ UNCHANGED appVars

(***************************************************************************)
(* The HTTP server.                                                        *)
(***************************************************************************)
\* (Listening after Stop has begun, and before Shutdown has, is no different
\* from listening just before Stop.)
Listen ==
    /\ Alive
    /\ job["http"] = "running" /\ ~listening
    /\ handler["http"] = "new"
    /\ listening' = TRUE
    /\ UNCHANGED <<backgroundVars, boot, logStopped, process, conn, exit>>

\* ListenAndServe returns: it cannot listen, accepting fails, or Shutdown has
\* been called (ErrServerClosed).  Requests being served are left alone.
ListenAndServeReturns ==
    /\ Alive
    /\ JobReturns("http", "error")
    /\ listening' = FALSE
    /\ UNCHANGED <<boot, logStopped, process, conn, exit>>

Accept(c) ==
    /\ Alive
    /\ listening
    /\ conn[c] = "none"
    /\ conn' = [conn EXCEPT ![c] = "handling"]
    /\ UNCHANGED <<backgroundVars, boot, logStopped, process, listening, exit>>

\* A handler reaches one of the Async calls of TaskService; an entry below
\* the configured level is not written.
HandlerLogs(c) ==
    /\ Alive
    /\ conn[c] = "handling"
    /\ \E level \in {DebugLevel, ErrorLevel} : CheckLevel(level)
    /\ conn' = [conn EXCEPT ![c] = "logging"]
    /\ UNCHANGED <<backgroundVars, boot, logStopped, process, listening, exit>>

HandlerAnswers(c) ==
    /\ Alive
    /\ conn[c] = "handling"
    /\ conn' = [conn EXCEPT ![c] = "answered"]
    /\ UNCHANGED <<backgroundVars, boot, logStopped, process, listening, exit>>

\* Shutdown(r.ctx) closes the listener,
ShutdownStarts ==
    /\ Alive
    /\ handler["http"] = "running" /\ listening
    /\ listening' = FALSE
    /\ UNCHANGED <<backgroundVars, boot, logStopped, process, conn, exit>>

\* MUTANT: Shutdown is given a context that does not end.
ShutdownReturnsWhenIdle ==
    /\ Alive
    /\ ~listening
    /\ Active = {}
    /\ HandlerReturns("http")
    /\ UNCHANGED appVars

\* MUTANT: Shutdown does not wait for requests.
ShutdownReturnsAtOnce ==
    /\ Alive
    /\ ~listening
    /\ HandlerReturns("http")
    /\ UNCHANGED appVars

\* and returns when no request is left, or when r.ctx is done.
ShutdownReturns ==
    /\ Alive
    /\ ~listening
    /\ Active = {} \/ ctxDone
    /\ HandlerReturns("http")
    /\ UNCHANGED appVars

(***************************************************************************)
(* main.  Signals, and the end of the process, which takes everything that *)
(* still runs with it.                                                     *)
(***************************************************************************)
Signal == Alive /\ Cancel /\ UNCHANGED appVars

Main == /\ Alive /\ boot = "done"
        /\ RunStart \/ RunSelect \/ StopStart \/ StopReturns
        /\ UNCHANGED appVars

\* MUTANT: the outcome of Run is passed on as it is.
ExitResult ==
    /\ Alive
    /\ stopPC = "returned"
    /\ exit' = result
    /\ UNCHANGED <<backgroundVars, boot, logStopped, process, listening, conn>>

Exit ==
    /\ Alive
    /\ stopPC = "returned"
    /\ exit' = IF result = "nil" THEN "ok" ELSE "fatal"
    /\ UNCHANGED <<backgroundVars, boot, logStopped, process, listening, conn>>

Next ==
    \/ Signal \/ Boot \/ Main \/ Exit
    \/ LogPrint \/ LogReturns \/ LogStop
    \/ MonitorReturns \/ DbClose
    \/ Listen \/ ListenAndServeReturns \/ ShutdownStarts \/ ShutdownReturns
    \/ \E c \in Conns : \/ Accept(c) \/ HandlerLogs(c) \/ HandlerAnswers(c)
                        \/ LogHandoff(c)

Spec == Init /\ [][Next]_vars

(***************************************************************************)
(* Goroutines that can run do (the Go scheduler), and every stage of the   *)
(* start ends (the ping and the query have timeouts).  A handler that      *)
(* keeps logging answers in the end.  Senders queue at a channel, so each  *)
(* is served if the log writer keeps receiving.  Nothing is assumed about  *)
(* signals, clients, or the listener failing.                              *)
(***************************************************************************)
Fairness ==
    /\ WF_vars(Boot) /\ WF_vars(Main) /\ WF_vars(Exit)
    /\ WF_vars(LogPrint) /\ WF_vars(LogReturns) /\ WF_vars(LogStop)
    /\ WF_vars(MonitorReturns) /\ WF_vars(DbClose)
    /\ WF_vars(ShutdownStarts) /\ WF_vars(ShutdownReturns)
    /\ \A c \in Conns : SF_vars(HandlerAnswers(c)) /\ SF_vars(LogHandoff(c))

FairSpec == Spec /\ Fairness
-----------------------------------------------------------------------------
(***************************************************************************)
(* Properties                                                              *)
(***************************************************************************)
\* The process reports success only after a signal, although Run returns nil
\* as soon as any job does: every job outlasts Run or fails.
\* (Root.Run, Process, Cache.Run)
CleanExitNeedsSignal == exit = "ok" => ctxDone

\* A request that was being served is cut off by the end of the process only
\* after a signal: when the listener fails, Stop waits for the handlers, and
\* a start that fails has not accepted any.
\* (s.Shutdown(r.ctx), Registrar.Stop, deferred in Root.Run)
NoRequestCutOff == exit # "none" /\ ~ctxDone => Active = {}

\* A signal always ends the process, even while it starts, and although
\* handlers may be stuck at the log channel for good once the log writer has
\* left: Shutdown does not wait for them, because its context is the one the
\* signal ended.
\* (s.Shutdown(r.ctx), Registrar.Stop)
SignalEndsProcess == ctxDone ~> exit # "none"

\* Until the log writer is told to stop, a handler that logs gets on, however
\* many others log too.  (write and Process)
LogEntriesAreTaken ==
    \A c \in Conns : conn[c] = "logging"
                        ~> conn[c] # "logging" \/ LogCtxDone \/ exit # "none"

\* README.md:82, registrar.go:73-75: every long-lived component is stopped in
\* Stop, which blocks until all stop handlers have returned.
EveryComponentStops ==
    \A h \in Handlers : handler[h] = "running" ~> handler[h] = "returned"
=============================================================================
