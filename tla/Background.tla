----------------------------- MODULE Background -----------------------------
(***************************************************************************)
(* pkg/background/registrar.go: Run starts every job in a goroutine of its *)
(* own and returns on the first thing that happens, the end of the context *)
(* or the end of a job; Stop, called once Run has returned, runs every     *)
(* stop handler in a goroutine and waits for all of them.                  *)
(***************************************************************************)
EXTENDS Naturals, Sequences

CONSTANTS
    Jobs,       \* registered with RegisterJob
    Handlers    \* registered with RegisterStopHandler

VARIABLES
    ctxDone,    \* the context given to Run is cancelled
    runPC,      \* "new", "select", "returned"
    job,        \* per job: "new", "running", "returned"
    errs,       \* the channel of results, "nil" or "error"
    result,     \* what Run returned, "none" before
    stopPC,     \* "new", "waiting", "returned"
    handler     \* per stop handler: "new", "running", "returned"

backgroundVars == <<ctxDone, runPC, job, errs, result, stopPC, handler>>
runVars == <<runPC, job, errs, result>>
stopVars == <<stopPC, handler>>
-----------------------------------------------------------------------------
Stages == {"new", "running", "returned"}

BackgroundTypeOK ==
    /\ ctxDone \in BOOLEAN
    /\ runPC \in {"new", "select", "returned"}
    /\ job \in [Jobs -> Stages]
    /\ errs \in Seq({"nil", "error"})
    /\ result \in {"none", "nil", "error"}
    /\ stopPC \in {"new", "waiting", "returned"}
    /\ handler \in [Handlers -> Stages]

BackgroundInit ==
    /\ ctxDone = FALSE
    /\ runPC = "new"
    /\ job = [j \in Jobs |-> "new"]
    /\ errs = <<>>
    /\ result = "none"
    /\ stopPC = "new"
    /\ handler = [h \in Handlers |-> "new"]

\* The context ends: SIGINT or SIGTERM.
Cancel ==
    /\ ~ctxDone
    /\ ctxDone' = TRUE
    /\ UNCHANGED <<runVars, stopVars>>

\* MUTANT: the goroutines share the variable of the loop, so that all of them
\* run one and the same job.
RunStartShared ==
    /\ runPC = "new"
    /\ runPC' = "select"
    /\ \E last \in Jobs :
          job' = [j \in Jobs |-> IF j = last THEN "running" ELSE "new"]
    /\ UNCHANGED <<ctxDone, errs, result, stopVars>>

RunStart ==
    /\ runPC = "new"
    /\ runPC' = "select"
    /\ job' = [j \in Jobs |-> "running"]
    /\ UNCHANGED <<ctxDone, errs, result, stopVars>>

\* The channel has room for every job, so that none blocks.
JobReturns(j, err) ==
    /\ job[j] = "running"
    /\ job' = [job EXCEPT ![j] = "returned"]
    /\ errs' = Append(errs, err)
    /\ UNCHANGED <<ctxDone, runPC, result, stopVars>>

RunReturns(err) ==
    /\ runPC = "select"
    /\ runPC' = "returned"
    /\ result' = err
    /\ UNCHANGED <<ctxDone, job, stopVars>>

\* When both are ready, select takes either.
RunSelect ==
    \/ ctxDone /\ RunReturns("nil") /\ UNCHANGED errs
    \/ errs # <<>> /\ RunReturns(Head(errs)) /\ errs' = Tail(errs)

StopStart ==
    /\ runPC = "returned"
    /\ stopPC = "new"
    /\ stopPC' = "waiting"
    /\ handler' = [h \in Handlers |-> "running"]
    /\ UNCHANGED <<ctxDone, runVars>>

HandlerReturns(h) ==
    /\ handler[h] = "running"
    /\ handler' = [handler EXCEPT ![h] = "returned"]
    /\ UNCHANGED <<ctxDone, runVars, stopPC>>

StopReturns ==
    /\ stopPC = "waiting"
    /\ \A h \in Handlers : handler[h] = "returned"
    /\ stopPC' = "returned"
    /\ UNCHANGED <<ctxDone, runVars, handler>>
=============================================================================
