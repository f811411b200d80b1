-------------------------- MODULE LifecycleProofs --------------------------
(***************************************************************************)
(* Proofs about Lifecycle, for any number of requests and any log level.   *)
(***************************************************************************)
EXTENDS Lifecycle, TLAPS

(***************************************************************************)
(* The inductive invariant.                                                *)
(***************************************************************************)
\* The order of main: New, Run, Stop.  Nothing of a later stage has happened
\* in an earlier one, and Stop is over when all its handlers are.
OrderOK ==
    /\ boot # "done" => runPC = "new"
    /\ runPC = "new" => /\ \A j \in Jobs : job[j] = "new"
                        /\ ~listening
                        /\ \A c \in Conns : conn[c] = "none"
    /\ runPC # "returned" => stopPC = "new" /\ result = "none"
    /\ stopPC = "new" => ~logStopped /\ \A h \in Handlers : handler[h] = "new"
    /\ stopPC = "returned" => \A h \in Handlers : handler[h] = "returned"

\* Where a nil comes from: a job has returned nil before Run did only if the
\* context has ended.
NilOK ==
    /\ ~ctxDone /\ runPC # "returned"
          => \A i \in 1..Len(errs) : errs[i] = "error"
    /\ result = "nil" => ctxDone

\* How the process ends: a stage of the start failed, or Stop has returned.
ExitOK ==
    /\ exit # "none" => boot # "done" \/ stopPC = "returned"
    /\ exit = "ok" => result = "nil"

\* What Shutdown has achieved lasts, since nothing listens any more.
DrainedOK ==
    handler["http"] = "returned" => ~listening /\ (Active = {} \/ ctxDone)

IndInv == TypeOK /\ OrderOK /\ NilOK /\ ExitOK /\ DrainedOK
-----------------------------------------------------------------------------
\* The names of the jobs and of the stop handlers.
LEMMA Registered ==
    /\ "logger" \in Jobs /\ "cache" \in Jobs /\ "http" \in Jobs
    /\ "logger" \in Handlers /\ "db" \in Handlers /\ "http" \in Handlers
BY LifecycleAssumption

\* The channel stays a channel of results,
LEMMA AppendResult ==
    ASSUME NEW s \in Seq({"nil", "error"}), NEW e \in {"nil", "error"}
    PROVE  Append(s, e) \in Seq({"nil", "error"})
OBVIOUS

\* and a job that fails adds nothing but an error.
LEMMA AppendError ==
    ASSUME NEW s \in Seq({"nil", "error"}),
           \A i \in 1..Len(s) : s[i] = "error"
    PROVE  \A i \in 1..Len(Append(s, "error")) :
              Append(s, "error")[i] = "error"
OBVIOUS

\* Every step keeps the inductive invariant.
LEMMA InvStep == IndInv /\ [Next]_vars => IndInv'
<1> SUFFICES ASSUME IndInv, [Next]_vars PROVE IndInv'
  OBVIOUS
<1> USE Registered DEF IndInv, TypeOK, BackgroundTypeOK, Stages, OrderOK,
    NilOK, ExitOK, DrainedOK, Active, Alive, backgroundVars, runVars, stopVars,
    appVars
<1>1. ASSUME Signal PROVE IndInv'
  BY <1>1 DEF Signal, Cancel
<1>2. ASSUME LoadConfig PROVE IndInv'
  BY <1>2 DEF LoadConfig, Pass
<1>3. ASSUME NewLogger PROVE IndInv'
  BY <1>3 DEF NewLogger, Pass
<1>4. ASSUME OpenDatabase PROVE IndInv'
  BY <1>4 DEF OpenDatabase, Pass
<1>5. ASSUME FillCache PROVE IndInv'
  BY <1>5 DEF FillCache, Pass
<1>6. ASSUME BootFails PROVE IndInv'
  BY <1>6 DEF BootFails
<1>7. ASSUME Alive /\ boot = "done", RunStart, UNCHANGED appVars
      PROVE  IndInv'
  BY <1>7 DEF RunStart
<1>8. ASSUME Alive /\ boot = "done", RunSelect, UNCHANGED appVars
      PROVE  IndInv'
  <2>1. ASSUME ctxDone, RunReturns("nil"), UNCHANGED errs
        PROVE  IndInv'
    BY <1>8, <2>1 DEF RunReturns
  <2>2. ASSUME errs # <<>>, RunReturns(Head(errs)), errs' = Tail(errs)
        PROVE  IndInv'
    <3>1. /\ Head(errs) \in {"nil", "error"} /\ Head(errs) = errs[1]
          /\ 1 \in 1..Len(errs) /\ Tail(errs) \in Seq({"nil", "error"})
      BY <2>2
    <3> QED
      BY <1>8, <2>2, <3>1 DEF RunReturns
  <2> QED
    BY <1>8, <2>1, <2>2 DEF RunSelect
<1>9. ASSUME Alive /\ boot = "done", StopStart, UNCHANGED appVars
      PROVE  IndInv'
  BY <1>9 DEF StopStart
<1>10. ASSUME Alive /\ boot = "done", StopReturns, UNCHANGED appVars
      PROVE  IndInv'
  BY <1>10 DEF StopReturns
<1>11. ASSUME Exit PROVE IndInv'
  BY <1>11 DEF Exit
<1>12. ASSUME LogPrint PROVE IndInv'
  BY <1>12 DEF LogPrint
<1>13. ASSUME LogReturns PROVE IndInv'
  BY <1>13 DEF LogReturns, JobReturns, LogCtxDone
<1>14. ASSUME LogStop PROVE IndInv'
  BY <1>14 DEF LogStop, HandlerReturns
<1>15. ASSUME MonitorReturns PROVE IndInv'
  BY <1>15 DEF MonitorReturns, JobReturns
<1>16. ASSUME DbClose PROVE IndInv'
  BY <1>16 DEF DbClose, HandlerReturns
<1>17. ASSUME Listen PROVE IndInv'
  BY <1>17 DEF Listen
<1>18. ASSUME ListenAndServeReturns PROVE IndInv'
  <2>1. errs' = Append(errs, "error")
    BY <1>18 DEF ListenAndServeReturns, JobReturns
  <2>2. NilOK'
    BY <1>18, <2>1, AppendError DEF ListenAndServeReturns, JobReturns
  <2>3. errs' \in Seq({"nil", "error"})
    BY <2>1, AppendResult
  <2>4. TypeOK'
    BY <1>18, <2>3 DEF ListenAndServeReturns, JobReturns
  <2>5. OrderOK' /\ ExitOK' /\ DrainedOK'
    BY <1>18 DEF ListenAndServeReturns, JobReturns
  <2> QED
    BY <2>2, <2>4, <2>5
<1>19. ASSUME ShutdownStarts PROVE IndInv'
  BY <1>19 DEF ShutdownStarts
<1>20. ASSUME ShutdownReturns PROVE IndInv'
  BY <1>20 DEF ShutdownReturns, HandlerReturns
<1>21. ASSUME NEW c \in Conns, Accept(c) PROVE IndInv'
  BY <1>21 DEF Accept
<1>22. ASSUME NEW c \in Conns, HandlerLogs(c) PROVE IndInv'
  BY <1>22 DEF HandlerLogs
<1>23. ASSUME NEW c \in Conns, HandlerAnswers(c) PROVE IndInv'
  BY <1>23 DEF HandlerAnswers
<1>24. ASSUME NEW c \in Conns, LogHandoff(c) PROVE IndInv'
  BY <1>24 DEF LogHandoff
<1>25. CASE UNCHANGED vars
  BY <1>25 DEF vars
<1> QED
  BY <1>1, <1>2, <1>3, <1>4, <1>5, <1>6, <1>7, <1>8, <1>9, <1>10, <1>11,
     <1>12, <1>13, <1>14, <1>15, <1>16, <1>17, <1>18, <1>19, <1>20, <1>21,
     <1>22, <1>23, <1>24, <1>25
  DEF Next, Boot, Main

-----------------------------------------------------------------------------
(***************************************************************************)
(* The theorems.                                                           *)
(***************************************************************************)
\* The inductive invariant holds in every reachable state.
THEOREM Invariance == Spec => []IndInv
<1>1. Init => IndInv
  <2> SUFFICES ASSUME Init PROVE IndInv
    OBVIOUS
  <2> USE Registered DEF Init, BackgroundInit
  <2>1. TypeOK
    <3>1. errs \in Seq({"nil", "error"})
      OBVIOUS
    <3>2. job \in [Jobs -> Stages] /\ handler \in [Handlers -> Stages]
      BY DEF Stages
    <3> QED
      BY <3>1, <3>2 DEF TypeOK, BackgroundTypeOK
  <2>2. OrderOK /\ ExitOK /\ DrainedOK
    BY DEF OrderOK, ExitOK, DrainedOK
  <2>3. NilOK
    BY DEF NilOK
  <2> QED
    BY <2>1, <2>2, <2>3 DEF IndInv
<1> QED
  BY <1>1, InvStep, PTL DEF Spec

\* Type correctness of the process.
THEOREM TypeCorrect == Spec => []TypeOK
<1>1. IndInv => TypeOK
  BY DEF IndInv
<1> QED
  BY <1>1, Invariance, PTL

\* The process reports success only after a signal.
THEOREM SuccessNeedsSignal == Spec => []CleanExitNeedsSignal
<1>1. IndInv => CleanExitNeedsSignal
  BY DEF IndInv, NilOK, ExitOK, CleanExitNeedsSignal
<1> QED
  BY <1>1, Invariance, PTL

\* Without a signal the process does not end under a request.
THEOREM RequestsAreServed == Spec => []NoRequestCutOff
<1>1. IndInv => NoRequestCutOff
  <2> SUFFICES ASSUME IndInv, exit # "none", ~ctxDone
               PROVE  Active = {}
    BY DEF NoRequestCutOff
  <2>1. CASE boot # "done"
    BY <2>1 DEF IndInv, OrderOK, Active
  <2>2. CASE stopPC = "returned"
    BY <2>2, Registered DEF IndInv, OrderOK, DrainedOK
  <2> QED
    BY <2>1, <2>2 DEF IndInv, ExitOK
<1> QED
  BY <1>1, Invariance, PTL
=============================================================================
