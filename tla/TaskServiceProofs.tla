------------------------- MODULE TaskServiceProofs -------------------------
(***************************************************************************)
(* Proofs about TaskService, for any number of goroutines, ids, names,     *)
(* orphans and any fill limit.                                             *)
(***************************************************************************)
EXTENDS TaskService, TLAPS

(***************************************************************************)
(* The inductive invariant.                                                *)
(***************************************************************************)
\* A request that has a call to make knows its row; one that is about to
\* insert has a task, and one that is about to update has checked the
\* transition from the row it read.
RequestOK ==
    \A c \in Clients :
        /\ req[c].pc \notin {"idle", "respond"} => req[c].id \in Ids
        /\ req[c].pc = "repositoryStore" => req[c].task \in Tasks
        /\ req[c].pc = "repositoryUpdate" =>
              /\ req[c].task \in Tasks
              /\ req[c].base \in Tasks
              /\ LegalMove(req[c].base.status, req[c].task.status)

\* The same of an UPDATE that the service gave up on.
OrphanOK ==
    \A o \in orphans :
        ~o.insert /\ o.task # NoTask =>
            /\ o.task \in Tasks
            /\ o.base \in Tasks
            /\ LegalMove(o.base.status, o.task.status)

\* Every id in use was drawn from the sequence, and drawn once: an INSERT
\* that has not committed is the only one for its row.
SequenceOK ==
    /\ \A id \in Ids : db[id] # NoTask => id < nextId
    /\ \A o \in orphans :
          o.insert => /\ o.id < nextId
                      /\ db[o.id] = NoTask
                      /\ \A p \in orphans : p.insert /\ p.id = o.id => p = o
                      /\ \A c \in Clients : ~At(c, "repositoryStore", o.id)
    /\ \A c \in Clients :
          req[c].pc = "repositoryStore" =>
             /\ req[c].id < nextId
             /\ db[req[c].id] = NoTask
             /\ \A d \in Clients : At(d, "repositoryStore", req[c].id) => d = c

\* Whoever is to be told 204 has deleted a row that cannot come back.
DeleterOK ==
    \A c \in Clients :
        req[c].code = 204 =>
            /\ req[c].id \in Ids
            /\ req[c].id < nextId
            /\ db[req[c].id] = NoTask
            /\ \A o \in orphans : ~(o.insert /\ o.id = req[c].id)
            /\ \A d \in Clients : ~At(d, "repositoryStore", req[c].id)

\* A pending cache.Store for a clean row stores that row.
StoringOK ==
    \A id \in Ids \ suspect : \A c \in Storing(id) : req[c].task = db[id]

IndInv ==
    /\ TypeOK
    /\ RequestOK
    /\ OrphanOK
    /\ SequenceOK
    /\ DeleterOK
    /\ OneDeleterWins
    /\ StoringOK
    /\ Coherent
-----------------------------------------------------------------------------
(***************************************************************************)
(* Lemmas about the lifecycle operators.                                   *)
(***************************************************************************)
\* Update lets only moves of the lifecycle through: CanTransitionTo, which is
\* written case by case in domain/task.go, implies what README.md promises.
LEMMA TransitionIsLegal ==
    ASSUME NEW s \in TaskStatus, NEW next \in TaskStatus,
           CanTransitionTo(s, next)
    PROVE  LegalMove(s, next)
BY DEF TaskStatus, CanTransitionTo, LegalMove, Terminal

\* The row that Update writes is a task, a legal move from the row it read.
LEMMA MergeIsLegal ==
    ASSUME NEW row \in Tasks, NEW p \in Params, Permitted(row, p)
    PROVE  /\ Merge(row, p) \in Tasks
           /\ LegalMove(row.status, Merge(row, p).status)
<1>1. Merge(row, p) \in Tasks
  BY DEF Merge, Tasks, Params
<1>2. CASE p.status = Nil
  BY <1>1, <1>2 DEF Merge, LegalMove, Tasks
<1>3. CASE p.status # Nil
  <2>1. CanTransitionTo(row.status, p.status) /\ p.status \in TaskStatus
    BY <1>3 DEF Permitted, Params
  <2>2. LegalMove(row.status, p.status)
    BY <2>1, TransitionIsLegal DEF Tasks
  <2> QED
    BY <1>1, <1>3, <2>2 DEF Merge
<1> QED
  BY <1>2, <1>3
-----------------------------------------------------------------------------
(***************************************************************************)
(* Type correctness.                                                       *)
(***************************************************************************)
\* The fields of a request.
LEMMA RequestFields ==
    ASSUME TypeOK, NEW c \in Clients
    PROVE  /\ req[c].pc \in PC
           /\ req[c].id \in 0..MaxId
           /\ req[c].task \in MaybeTask
           /\ req[c].base \in MaybeTask
           /\ req[c].code \in Codes
BY DEF TypeOK, Requests

\* Goto and Answer move one goroutine to a well-typed request.
LEMMA GotoType ==
    ASSUME req \in [Clients -> Requests],
           NEW c \in Clients, NEW pc \in PC, NEW id \in 0..MaxId,
           NEW task \in MaybeTask, NEW base \in MaybeTask, NEW code \in Codes,
           Goto(c, pc, id, task, base, code)
    PROVE  req' \in [Clients -> Requests]
<1>1. [pc |-> pc, id |-> id, task |-> task, base |-> base, code |-> code]
         \in Requests
  BY DEF Requests
<1> QED
  BY <1>1 DEF Goto

\* The same of an answer (SendErrorResponse, SendSuccessResponse).
LEMMA AnswerType ==
    ASSUME req \in [Clients -> Requests],
           NEW c \in Clients, NEW id \in 0..MaxId, NEW code \in Codes,
           Answer(c, id, code)
    PROVE  req' \in [Clients -> Requests]
BY GotoType DEF Answer, MaybeTask, PC

\* What Create stores, and what Delete leaves, is a row or none.
LEMMA TaskTypes ==
    /\ NoTask \in MaybeTask
    /\ Tasks \subseteq MaybeTask
    /\ \A name \in Names : NewTask(name) \in MaybeTask
BY DEF MaybeTask, NewTask, Tasks, TaskStatus

\* Ids are ids of requests, too; 0 is the id of a request that has none.
LEMMA IdTypes ==
    /\ Ids \subseteq 0..MaxId
    /\ Ids \subseteq Nat
    /\ 0 \in 0..MaxId
BY ServiceAssumption DEF Ids

\* What the service gives up on is a statement.
LEMMA OrphanType ==
    ASSUME orphans \subseteq Orphans,
           NEW id \in Ids, NEW task \in MaybeTask, NEW base \in MaybeTask,
           NEW insert \in BOOLEAN,
           orphans' \in {orphans, orphans \cup {[id |-> id, task |-> task,
                                    base |-> base, insert |-> insert]}}
    PROVE  orphans' \subseteq Orphans
<1>1. [id |-> id, task |-> task, base |-> base, insert |-> insert] \in Orphans
  BY DEF Orphans
<1> QED
  BY <1>1

\* Every step keeps the types.
LEMMA TypeStep == TypeOK /\ RequestOK /\ [Next]_vars => TypeOK'
<1> SUFFICES ASSUME TypeOK, RequestOK, [Next]_vars PROVE TypeOK'
  OBVIOUS
<1> USE TaskTypes, IdTypes DEF TypeOK, dbVars
<1>22. ASSUME NEW c \in Clients, NEW name \in Names, CreateDraw(c, name)
       PROVE  TypeOK'
  <2>1. CASE Answer(c, 0, 500) /\ nextId' = nextId
    <3>1. req' \in [Clients -> Requests]
      BY <2>1, AnswerType DEF Codes
    <3> QED
      BY <1>22, <2>1, <3>1 DEF CreateDraw
  <2>2. CASE /\ nextId <= MaxId /\ nextId' = nextId + 1
             /\ Goto(c, "repositoryStore", nextId, NewTask(name), NoTask, 0)
    <3>1. nextId \in Ids /\ nextId' \in 1..(MaxId + 1)
      BY <2>2, ServiceAssumption DEF Ids
    <3>2. req' \in [Clients -> Requests]
      BY <2>2, <3>1, GotoType DEF PC, Codes
    <3> QED
      BY <1>22, <3>1, <3>2 DEF CreateDraw
  <2> QED
    BY <1>22, <2>1, <2>2 DEF CreateDraw
<1>1. ASSUME NEW c \in Clients, CreateStore(c) PROVE TypeOK'
  <2>1. req[c].id \in Ids /\ req[c].task \in MaybeTask
    BY <1>1, RequestFields DEF CreateStore, RequestOK
  <2>2. req' \in [Clients -> Requests]
    <3>1. [pc |-> "cacheStore", id |-> req[c].id, task |-> req[c].task,
           base |-> NoTask, code |-> 200] \in Requests
      BY <2>1 DEF Requests, PC, Codes
    <3> QED
      BY <1>1, <3>1 DEF CreateStore, Goto
  <2> QED
    BY <1>1, <2>1, <2>2 DEF CreateStore, Written
<1>2. ASSUME NEW c \in Clients, CreateFails(c) PROVE TypeOK'
  <2>1. req[c].id \in Ids /\ req[c].task \in MaybeTask
    BY <1>2, RequestFields DEF CreateFails, RequestOK
  <2>2. req' \in [Clients -> Requests]
    BY <1>2, AnswerType DEF CreateFails, Codes
  <2>3. orphans' \subseteq Orphans
    BY <1>2, <2>1, OrphanType DEF CreateFails, GivesUpOn
  <2> QED
    BY <1>2, <2>2, <2>3 DEF CreateFails
<1>3. ASSUME NEW c \in Clients, NEW id \in Ids, GetLookup(c, id)
      PROVE  TypeOK'
  <2>1. req' \in [Clients -> Requests]
    BY <1>3, AnswerType, GotoType DEF GetLookup, PC, Codes
  <2> QED
    BY <1>3, <2>1 DEF GetLookup
<1>4. ASSUME NEW c \in Clients, GetRepository(c) PROVE TypeOK'
  <2>1. req' \in [Clients -> Requests]
    BY <1>4, RequestFields, AnswerType DEF GetRepository, Codes
  <2> QED
    BY <1>4, <2>1 DEF GetRepository
<1>5. ASSUME NEW c \in Clients, NEW id \in Ids, NEW p \in Params,
             UpdateLoad(c, id, p)
      PROVE  TypeOK'
  <2>1. CASE Answer(c, id, 404) \/ Answer(c, id, 400) \/ Answer(c, id, 500)
    <3>1. req' \in [Clients -> Requests]
      BY <2>1, AnswerType DEF Codes
    <3> QED
      BY <1>5, <3>1 DEF UpdateLoad
  <2>2. CASE /\ db[id] # NoTask /\ Permitted(db[id], p)
             /\ Goto(c, "repositoryUpdate", id, Merge(db[id], p), db[id], 0)
    <3>1. Merge(db[id], p) \in MaybeTask
      BY <2>2, MergeIsLegal DEF MaybeTask
    <3>2. req' \in [Clients -> Requests]
      BY <2>2, <3>1, GotoType DEF PC, Codes
    <3> QED
      BY <1>5, <3>2 DEF UpdateLoad
  <2> QED
    BY <1>5, <2>1, <2>2 DEF UpdateLoad
<1>6. ASSUME NEW c \in Clients, UpdateWrite(c) PROVE TypeOK'
  <2>1. req[c].id \in Ids /\ req[c].task \in MaybeTask
    BY <1>6, RequestFields DEF UpdateWrite, RequestOK
  <2>2. req' \in [Clients -> Requests]
    <3>1. [pc |-> "cacheStore", id |-> req[c].id, task |-> req[c].task,
           base |-> NoTask, code |-> 200] \in Requests
      BY <2>1 DEF Requests, PC, Codes
    <3> QED
      BY <1>6, <3>1 DEF UpdateWrite, Goto
  <2> QED
    BY <1>6, <2>1, <2>2 DEF UpdateWrite, Written
<1>7. ASSUME NEW c \in Clients, UpdateMissing(c) PROVE TypeOK'
  <2>1. req[c].id \in Ids
    BY <1>7 DEF UpdateMissing, RequestOK
  <2>2. req' \in [Clients -> Requests]
    <3>1. [pc |-> "cacheDelete", id |-> req[c].id, task |-> NoTask,
           base |-> NoTask, code |-> 404] \in Requests
      BY <2>1 DEF Requests, PC, Codes
    <3> QED
      BY <1>7, <3>1 DEF UpdateMissing, Goto
  <2> QED
    BY <1>7, <2>2 DEF UpdateMissing, Cleared
<1>8. ASSUME NEW c \in Clients, UpdateFails(c) PROVE TypeOK'
  <2>1. /\ req[c].id \in Ids
        /\ req[c].task \in MaybeTask /\ req[c].base \in MaybeTask
    BY <1>8, RequestFields DEF UpdateFails, RequestOK
  <2>2. req' \in [Clients -> Requests]
    <3>1. [pc |-> "respond", id |-> req[c].id, task |-> NoTask,
           base |-> NoTask, code |-> 500] \in Requests
      BY <2>1 DEF Requests, PC, Codes
    <3> QED
      BY <1>8, <3>1 DEF UpdateFails, Answer, Goto
  <2>3. orphans' \subseteq Orphans
    BY <1>8, <2>1, OrphanType DEF UpdateFails, GivesUpOn
  <2> QED
    BY <1>8, <2>2, <2>3 DEF UpdateFails
<1>9. ASSUME NEW c \in Clients, NEW id \in Ids, DeleteRow(c, id)
      PROVE  TypeOK'
  <2>1. req' \in [Clients -> Requests]
    BY <1>9, GotoType DEF DeleteRow, PC, Codes
  <2> QED
    BY <1>9, <2>1 DEF DeleteRow, Written
<1>10. ASSUME NEW c \in Clients, NEW id \in Ids, DeleteMissing(c, id)
       PROVE  TypeOK'
  <2>1. req' \in [Clients -> Requests]
    BY <1>10, GotoType DEF DeleteMissing, PC, Codes
  <2> QED
    BY <1>10, <2>1 DEF DeleteMissing, Cleared
<1>11. ASSUME NEW c \in Clients, NEW id \in Ids, DeleteFails(c, id)
       PROVE  TypeOK'
  <2>1. req' \in [Clients -> Requests]
    BY <1>11, AnswerType DEF DeleteFails, Codes
  <2>2. orphans' \subseteq Orphans
    BY <1>11, OrphanType DEF DeleteFails, GivesUpOn
  <2> QED
    BY <1>11, <2>1, <2>2 DEF DeleteFails
<1>12. ASSUME NEW c \in Clients, CacheStore(c) PROVE TypeOK'
  <2>1. req' \in [Clients -> Requests]
    BY <1>12, RequestFields, AnswerType DEF CacheStore
  <2> QED
    BY <1>12, <2>1, RequestFields DEF CacheStore
<1>13. ASSUME NEW c \in Clients, CacheDelete(c) PROVE TypeOK'
  <2>1. req' \in [Clients -> Requests]
    BY <1>13, RequestFields, AnswerType DEF CacheDelete
  <2> QED
    BY <1>13, <2>1 DEF CacheDelete
<1>14. ASSUME NEW c \in Clients, Respond(c) PROVE TypeOK'
  <2>1. Idle \in Requests
    BY DEF Idle, Requests, PC, Codes
  <2> QED
    BY <1>14, <2>1 DEF Respond
<1>15. ASSUME NEW id \in Ids, Evict(id) PROVE TypeOK'
  BY <1>15 DEF Evict, Cleared
<1>16. ASSUME NEW o \in orphans, OrphanCommit(o) PROVE TypeOK'
  <2>1. o.id \in Ids /\ Outcome(o) \in MaybeTask
    BY DEF Outcome, Orphans
  <2> QED
    BY <1>16, <2>1 DEF OrphanCommit
<1>17. ASSUME NEW o \in orphans, OrphanLost(o) PROVE TypeOK'
  BY <1>17 DEF OrphanLost
<1>18. CASE Crash
  <2>1. Idle \in Requests
    BY DEF Idle, Requests, PC, Codes
  <2> QED
    BY <1>18, <2>1 DEF Crash
<1>19. CASE Start
  BY <1>19 DEF Start
<1>20. ASSUME NEW c \in Clients, Reject(c) PROVE TypeOK'
  <2>1. req' \in [Clients -> Requests]
    BY <1>20, AnswerType DEF Reject, Codes
  <2> QED
    BY <1>20, <2>1 DEF Reject
<1>21. CASE UNCHANGED vars
  BY <1>21 DEF vars
<1> QED
  BY <1>1, <1>2, <1>3, <1>4, <1>5, <1>6, <1>7, <1>8, <1>9, <1>10, <1>11,
     <1>12, <1>13, <1>14, <1>15, <1>16, <1>17, <1>18, <1>19, <1>20,
     <1>21, <1>22
  DEF Next, Arrive, Proceed

-----------------------------------------------------------------------------
(***************************************************************************)
(* The rest of the invariant, one lemma for each part.                     *)
(***************************************************************************)
\* Every step keeps what a request knows about its row.
LEMMA RequestStep == TypeOK /\ RequestOK /\ [Next]_vars => RequestOK'
<1> SUFFICES ASSUME TypeOK, RequestOK, [Next]_vars PROVE RequestOK'
  OBVIOUS
<1> USE DEF TypeOK, RequestOK, dbVars, Answer, Goto
<1>22. ASSUME NEW c \in Clients, NEW name \in Names, CreateDraw(c, name)
       PROVE  RequestOK'
  <2>1. CASE Answer(c, 0, 500)
    BY <2>1
  <2>2. CASE /\ nextId <= MaxId
             /\ Goto(c, "repositoryStore", nextId, NewTask(name), NoTask, 0)
    <3>1. nextId \in Ids /\ NewTask(name) \in Tasks
      BY <2>2, ServiceAssumption DEF Ids, NewTask, Tasks, TaskStatus
    <3> QED
      BY <2>2, <3>1
  <2> QED
    BY <1>22, <2>1, <2>2 DEF CreateDraw
<1>1. ASSUME NEW c \in Clients, CreateStore(c) PROVE RequestOK'
  BY <1>1 DEF CreateStore
<1>2. ASSUME NEW c \in Clients, CreateFails(c) PROVE RequestOK'
  BY <1>2 DEF CreateFails
<1>3. ASSUME NEW c \in Clients, NEW id \in Ids, GetLookup(c, id)
      PROVE  RequestOK'
  BY <1>3 DEF GetLookup
<1>4. ASSUME NEW c \in Clients, GetRepository(c) PROVE RequestOK'
  BY <1>4 DEF GetRepository
<1>5. ASSUME NEW c \in Clients, NEW id \in Ids, NEW p \in Params,
             UpdateLoad(c, id, p)
      PROVE  RequestOK'
  <2>1. CASE Answer(c, id, 404) \/ Answer(c, id, 400) \/ Answer(c, id, 500)
    BY <2>1
  <2>2. CASE /\ db[id] # NoTask /\ Permitted(db[id], p)
             /\ Goto(c, "repositoryUpdate", id, Merge(db[id], p), db[id], 0)
    <3>1. /\ db[id] \in Tasks
          /\ Merge(db[id], p) \in Tasks
          /\ LegalMove(db[id].status, Merge(db[id], p).status)
      BY <2>2, MergeIsLegal DEF MaybeTask
    <3> QED
      BY <2>2, <3>1
  <2> QED
    BY <1>5, <2>1, <2>2 DEF UpdateLoad
<1>6. ASSUME NEW c \in Clients, UpdateWrite(c) PROVE RequestOK'
  BY <1>6 DEF UpdateWrite
<1>7. ASSUME NEW c \in Clients, UpdateMissing(c) PROVE RequestOK'
  BY <1>7 DEF UpdateMissing
<1>8. ASSUME NEW c \in Clients, UpdateFails(c) PROVE RequestOK'
  BY <1>8 DEF UpdateFails
<1>9. ASSUME NEW c \in Clients, NEW id \in Ids, DeleteRow(c, id)
      PROVE  RequestOK'
  BY <1>9 DEF DeleteRow
<1>10. ASSUME NEW c \in Clients, NEW id \in Ids, DeleteMissing(c, id)
      PROVE  RequestOK'
  BY <1>10 DEF DeleteMissing
<1>11. ASSUME NEW c \in Clients, NEW id \in Ids, DeleteFails(c, id)
      PROVE  RequestOK'
  BY <1>11 DEF DeleteFails
<1>12. ASSUME NEW c \in Clients, CacheStore(c) PROVE RequestOK'
  BY <1>12 DEF CacheStore
<1>13. ASSUME NEW c \in Clients, CacheDelete(c) PROVE RequestOK'
  BY <1>13 DEF CacheDelete
<1>14. ASSUME NEW c \in Clients, Respond(c) PROVE RequestOK'
  BY <1>14 DEF Respond, Idle
<1>15. ASSUME NEW id \in Ids, Evict(id) PROVE RequestOK'
  BY <1>15 DEF Evict
<1>16. ASSUME NEW o \in orphans, OrphanCommit(o) PROVE RequestOK'
  BY <1>16 DEF OrphanCommit
<1>17. ASSUME NEW o \in orphans, OrphanLost(o) PROVE RequestOK'
  BY <1>17 DEF OrphanLost
<1>18. CASE Crash
  BY <1>18 DEF Crash, Idle
<1>19. CASE Start
  BY <1>19 DEF Start
<1>20. ASSUME NEW c \in Clients, Reject(c) PROVE RequestOK'
  BY <1>20 DEF Reject
<1>21. CASE UNCHANGED vars
  BY <1>21 DEF vars
<1> QED
  BY <1>1, <1>2, <1>3, <1>4, <1>5, <1>6, <1>7, <1>8, <1>9, <1>10, <1>11,
     <1>12, <1>13, <1>14, <1>15, <1>16, <1>17, <1>18, <1>19, <1>20, <1>21,
     <1>22
  DEF Next, Arrive, Proceed

\* Every step keeps what is known of an abandoned UPDATE.
LEMMA OrphanStep == TypeOK /\ RequestOK /\ OrphanOK /\ [Next]_vars => OrphanOK'
<1> SUFFICES ASSUME TypeOK, RequestOK, OrphanOK, [Next]_vars PROVE OrphanOK'
  OBVIOUS
<1> USE DEF TypeOK, OrphanOK, dbVars
<1>22. ASSUME NEW c \in Clients, NEW name \in Names, CreateDraw(c, name)
       PROVE  OrphanOK'
  BY <1>22 DEF CreateDraw
<1>1. ASSUME NEW c \in Clients, CreateStore(c) PROVE OrphanOK'
  BY <1>1 DEF CreateStore
<1>2. ASSUME NEW c \in Clients, CreateFails(c) PROVE OrphanOK'
  BY <1>2 DEF CreateFails, GivesUpOn
<1>3. ASSUME NEW c \in Clients, NEW id \in Ids, GetLookup(c, id)
      PROVE  OrphanOK'
  BY <1>3 DEF GetLookup
<1>4. ASSUME NEW c \in Clients, GetRepository(c) PROVE OrphanOK'
  BY <1>4 DEF GetRepository
<1>5. ASSUME NEW c \in Clients, NEW id \in Ids, NEW p \in Params,
             UpdateLoad(c, id, p)
      PROVE  OrphanOK'
  BY <1>5 DEF UpdateLoad
<1>6. ASSUME NEW c \in Clients, UpdateWrite(c) PROVE OrphanOK'
  BY <1>6 DEF UpdateWrite
<1>7. ASSUME NEW c \in Clients, UpdateMissing(c) PROVE OrphanOK'
  BY <1>7 DEF UpdateMissing
<1>8. ASSUME NEW c \in Clients, UpdateFails(c) PROVE OrphanOK'
  BY <1>8 DEF UpdateFails, GivesUpOn, RequestOK
<1>9. ASSUME NEW c \in Clients, NEW id \in Ids, DeleteRow(c, id)
      PROVE  OrphanOK'
  BY <1>9 DEF DeleteRow
<1>10. ASSUME NEW c \in Clients, NEW id \in Ids, DeleteMissing(c, id)
      PROVE  OrphanOK'
  BY <1>10 DEF DeleteMissing
<1>11. ASSUME NEW c \in Clients, NEW id \in Ids, DeleteFails(c, id)
      PROVE  OrphanOK'
  BY <1>11 DEF DeleteFails, GivesUpOn
<1>12. ASSUME NEW c \in Clients, CacheStore(c) PROVE OrphanOK'
  BY <1>12 DEF CacheStore
<1>13. ASSUME NEW c \in Clients, CacheDelete(c) PROVE OrphanOK'
  BY <1>13 DEF CacheDelete
<1>14. ASSUME NEW c \in Clients, Respond(c) PROVE OrphanOK'
  BY <1>14 DEF Respond
<1>15. ASSUME NEW id \in Ids, Evict(id) PROVE OrphanOK'
  BY <1>15 DEF Evict
<1>16. ASSUME NEW o \in orphans, OrphanCommit(o) PROVE OrphanOK'
  BY <1>16 DEF OrphanCommit
<1>17. ASSUME NEW o \in orphans, OrphanLost(o) PROVE OrphanOK'
  BY <1>17 DEF OrphanLost
<1>18. CASE Crash
  BY <1>18 DEF Crash
<1>19. CASE Start
  BY <1>19 DEF Start
<1>20. ASSUME NEW c \in Clients, Reject(c) PROVE OrphanOK'
  BY <1>20 DEF Reject
<1>21. CASE UNCHANGED vars
  BY <1>21 DEF vars
<1> QED
  BY <1>1, <1>2, <1>3, <1>4, <1>5, <1>6, <1>7, <1>8, <1>9, <1>10, <1>11,
     <1>12, <1>13, <1>14, <1>15, <1>16, <1>17, <1>18, <1>19, <1>20, <1>21,
     <1>22
  DEF Next, Arrive, Proceed

\* A step that only moves goroutines on, none of them to an INSERT, keeps what
\* is known of the sequence.
LEMMA SequenceKept ==
    ASSUME SequenceOK, UNCHANGED <<db, nextId, orphans>>,
           \A d \in Clients : \/ req'[d] = req[d]
                              \/ req'[d].pc # "repositoryStore"
    PROVE  SequenceOK'
BY DEF SequenceOK, At

\* Every step keeps ids unique.
LEMMA SequenceStep ==
    TypeOK /\ RequestOK /\ SequenceOK /\ [Next]_vars => SequenceOK'
<1> SUFFICES ASSUME TypeOK, RequestOK, SequenceOK, [Next]_vars
             PROVE  SequenceOK'
  OBVIOUS
<1> USE ServiceAssumption DEF TypeOK, SequenceOK, dbVars, Orphans, Ids, At,
        Answer, Goto
<1>22. ASSUME NEW c \in Clients, NEW name \in Names, CreateDraw(c, name)
       PROVE  SequenceOK'
  <2>1. CASE Answer(c, 0, 500) /\ nextId' = nextId
    BY <1>22, <2>1 DEF CreateDraw
  <2>2. CASE /\ nextId <= MaxId /\ nextId' = nextId + 1
             /\ Goto(c, "repositoryStore", nextId, NewTask(name), NoTask, 0)
    <3>1. nextId \in Ids /\ nextId \in Nat /\ db[nextId] = NoTask
      BY <2>2
    <3>2. /\ db' = db /\ orphans' = orphans
          /\ req'[c].pc = "repositoryStore" /\ req'[c].id = nextId
          /\ \A d \in Clients : d # c => req'[d] = req[d]
      BY <1>22, <2>2 DEF CreateDraw
    <3>3. /\ \A o \in orphans : o.insert => o.id < nextId
          /\ \A d \in Clients : req[d].pc = "repositoryStore" =>
                req[d].id \in Ids /\ req[d].id < nextId
      BY DEF RequestOK
    <3> QED
      BY <2>2, <3>1, <3>2, <3>3 DEF RequestOK
  <2> QED
    BY <1>22, <2>1, <2>2 DEF CreateDraw
<1>1. ASSUME NEW c \in Clients, CreateStore(c) PROVE SequenceOK'
  BY <1>1 DEF CreateStore, RequestOK
<1>2. ASSUME NEW c \in Clients, CreateFails(c) PROVE SequenceOK'
  <2>1. CASE UNCHANGED orphans
    BY <1>2, <2>1 DEF CreateFails
  <2>2. CASE orphans' # orphans
    <3> DEFINE o == [id |-> req[c].id, task |-> req[c].task,
                     base |-> NoTask, insert |-> TRUE]
    <3>1. /\ o.id = req[c].id /\ orphans' = orphans \cup {o}
          /\ req[c].pc = "repositoryStore" /\ req'[c].pc = "respond"
          /\ \A d \in Clients : d # c => req'[d] = req[d]
          /\ db' = db /\ nextId' = nextId
      BY <1>2, <2>2 DEF CreateFails, GivesUpOn
    <3> HIDE DEF o
    <3> QED
      BY <3>1
  <2> QED
    BY <2>1, <2>2
<1>3. ASSUME NEW c \in Clients, NEW id \in Ids, GetLookup(c, id)
      PROVE  SequenceOK'
  <2>1. UNCHANGED <<db, nextId, orphans>>
    BY <1>3 DEF GetLookup
  <2>2. \A d \in Clients : d # c => req'[d] = req[d]
    BY <1>3 DEF GetLookup
  <2>3. req'[c].pc # "repositoryStore"
    BY <1>3 DEF GetLookup
  <2> HIDE DEF SequenceOK
  <2> QED
    BY <2>1, <2>2, <2>3, SequenceKept
<1>4. ASSUME NEW c \in Clients, GetRepository(c) PROVE SequenceOK'
  <2>1. UNCHANGED <<db, nextId, orphans>>
    BY <1>4 DEF GetRepository
  <2>2. \A d \in Clients : d # c => req'[d] = req[d]
    BY <1>4 DEF GetRepository
  <2>3. req'[c].pc # "repositoryStore"
    BY <1>4 DEF GetRepository
  <2> HIDE DEF SequenceOK
  <2> QED
    BY <2>1, <2>2, <2>3, SequenceKept
<1>5. ASSUME NEW c \in Clients, NEW id \in Ids, NEW p \in Params,
             UpdateLoad(c, id, p)
      PROVE  SequenceOK'
  <2>1. UNCHANGED <<db, nextId, orphans>>
    BY <1>5 DEF UpdateLoad
  <2>2. \A d \in Clients : d # c => req'[d] = req[d]
    BY <1>5 DEF UpdateLoad
  <2>3. req'[c].pc # "repositoryStore"
    BY <1>5 DEF UpdateLoad
  <2> HIDE DEF SequenceOK
  <2> QED
    BY <2>1, <2>2, <2>3, SequenceKept
<1>6. ASSUME NEW c \in Clients, UpdateWrite(c) PROVE SequenceOK'
  BY <1>6 DEF UpdateWrite
<1>7. ASSUME NEW c \in Clients, UpdateMissing(c) PROVE SequenceOK'
  BY <1>7 DEF UpdateMissing
<1>8. ASSUME NEW c \in Clients, UpdateFails(c) PROVE SequenceOK'
  BY <1>8 DEF UpdateFails, GivesUpOn
<1>9. ASSUME NEW c \in Clients, NEW id \in Ids, DeleteRow(c, id)
      PROVE  SequenceOK'
  BY <1>9 DEF DeleteRow
<1>10. ASSUME NEW c \in Clients, NEW id \in Ids, DeleteMissing(c, id)
      PROVE  SequenceOK'
  BY <1>10 DEF DeleteMissing
<1>11. ASSUME NEW c \in Clients, NEW id \in Ids, DeleteFails(c, id)
      PROVE  SequenceOK'
  BY <1>11 DEF DeleteFails, GivesUpOn
<1>12. ASSUME NEW c \in Clients, CacheStore(c) PROVE SequenceOK'
  BY <1>12 DEF CacheStore
<1>13. ASSUME NEW c \in Clients, CacheDelete(c) PROVE SequenceOK'
  BY <1>13 DEF CacheDelete
<1>14. ASSUME NEW c \in Clients, Respond(c) PROVE SequenceOK'
  BY <1>14 DEF Respond, Idle
<1>15. ASSUME NEW id \in Ids, Evict(id) PROVE SequenceOK'
  BY <1>15 DEF Evict
<1>16. ASSUME NEW o \in orphans, OrphanCommit(o) PROVE SequenceOK'
  BY <1>16 DEF OrphanCommit, Outcome
<1>17. ASSUME NEW o \in orphans, OrphanLost(o) PROVE SequenceOK'
  BY <1>17 DEF OrphanLost
<1>18. CASE Crash
  BY <1>18 DEF Crash, Idle
<1>19. CASE Start
  BY <1>19 DEF Start
<1>20. ASSUME NEW c \in Clients, Reject(c) PROVE SequenceOK'
  BY <1>20 DEF Reject
<1>21. CASE UNCHANGED vars
  BY <1>21 DEF vars
<1> QED
  BY <1>1, <1>2, <1>3, <1>4, <1>5, <1>6, <1>7, <1>8, <1>9, <1>10, <1>11,
     <1>12, <1>13, <1>14, <1>15, <1>16, <1>17, <1>18, <1>19, <1>20, <1>21,
     <1>22
  DEF Next, Arrive, Proceed

\* The same of what is known of a 204, if nobody new is told 204.
LEMMA DeleterKept ==
    ASSUME DeleterOK, UNCHANGED <<db, nextId, orphans>>,
           \A d \in Clients : \/ req'[d] = req[d]
                              \/ /\ req'[d].pc # "repositoryStore"
                                 /\ req'[d].code # 204
    PROVE  DeleterOK'
BY DEF DeleterOK, At

\* Every step keeps what a 204 stands for.
LEMMA DeleterStep ==
    TypeOK /\ RequestOK /\ SequenceOK /\ DeleterOK /\ [Next]_vars => DeleterOK'
<1> SUFFICES ASSUME TypeOK, RequestOK, SequenceOK, DeleterOK, [Next]_vars
             PROVE  DeleterOK'
  OBVIOUS
<1> USE ServiceAssumption DEF TypeOK, DeleterOK, dbVars, Answer, Goto, Ids, At
<1>22. ASSUME NEW c \in Clients, NEW name \in Names, CreateDraw(c, name)
       PROVE  DeleterOK'
  <2>1. /\ UNCHANGED <<db, orphans>>
        /\ \A d \in Clients : d # c => req'[d] = req[d]
        /\ req'[c].code # 204
    BY <1>22 DEF CreateDraw
  <2>2. /\ nextId' \in Nat /\ nextId \in Nat /\ nextId <= nextId'
        /\ req'[c].pc = "repositoryStore" => req'[c].id = nextId
    BY <1>22 DEF CreateDraw
  <2> QED
    BY <2>1, <2>2
<1>1. ASSUME NEW c \in Clients, CreateStore(c) PROVE DeleterOK'
  BY <1>1 DEF CreateStore, RequestOK
<1>2. ASSUME NEW c \in Clients, CreateFails(c) PROVE DeleterOK'
  BY <1>2 DEF CreateFails, GivesUpOn
<1>3. ASSUME NEW c \in Clients, NEW id \in Ids, GetLookup(c, id)
      PROVE  DeleterOK'
  <2>1. UNCHANGED <<db, nextId, orphans>>
    BY <1>3 DEF GetLookup
  <2>2. \A d \in Clients : d # c => req'[d] = req[d]
    BY <1>3 DEF GetLookup
  <2>3. req'[c].pc # "repositoryStore" /\ req'[c].code # 204
    BY <1>3 DEF GetLookup
  <2> HIDE DEF DeleterOK
  <2> QED
    BY <2>1, <2>2, <2>3, DeleterKept
<1>4. ASSUME NEW c \in Clients, GetRepository(c) PROVE DeleterOK'
  <2>1. UNCHANGED <<db, nextId, orphans>>
    BY <1>4 DEF GetRepository
  <2>2. \A d \in Clients : d # c => req'[d] = req[d]
    BY <1>4 DEF GetRepository
  <2>3. req'[c].pc # "repositoryStore" /\ req'[c].code # 204
    BY <1>4 DEF GetRepository
  <2> HIDE DEF DeleterOK
  <2> QED
    BY <2>1, <2>2, <2>3, DeleterKept
<1>5. ASSUME NEW c \in Clients, NEW id \in Ids, NEW p \in Params,
             UpdateLoad(c, id, p)
      PROVE  DeleterOK'
  <2>1. UNCHANGED <<db, nextId, orphans>>
    BY <1>5 DEF UpdateLoad
  <2>2. \A d \in Clients : d # c => req'[d] = req[d]
    BY <1>5 DEF UpdateLoad
  <2>3. req'[c].pc # "repositoryStore" /\ req'[c].code # 204
    BY <1>5 DEF UpdateLoad
  <2> HIDE DEF DeleterOK
  <2> QED
    BY <2>1, <2>2, <2>3, DeleterKept
<1>6. ASSUME NEW c \in Clients, UpdateWrite(c) PROVE DeleterOK'
  BY <1>6 DEF UpdateWrite, RequestOK
<1>7. ASSUME NEW c \in Clients, UpdateMissing(c) PROVE DeleterOK'
  BY <1>7 DEF UpdateMissing
<1>8. ASSUME NEW c \in Clients, UpdateFails(c) PROVE DeleterOK'
  BY <1>8 DEF UpdateFails, GivesUpOn
<1>9. ASSUME NEW c \in Clients, NEW id \in Ids, DeleteRow(c, id)
      PROVE  DeleterOK'
  <2>1. /\ db[id] # NoTask /\ db' = [db EXCEPT ![id] = NoTask]
        /\ UNCHANGED <<nextId, orphans>>
        /\ \A d \in Clients : d # c => req'[d] = req[d]
        /\ req'[c].id = id /\ req'[c].pc = "cacheDelete"
    BY <1>9 DEF DeleteRow
  <2>2. /\ id < nextId
        /\ \A o \in orphans : ~(o.insert /\ o.id = id)
        /\ \A d \in Clients : ~At(d, "repositoryStore", id)
    BY <2>1 DEF SequenceOK
  <2>3. \A d \in Clients : ~At(d, "repositoryStore", id)'
    BY <2>1, <2>2
  <2>4. ASSUME NEW d \in Clients, d # c, req'[d].code = 204
        PROVE  /\ req[d].id \in Ids /\ req[d].id < nextId
               /\ db'[req[d].id] = NoTask
               /\ \A o \in orphans : ~(o.insert /\ o.id = req[d].id)
               /\ \A e \in Clients : ~At(e, "repositoryStore", req[d].id)'
    BY <2>1, <2>4
  <2>5. db'[id] = NoTask
    BY <2>1
  <2> QED
    BY <2>1, <2>2, <2>3, <2>4, <2>5
<1>10. ASSUME NEW c \in Clients, NEW id \in Ids, DeleteMissing(c, id)
      PROVE  DeleterOK'
  BY <1>10 DEF DeleteMissing
<1>11. ASSUME NEW c \in Clients, NEW id \in Ids, DeleteFails(c, id)
      PROVE  DeleterOK'
  BY <1>11 DEF DeleteFails, GivesUpOn
<1>12. ASSUME NEW c \in Clients, CacheStore(c) PROVE DeleterOK'
  BY <1>12 DEF CacheStore
<1>13. ASSUME NEW c \in Clients, CacheDelete(c) PROVE DeleterOK'
  BY <1>13 DEF CacheDelete
<1>14. ASSUME NEW c \in Clients, Respond(c) PROVE DeleterOK'
  BY <1>14 DEF Respond, Idle
<1>15. ASSUME NEW id \in Ids, Evict(id) PROVE DeleterOK'
  BY <1>15 DEF Evict
<1>16. ASSUME NEW o \in orphans, OrphanCommit(o) PROVE DeleterOK'
  BY <1>16 DEF OrphanCommit, Outcome, Orphans
<1>17. ASSUME NEW o \in orphans, OrphanLost(o) PROVE DeleterOK'
  BY <1>17 DEF OrphanLost
<1>18. CASE Crash
  BY <1>18 DEF Crash, Idle
<1>19. CASE Start
  BY <1>19 DEF Start
<1>20. ASSUME NEW c \in Clients, Reject(c) PROVE DeleterOK'
  BY <1>20 DEF Reject
<1>21. CASE UNCHANGED vars
  BY <1>21 DEF vars
<1> QED
  BY <1>1, <1>2, <1>3, <1>4, <1>5, <1>6, <1>7, <1>8, <1>9, <1>10, <1>11,
     <1>12, <1>13, <1>14, <1>15, <1>16, <1>17, <1>18, <1>19, <1>20, <1>21,
     <1>22
  DEF Next, Arrive, Proceed

\* Only a goroutine that finds a row is told 204, and then nobody else was.
LEMMA OneDeleterStep ==
    TypeOK /\ DeleterOK /\ OneDeleterWins /\ [Next]_vars => OneDeleterWins'
<1> SUFFICES ASSUME TypeOK, DeleterOK, OneDeleterWins, [Next]_vars
             PROVE  OneDeleterWins'
  OBVIOUS
<1> USE DEF TypeOK, OneDeleterWins, dbVars, Answer, Goto
<1>22. ASSUME NEW c \in Clients, NEW name \in Names, CreateDraw(c, name)
       PROVE  OneDeleterWins'
  BY <1>22 DEF CreateDraw
<1>1. ASSUME NEW c \in Clients, CreateStore(c) PROVE OneDeleterWins'
  BY <1>1 DEF CreateStore
<1>2. ASSUME NEW c \in Clients, CreateFails(c) PROVE OneDeleterWins'
  BY <1>2 DEF CreateFails
<1>3. ASSUME NEW c \in Clients, NEW id \in Ids, GetLookup(c, id)
      PROVE  OneDeleterWins'
  BY <1>3 DEF GetLookup
<1>4. ASSUME NEW c \in Clients, GetRepository(c) PROVE OneDeleterWins'
  BY <1>4 DEF GetRepository
<1>5. ASSUME NEW c \in Clients, NEW id \in Ids, NEW p \in Params,
             UpdateLoad(c, id, p)
      PROVE  OneDeleterWins'
  BY <1>5 DEF UpdateLoad
<1>6. ASSUME NEW c \in Clients, UpdateWrite(c) PROVE OneDeleterWins'
  BY <1>6 DEF UpdateWrite
<1>7. ASSUME NEW c \in Clients, UpdateMissing(c) PROVE OneDeleterWins'
  BY <1>7 DEF UpdateMissing
<1>8. ASSUME NEW c \in Clients, UpdateFails(c) PROVE OneDeleterWins'
  BY <1>8 DEF UpdateFails
<1>9. ASSUME NEW c \in Clients, NEW id \in Ids, DeleteRow(c, id)
      PROVE  OneDeleterWins'
  BY <1>9 DEF DeleteRow, DeleterOK
<1>10. ASSUME NEW c \in Clients, NEW id \in Ids, DeleteMissing(c, id)
      PROVE  OneDeleterWins'
  BY <1>10 DEF DeleteMissing
<1>11. ASSUME NEW c \in Clients, NEW id \in Ids, DeleteFails(c, id)
      PROVE  OneDeleterWins'
  BY <1>11 DEF DeleteFails
<1>12. ASSUME NEW c \in Clients, CacheStore(c) PROVE OneDeleterWins'
  BY <1>12 DEF CacheStore
<1>13. ASSUME NEW c \in Clients, CacheDelete(c) PROVE OneDeleterWins'
  BY <1>13 DEF CacheDelete
<1>14. ASSUME NEW c \in Clients, Respond(c) PROVE OneDeleterWins'
  BY <1>14 DEF Respond, Idle
<1>15. ASSUME NEW id \in Ids, Evict(id) PROVE OneDeleterWins'
  BY <1>15 DEF Evict
<1>16. ASSUME NEW o \in orphans, OrphanCommit(o) PROVE OneDeleterWins'
  BY <1>16 DEF OrphanCommit
<1>17. ASSUME NEW o \in orphans, OrphanLost(o) PROVE OneDeleterWins'
  BY <1>17 DEF OrphanLost
<1>18. CASE Crash
  BY <1>18 DEF Crash, Idle
<1>19. CASE Start
  BY <1>19 DEF Start
<1>20. ASSUME NEW c \in Clients, Reject(c) PROVE OneDeleterWins'
  BY <1>20 DEF Reject
<1>21. CASE UNCHANGED vars
  BY <1>21 DEF vars
<1> QED
  BY <1>1, <1>2, <1>3, <1>4, <1>5, <1>6, <1>7, <1>8, <1>9, <1>10, <1>11,
     <1>12, <1>13, <1>14, <1>15, <1>16, <1>17, <1>18, <1>19, <1>20, <1>21,
     <1>22
  DEF Next, Arrive, Proceed

\* Every step keeps pending cache.Store calls on clean rows up to date.
LEMMA StoringStep ==
    TypeOK /\ RequestOK /\ StoringOK /\ [Next]_vars => StoringOK'
<1> SUFFICES ASSUME TypeOK, RequestOK, StoringOK, [Next]_vars PROVE StoringOK'
  OBVIOUS
<1> USE DEF TypeOK, StoringOK, dbVars, Answer, Goto, Storing, At
<1>22. ASSUME NEW c \in Clients, NEW name \in Names, CreateDraw(c, name)
       PROVE  StoringOK'
  BY <1>22 DEF CreateDraw
<1>1. ASSUME NEW c \in Clients, CreateStore(c) PROVE StoringOK'
  BY <1>1 DEF CreateStore, Written, RequestOK
<1>2. ASSUME NEW c \in Clients, CreateFails(c) PROVE StoringOK'
  BY <1>2 DEF CreateFails
<1>3. ASSUME NEW c \in Clients, NEW id \in Ids, GetLookup(c, id)
      PROVE  StoringOK'
  BY <1>3 DEF GetLookup
<1>4. ASSUME NEW c \in Clients, GetRepository(c) PROVE StoringOK'
  BY <1>4 DEF GetRepository
<1>5. ASSUME NEW c \in Clients, NEW id \in Ids, NEW p \in Params,
             UpdateLoad(c, id, p)
      PROVE  StoringOK'
  BY <1>5 DEF UpdateLoad
<1>6. ASSUME NEW c \in Clients, UpdateWrite(c) PROVE StoringOK'
  BY <1>6 DEF UpdateWrite, Written
<1>7. ASSUME NEW c \in Clients, UpdateMissing(c) PROVE StoringOK'
  BY <1>7 DEF UpdateMissing, Cleared
<1>8. ASSUME NEW c \in Clients, UpdateFails(c) PROVE StoringOK'
  BY <1>8 DEF UpdateFails
<1>9. ASSUME NEW c \in Clients, NEW id \in Ids, DeleteRow(c, id)
      PROVE  StoringOK'
  BY <1>9 DEF DeleteRow, Written
<1>10. ASSUME NEW c \in Clients, NEW id \in Ids, DeleteMissing(c, id)
      PROVE  StoringOK'
  BY <1>10 DEF DeleteMissing, Cleared
<1>11. ASSUME NEW c \in Clients, NEW id \in Ids, DeleteFails(c, id)
      PROVE  StoringOK'
  BY <1>11 DEF DeleteFails
<1>12. ASSUME NEW c \in Clients, CacheStore(c) PROVE StoringOK'
  BY <1>12 DEF CacheStore
<1>13. ASSUME NEW c \in Clients, CacheDelete(c) PROVE StoringOK'
  BY <1>13 DEF CacheDelete
<1>14. ASSUME NEW c \in Clients, Respond(c) PROVE StoringOK'
  BY <1>14 DEF Respond, Idle
<1>15. ASSUME NEW id \in Ids, Evict(id) PROVE StoringOK'
  BY <1>15 DEF Evict, Cleared
<1>16. ASSUME NEW o \in orphans, OrphanCommit(o) PROVE StoringOK'
  BY <1>16 DEF OrphanCommit, Outcome
<1>17. ASSUME NEW o \in orphans, OrphanLost(o) PROVE StoringOK'
  BY <1>17 DEF OrphanLost
<1>18. CASE Crash
  BY <1>18 DEF Crash, Idle
<1>19. CASE Start
  BY <1>19 DEF Start
<1>20. ASSUME NEW c \in Clients, Reject(c) PROVE StoringOK'
  BY <1>20 DEF Reject
<1>21. CASE UNCHANGED vars
  BY <1>21 DEF vars
<1> QED
  BY <1>1, <1>2, <1>3, <1>4, <1>5, <1>6, <1>7, <1>8, <1>9, <1>10, <1>11,
     <1>12, <1>13, <1>14, <1>15, <1>16, <1>17, <1>18, <1>19, <1>20, <1>21,
     <1>22
  DEF Next, Arrive, Proceed

\* Every step keeps the cache coherent.
LEMMA CoherentStep ==
    TypeOK /\ RequestOK /\ StoringOK /\ Coherent /\ [Next]_vars => Coherent'
<1> SUFFICES ASSUME TypeOK, RequestOK, StoringOK, Coherent, [Next]_vars
             PROVE  Coherent'
  OBVIOUS
<1> USE DEF TypeOK, Coherent, dbVars, Accepts, Answer, Goto, Busy, Storing, At
<1>22. ASSUME NEW c \in Clients, NEW name \in Names, CreateDraw(c, name)
       PROVE  Coherent'
  BY <1>22 DEF CreateDraw
<1>1. ASSUME NEW c \in Clients, CreateStore(c) PROVE Coherent'
  BY <1>1 DEF CreateStore, Written
<1>2. ASSUME NEW c \in Clients, CreateFails(c) PROVE Coherent'
  BY <1>2 DEF CreateFails
<1>3. ASSUME NEW c \in Clients, NEW id \in Ids, GetLookup(c, id)
      PROVE  Coherent'
  BY <1>3 DEF GetLookup
<1>4. ASSUME NEW c \in Clients, GetRepository(c) PROVE Coherent'
  BY <1>4 DEF GetRepository
<1>5. ASSUME NEW c \in Clients, NEW id \in Ids, NEW p \in Params,
             UpdateLoad(c, id, p)
      PROVE  Coherent'
  BY <1>5 DEF UpdateLoad
<1>6. ASSUME NEW c \in Clients, UpdateWrite(c) PROVE Coherent'
  BY <1>6 DEF UpdateWrite, Written
<1>7. ASSUME NEW c \in Clients, UpdateMissing(c) PROVE Coherent'
  BY <1>7 DEF UpdateMissing, Cleared
<1>8. ASSUME NEW c \in Clients, UpdateFails(c) PROVE Coherent'
  BY <1>8 DEF UpdateFails
<1>9. ASSUME NEW c \in Clients, NEW id \in Ids, DeleteRow(c, id)
      PROVE  Coherent'
  BY <1>9 DEF DeleteRow, Written
<1>10. ASSUME NEW c \in Clients, NEW id \in Ids, DeleteMissing(c, id)
      PROVE  Coherent'
  BY <1>10 DEF DeleteMissing, Cleared
<1>11. ASSUME NEW c \in Clients, NEW id \in Ids, DeleteFails(c, id)
      PROVE  Coherent'
  BY <1>11 DEF DeleteFails
<1>12. ASSUME NEW c \in Clients, CacheStore(c) PROVE Coherent'
  BY <1>12 DEF CacheStore, StoringOK
<1>13. ASSUME NEW c \in Clients, CacheDelete(c) PROVE Coherent'
  BY <1>13 DEF CacheDelete
<1>14. ASSUME NEW c \in Clients, Respond(c) PROVE Coherent'
  BY <1>14 DEF Respond, Idle
<1>15. ASSUME NEW id \in Ids, Evict(id) PROVE Coherent'
  BY <1>15 DEF Evict, Cleared
<1>16. ASSUME NEW o \in orphans, OrphanCommit(o) PROVE Coherent'
  BY <1>16 DEF OrphanCommit, Outcome
<1>17. ASSUME NEW o \in orphans, OrphanLost(o) PROVE Coherent'
  BY <1>17 DEF OrphanLost
<1>18. CASE Crash
  BY <1>18 DEF Crash, Idle
<1>19. CASE Start
  BY <1>19 DEF Start
<1>20. ASSUME NEW c \in Clients, Reject(c) PROVE Coherent'
  BY <1>20 DEF Reject
<1>21. CASE UNCHANGED vars
  BY <1>21 DEF vars
<1> QED
  BY <1>1, <1>2, <1>3, <1>4, <1>5, <1>6, <1>7, <1>8, <1>9, <1>10, <1>11,
     <1>12, <1>13, <1>14, <1>15, <1>16, <1>17, <1>18, <1>19, <1>20, <1>21,
     <1>22
  DEF Next, Arrive, Proceed

-----------------------------------------------------------------------------
(***************************************************************************)
(* The theorems.                                                           *)
(***************************************************************************)
\* The four steps that write the table; no other step touches it.
LEMMA RowWriters ==
    ASSUME Next
    PROVE  \/ UNCHANGED db
           \/ \E c \in Clients : CreateStore(c) \/ UpdateWrite(c)
           \/ \E c \in Clients, id \in Ids : DeleteRow(c, id)
           \/ \E o \in orphans : OrphanCommit(o)
<1>1. ASSUME NEW c \in Clients, Arrive(c)
      PROVE  \/ UNCHANGED db
             \/ \E id \in Ids : DeleteRow(c, id)
  BY <1>1 DEF Arrive, Reject, CreateDraw, GetLookup, UpdateLoad,
              DeleteMissing, DeleteFails, dbVars
<1>2. ASSUME NEW c \in Clients, Proceed(c)
      PROVE  UNCHANGED db \/ CreateStore(c) \/ UpdateWrite(c)
  BY <1>2 DEF Proceed, CreateFails, GetRepository, UpdateMissing,
              UpdateFails, CacheStore, CacheDelete, Respond, dbVars
<1>3. ASSUME \/ \E id \in Ids : Evict(id)
             \/ \E o \in orphans : OrphanLost(o)
             \/ Crash \/ Start
      PROVE  UNCHANGED db
  BY <1>3 DEF Evict, OrphanLost, Crash, Start, dbVars
<1> QED
  BY <1>1, <1>2, <1>3 DEF Next

\* The inductive invariant holds in every reachable state.
THEOREM Invariance == Spec => []IndInv
<1>1. Init => IndInv
  <2> SUFFICES ASSUME Init PROVE IndInv
    OBVIOUS
  <2> USE DEF Init
  <2>1. TypeOK
    <3>1. Idle \in Requests
      BY TaskTypes, IdTypes DEF Idle, Requests, PC, Codes
    <3>2. nextId \in 1..(MaxId + 1)
      BY ServiceAssumption
    <3> QED
      BY <3>1, <3>2, TaskTypes DEF TypeOK
  <2>2. RequestOK /\ OrphanOK /\ DeleterOK /\ OneDeleterWins
    BY DEF RequestOK, OrphanOK, DeleterOK, OneDeleterWins, Idle
  <2>3. SequenceOK /\ StoringOK /\ Coherent
    BY DEF SequenceOK, StoringOK, Coherent, Storing, At, Idle
  <2> QED
    BY <2>1, <2>2, <2>3 DEF IndInv
<1>2. IndInv /\ [Next]_vars => IndInv'
  BY TypeStep, RequestStep, OrphanStep, SequenceStep, DeleterStep,
     OneDeleterStep, StoringStep, CoherentStep
  DEF IndInv
<1> QED
  BY <1>1, <1>2, PTL DEF Spec

\* Type correctness of the service, its table and its cache.
THEOREM TypeCorrect == Spec => []TypeOK
<1>1. IndInv => TypeOK
  BY DEF IndInv
<1> QED
  BY <1>1, Invariance, PTL

\* The cache is coherent: only a write behind a pending cache.Store, or the
\* late commit of a statement that was given up on, leaves a stale entry.
THEOREM CacheCoherence == Spec => []Coherent
<1>1. IndInv => Coherent
  BY DEF IndInv
<1> QED
  BY <1>1, Invariance, PTL

\* Of the goroutines that delete a task at the same time, one is told 204.
THEOREM SingleDeleter == Spec => []OneDeleterWins
<1>1. IndInv => OneDeleterWins
  BY DEF IndInv
<1> QED
  BY <1>1, Invariance, PTL

\* No Update and no late statement brings a deleted row back.
THEOREM NoResurrection == Spec => DeletedRowStaysDeleted
<1> DEFINE Kept == \A id \in Ids :
                      /\ id < nextId
                      /\ db[id] = NoTask
                      /\ id \notin Held
                      => db'[id] = NoTask
<1>1. IndInv /\ [Next]_vars => [Kept]_vars
  <2> SUFFICES ASSUME IndInv, Next,
                      NEW id \in Ids, id < nextId, db[id] = NoTask,
                      id \notin Held
               PROVE  db'[id] = NoTask
    BY DEF vars
  <2>1. TypeOK
    BY DEF IndInv
  <2>2. CASE UNCHANGED db
    BY <2>2
  <2>3. ASSUME NEW c \in Clients, CreateStore(c)
        PROVE  db'[id] = NoTask
    <3>1. req[c].id # id
      BY <2>3 DEF CreateStore, Held, Inserting
    <3> QED
      BY <2>1, <2>3, <3>1 DEF CreateStore, TypeOK
  <2>4. ASSUME NEW c \in Clients, UpdateWrite(c)
        PROVE  db'[id] = NoTask
    BY <2>1, <2>4 DEF UpdateWrite, TypeOK
  <2>5. ASSUME NEW c \in Clients, NEW i \in Ids, DeleteRow(c, i)
        PROVE  db'[id] = NoTask
    BY <2>1, <2>5 DEF DeleteRow, TypeOK
  <2>6. ASSUME NEW o \in orphans, OrphanCommit(o)
        PROVE  db'[id] = NoTask
    <3>1. o.insert => o.id # id
      BY DEF Held
    <3> QED
      BY <2>1, <2>6, <3>1 DEF OrphanCommit, Outcome, TypeOK
  <2> QED
    BY <2>2, <2>3, <2>4, <2>5, <2>6, RowWriters
<1> QED
  BY <1>1, Invariance, PTL DEF Spec, DeletedRowStaysDeleted

\* Only a writer with an out-of-date row gets around the task lifecycle.
THEOREM LifecycleEnforced == Spec => LifecycleGuarded
<1> DEFINE Guarded ==
      \A id \in Ids :
          db[id] # NoTask /\ db'[id] # NoTask =>
             \/ LegalMove(db[id].status, db'[id].status)
             \/ \E c \in Clients : /\ At(c, "repositoryUpdate", id)
                                   /\ req'[c] # req[c]
                                   /\ req[c].base # db[id]
             \/ \E o \in orphans \ orphans' : o.id = id /\ o.base # db[id]
<1>1. IndInv /\ [Next]_vars => [Guarded]_vars
  <2> SUFFICES ASSUME IndInv, Next, NEW id \in Ids,
                      db[id] # NoTask, db'[id] # NoTask
               PROVE  \/ LegalMove(db[id].status, db'[id].status)
                      \/ \E c \in Clients : /\ At(c, "repositoryUpdate", id)
                                            /\ req'[c] # req[c]
                                            /\ req[c].base # db[id]
                      \/ \E o \in orphans \ orphans' :
                            o.id = id /\ o.base # db[id]
    BY DEF vars
  <2>1. /\ TypeOK /\ RequestOK /\ OrphanOK /\ SequenceOK
        /\ id < nextId /\ nextId \in Nat /\ id \in Nat
    BY ServiceAssumption DEF IndInv, SequenceOK, TypeOK, Ids
  <2>2. CASE db'[id] = db[id]
    BY <2>2 DEF LegalMove
  <2>3. ASSUME NEW c \in Clients, CreateStore(c)
        PROVE  db'[id] = db[id]
    <3>1. req[c].id # id
      BY <2>1, <2>3 DEF CreateStore, SequenceOK
    <3> QED
      BY <2>1, <2>3, <3>1 DEF CreateStore, TypeOK
  <2>4. ASSUME NEW c \in Clients, UpdateWrite(c), db'[id] # db[id]
        PROVE  \/ LegalMove(db[id].status, db'[id].status)
               \/ /\ At(c, "repositoryUpdate", id)
                  /\ req'[c] # req[c]
                  /\ req[c].base # db[id]
    <3>1. At(c, "repositoryUpdate", id) /\ db'[id] = req[c].task
      BY <2>1, <2>4 DEF UpdateWrite, TypeOK, At
    <3>2. LegalMove(req[c].base.status, req[c].task.status)
      BY <2>1, <3>1 DEF RequestOK, At
    <3>3. req'[c].pc = "cacheStore"
      BY <2>1, <2>4 DEF UpdateWrite, Goto, TypeOK
    <3> QED
      BY <3>1, <3>2, <3>3 DEF At
  <2>5. ASSUME NEW c \in Clients, NEW i \in Ids, DeleteRow(c, i)
        PROVE  db'[id] = db[id]
    BY <2>1, <2>5 DEF DeleteRow, TypeOK
  <2>6. ASSUME NEW o \in orphans, OrphanCommit(o), db'[id] # db[id]
        PROVE  \/ LegalMove(db[id].status, db'[id].status)
               \/ o \in orphans \ orphans' /\ o.id = id /\ o.base # db[id]
    <3>1. o.id = id /\ db'[id] = o.task /\ o \in orphans \ orphans'
      BY <2>1, <2>6 DEF OrphanCommit, Outcome, TypeOK
    <3>2. ~o.insert
      BY <2>1, <3>1 DEF SequenceOK
    <3>3. LegalMove(o.base.status, o.task.status)
      BY <2>1, <3>1, <3>2 DEF OrphanOK
    <3> QED
      BY <3>1, <3>3
  <2>7. CASE UNCHANGED db
    BY <2>2, <2>7
  <2> QED
    BY <2>2, <2>3, <2>4, <2>5, <2>6, <2>7, RowWriters
<1> QED
  BY <1>1, Invariance, PTL DEF Spec, LifecycleGuarded
-----------------------------------------------------------------------------
(***************************************************************************)
(* The service implements TaskTable.                                       *)
(***************************************************************************)
Fresh == {NewTask(name) : name \in Names}

\* An INSERT that has not committed is one of a new task.
InsertOK ==
    /\ \A o \in orphans : o.insert => o.task \in Fresh
    /\ \A c \in Inserting : req[c].task \in Fresh

\* What does not concern INSERTs holds and frees no id.
LEMMA HeldKept ==
    ASSUME orphans' \subseteq orphans \/ orphans \subseteq orphans',
           \A o \in orphans' \ orphans : ~o.insert,
           \A o \in orphans \ orphans' : ~o.insert,
           \A c \in Clients : \/ req'[c] = req[c]
                              \/ "repositoryStore" \notin
                                    {req[c].pc, req'[c].pc}
    PROVE  Held' = Held
<1>1. /\ Inserting' = Inserting
      /\ \A c \in Inserting : req'[c] = req[c]
  BY DEF Inserting
<1>2. {o \in orphans' : o.insert} = {o \in orphans : o.insert}
  OBVIOUS
<1>3. {req'[c].id : c \in Inserting'} = {req[c].id : c \in Inserting}
  BY <1>1
<1> QED
  BY <1>2, <1>3 DEF Held

\* Every step keeps it.
LEMMA InsertStep == TypeOK /\ InsertOK /\ [Next]_vars => InsertOK'
<1> SUFFICES ASSUME TypeOK, InsertOK, [Next]_vars PROVE InsertOK'
  OBVIOUS
<1> USE DEF TypeOK, InsertOK, Inserting, dbVars, Answer, Goto
<1>1. ASSUME NEW c \in Clients, NEW name \in Names, CreateDraw(c, name)
      PROVE  InsertOK'
  <2>1. NewTask(name) \in Fresh
    BY DEF Fresh
  <2> QED
    BY <1>1, <2>1 DEF CreateDraw
<1>2. ASSUME NEW c \in Clients, CreateFails(c) PROVE InsertOK'
  BY <1>2 DEF CreateFails, GivesUpOn
<1>3. ASSUME NEW c \in Clients, UpdateFails(c) PROVE InsertOK'
  BY <1>3 DEF UpdateFails, GivesUpOn
<1>4. ASSUME NEW c \in Clients, NEW id \in Ids, DeleteFails(c, id)
      PROVE  InsertOK'
  BY <1>4 DEF DeleteFails, GivesUpOn
<1>5. ASSUME orphans' \subseteq orphans,
             \A c \in Clients : req'[c].pc = "repositoryStore" =>
                                   req'[c] = req[c]
      PROVE  InsertOK'
  BY <1>5
<1>6. ASSUME NEW c \in Clients,
             \/ Reject(c) \/ CreateStore(c) \/ GetRepository(c)
             \/ UpdateWrite(c) \/ UpdateMissing(c) \/ CacheStore(c)
             \/ CacheDelete(c) \/ Respond(c)
             \/ \E id \in Ids : \/ GetLookup(c, id) \/ DeleteRow(c, id)
                                \/ DeleteMissing(c, id)
                                \/ \E p \in Params : UpdateLoad(c, id, p)
      PROVE  /\ orphans' = orphans
             /\ \A d \in Clients : req'[d].pc = "repositoryStore" =>
                                      req'[d] = req[d]
  BY <1>6 DEF Reject, CreateStore, GetRepository, UpdateWrite, UpdateMissing,
              CacheStore, CacheDelete, Respond, Idle, GetLookup, DeleteRow,
              DeleteMissing, UpdateLoad
<1>7. ASSUME \/ \E id \in Ids : Evict(id)
             \/ \E o \in orphans : OrphanCommit(o) \/ OrphanLost(o)
             \/ Crash \/ Start \/ UNCHANGED vars
      PROVE  /\ orphans' \subseteq orphans
             /\ \A d \in Clients : req'[d].pc = "repositoryStore" =>
                                      req'[d] = req[d]
  BY <1>7 DEF Evict, OrphanCommit, OrphanLost, Crash, Idle, Start, vars
<1> HIDE DEF InsertOK
<1> QED
  BY <1>1, <1>2, <1>3, <1>4, <1>5, <1>6, <1>7 DEF Next, Arrive, Proceed

\* A step that changes no request of a running INSERT.
InsertsRunOn ==
    \A c \in Clients : \/ req'[c] = req[c]
                       \/ "repositoryStore" \notin {req[c].pc, req'[c].pc}

\* The steps that touch the table, its sequence or the statements it holds.
LEMMA TableWriters ==
    ASSUME TypeOK, [Next]_vars
    PROVE  \/ UNCHANGED dbVars /\ InsertsRunOn
           \/ \E c \in Clients :
                \/ \E name \in Names : CreateDraw(c, name)
                \/ CreateStore(c) \/ CreateFails(c)
                \/ UpdateWrite(c) \/ UpdateFails(c)
                \/ \E id \in Ids : DeleteRow(c, id) \/ DeleteFails(c, id)
           \/ \E o \in orphans : OrphanCommit(o) \/ OrphanLost(o)
           \/ Crash
<1> USE DEF TypeOK, InsertsRunOn, dbVars, Answer, Goto, Accepts
<1>1. ASSUME NEW c \in Clients,
             \/ Reject(c) \/ GetRepository(c) \/ UpdateMissing(c)
             \/ CacheStore(c) \/ CacheDelete(c) \/ Respond(c)
             \/ \E id \in Ids : \/ GetLookup(c, id) \/ DeleteMissing(c, id)
                                \/ \E p \in Params : UpdateLoad(c, id, p)
      PROVE  UNCHANGED dbVars /\ InsertsRunOn
  BY <1>1 DEF Reject, GetRepository, UpdateMissing, CacheStore, CacheDelete,
              Respond, Idle, GetLookup, DeleteMissing, UpdateLoad
<1>2. ASSUME \/ \E id \in Ids : Evict(id)
             \/ Start \/ UNCHANGED vars
      PROVE  UNCHANGED dbVars /\ InsertsRunOn
  BY <1>2 DEF Evict, Start, vars
<1> HIDE DEF InsertsRunOn, dbVars
<1> QED
  BY <1>1, <1>2 DEF Next, Arrive, Proceed

\* The service, with all its requests, late statements, crashes and restarts,
\* does to the table only what TaskTable allows.
THEOREM ServiceImplementsTable == Spec => TableSpec
<1>1. Init => Table!TableInit /\ InsertOK
  BY DEF Init, Table!TableInit, Table!Ids, Ids, Held, Inserting, Idle,
         InsertOK
<1>2. IndInv /\ InsertOK /\ [Next]_vars => [Table!TableNext]_(Table!tableVars)
  <2> SUFFICES ASSUME IndInv, InsertOK, [Next]_vars
               PROVE  Table!TableNext \/ UNCHANGED <<db, nextId, Held>>
    BY DEF Table!tableVars
  <2>1. TypeOK /\ RequestOK /\ SequenceOK /\ Held \subseteq Ids
    <3>1. TypeOK /\ RequestOK /\ SequenceOK
      BY DEF IndInv
    <3>2. \A c \in Inserting : req[c].id \in Ids
      BY <3>1 DEF RequestOK, Inserting
    <3>3. \A o \in orphans : o.id \in Ids
      BY <3>1 DEF TypeOK, Orphans
    <3> QED
      BY <3>1, <3>2, <3>3 DEF Held
  <2>2. CASE UNCHANGED dbVars /\ InsertsRunOn
    <3>1. Held' = Held
      BY <2>2, HeldKept DEF dbVars, InsertsRunOn
    <3> QED
      BY <2>2, <3>1 DEF dbVars
  <2>3. ASSUME NEW c \in Clients, NEW name \in Names, CreateDraw(c, name)
        PROVE  Table!Draw \/ UNCHANGED <<db, nextId, Held>>
    <3>1. /\ req[c].pc = "idle" /\ db' = db /\ orphans' = orphans
          /\ \A d \in Clients : d # c => req'[d] = req[d]
      BY <2>1, <2>3 DEF CreateDraw, Accepts, Answer, Goto, TypeOK
    <3>2. CASE Answer(c, 0, 500) /\ nextId' = nextId
      <4>1. req'[c].pc = "respond"
        BY <2>1, <3>2 DEF Answer, Goto, TypeOK
      <4>2. Held' = Held
        BY <3>1, <4>1, HeldKept
      <4> QED
        BY <3>1, <3>2, <4>2
    <3>3. CASE /\ nextId <= MaxId /\ nextId' = nextId + 1
               /\ Goto(c, "repositoryStore", nextId, NewTask(name), NoTask, 0)
      <4>1. req'[c].pc = "repositoryStore" /\ req'[c].id = nextId
        BY <2>1, <3>3 DEF Goto, TypeOK
      <4>2. /\ Inserting' = Inserting \cup {c} /\ c \notin Inserting
            /\ \A d \in Inserting : req'[d].id = req[d].id
        BY <3>1, <4>1 DEF Inserting
      <4>3. {req'[d].id : d \in Inserting'}
              = {req[d].id : d \in Inserting} \cup {nextId}
        BY <4>1, <4>2
      <4>4. Held' = Held \cup {nextId}
        BY <3>1, <4>3 DEF Held
      <4> QED
        BY <3>1, <3>3, <4>4 DEF Table!Draw
    <3> QED
      BY <2>3, <3>2, <3>3 DEF CreateDraw
  <2>4. ASSUME NEW c \in Clients, req[c].pc = "repositoryStore",
               req'[c].pc # "repositoryStore",
               \A d \in Clients : d # c => req'[d] = req[d]
        PROVE  /\ req[c].id \in Held /\ req[c].task \in Fresh
               /\ orphans' = orphans => Held' = Held \ {req[c].id}
               /\ \A o : /\ o.insert /\ o.id = req[c].id
                         /\ orphans' = orphans \cup {o}
                         => Held' = Held
    <3>1. /\ c \in Inserting /\ Inserting' = Inserting \ {c}
          /\ \A d \in Inserting' : req'[d].id = req[d].id
      BY <2>4 DEF Inserting
    <3>2. \A d \in Inserting' : req[d].id # req[c].id
      BY <2>1, <2>4, <3>1 DEF SequenceOK, Inserting, At
    <3>3. \A o \in orphans : o.insert => o.id # req[c].id
      BY <2>1, <2>4 DEF SequenceOK, At
    <3>4. {req'[d].id : d \in Inserting'}
            = {req[d].id : d \in Inserting} \ {req[c].id}
      BY <3>1, <3>2
    <3>5. req[c].id \in {req[d].id : d \in Inserting}
      BY <3>1
    <3>6. orphans' = orphans => Held' = Held \ {req[c].id}
      BY <3>3, <3>4 DEF Held
    <3>7. ASSUME NEW o, o.insert, o.id = req[c].id,
                 orphans' = orphans \cup {o}
          PROVE  Held' = Held
      <4>1. {p.id : p \in {s \in orphans' : s.insert}}
              = {p.id : p \in {s \in orphans : s.insert}} \cup {req[c].id}
        BY <3>7
      <4> QED
        BY <3>4, <3>5, <4>1 DEF Held
    <3> QED
      BY <3>1, <3>5, <3>6, <3>7 DEF Held, InsertOK
  <2>12. ASSUME NEW c \in Clients, CreateStore(c)
         PROVE  Table!Land(req[c].id, req[c].task)
    <3>1. /\ req[c].pc = "repositoryStore" /\ req'[c].pc = "cacheStore"
          /\ \A d \in Clients : d # c => req'[d] = req[d]
          /\ db' = [db EXCEPT ![req[c].id] = req[c].task]
          /\ orphans' = orphans /\ nextId' = nextId
      BY <2>1, <2>12 DEF CreateStore, Goto, TypeOK
    <3> QED
      BY <2>4, <3>1 DEF Table!Land
  <2>13. ASSUME NEW c \in Clients, CreateFails(c)
         PROVE  \/ UNCHANGED <<db, nextId, Held>>
                \/ \E ids \in SUBSET Ids : Table!Lose(ids)
    <3>1. /\ req[c].pc = "repositoryStore" /\ req'[c].pc = "respond"
          /\ \A d \in Clients : d # c => req'[d] = req[d]
          /\ db' = db /\ nextId' = nextId
      BY <2>1, <2>13 DEF CreateFails, Answer, Goto, TypeOK
    <3>2. CASE orphans' = orphans
      <4>1. Table!Lose({req[c].id})
        BY <2>4, <3>1, <3>2 DEF Table!Lose
      <4> QED
        BY <2>1, <2>4, <3>1, <4>1
    <3>3. CASE orphans' # orphans
      <4> DEFINE o == [id |-> req[c].id, task |-> req[c].task,
                       base |-> NoTask, insert |-> TRUE]
      <4>1. o.insert /\ o.id = req[c].id /\ orphans' = orphans \cup {o}
        BY <2>13, <3>3 DEF CreateFails, GivesUpOn
      <4> HIDE DEF o
      <4> QED
        BY <2>4, <3>1, <4>1
    <3> QED
      BY <3>2, <3>3
  <2>14. ASSUME Crash
         PROVE  \E ids \in SUBSET Ids : Table!Lose(ids)
    <3>1. Inserting' = {} /\ UNCHANGED dbVars
      BY <2>1, <2>14 DEF Crash, Inserting, Idle
    <3>2. Held' \subseteq Held
      BY <3>1 DEF Held, dbVars
    <3>3. Table!Lose(Held \ Held')
      BY <3>1, <3>2 DEF Table!Lose, dbVars
    <3> QED
      BY <2>1, <3>3
  <2>5. ASSUME NEW c \in Clients, UpdateWrite(c)
        PROVE  \E id \in Ids, v \in Tasks : Table!Write(id, v)
    <3>1. req[c].id \in Ids /\ req[c].task \in Tasks
      BY <2>1, <2>5 DEF UpdateWrite, RequestOK
    <3>2. Table!Write(req[c].id, req[c].task)
      <4>1. Held' = Held
        BY <2>1, <2>5, HeldKept DEF UpdateWrite, Goto, TypeOK
      <4> QED
        BY <2>5, <3>1, <4>1 DEF UpdateWrite, Table!Write, Table!Rows,
                                Table!Ids, Ids
    <3> QED
      BY <3>1, <3>2
  <2>6. ASSUME NEW c \in Clients, UpdateFails(c)
        PROVE  UNCHANGED <<db, nextId, Held>>
    BY <2>1, <2>6, HeldKept
    DEF UpdateFails, GivesUpOn, Answer, Goto, TypeOK
  <2>7. ASSUME NEW c \in Clients, NEW id \in Ids, DeleteRow(c, id)
        PROVE  Table!Remove(id)
    <3>1. Held' = Held
      BY <2>1, <2>7, HeldKept DEF DeleteRow, Accepts, Goto, TypeOK
    <3> QED
      BY <2>7, <3>1 DEF DeleteRow, Table!Remove, Table!Rows, Table!Ids, Ids
  <2>8. ASSUME NEW c \in Clients, NEW id \in Ids, DeleteFails(c, id)
        PROVE  UNCHANGED <<db, nextId, Held>>
    BY <2>1, <2>8, HeldKept
    DEF DeleteFails, GivesUpOn, Accepts, Answer, Goto, TypeOK
  <2>9. ASSUME NEW o \in orphans, orphans' = orphans \ {o}, req' = req
        PROVE  /\ o.id \in Ids /\ o.task \in MaybeTask
               /\ o.insert => o.id \in Held /\ Held' = Held \ {o.id}
               /\ ~o.insert => Held' = Held
    <3>1. o.id \in Ids /\ o.task \in MaybeTask
      BY <2>1 DEF TypeOK, Orphans
    <3>2. ASSUME o.insert
          PROVE  o.id \in Held /\ Held' = Held \ {o.id}
      <4>1. \A p \in orphans' : p.insert => p.id # o.id
        BY <2>1, <2>9, <3>2 DEF SequenceOK
      <4>2. \A c \in Inserting : req[c].id # o.id
        BY <2>1, <3>2 DEF SequenceOK, At, Inserting
      <4>3. {p.id : p \in {t \in orphans' : t.insert}}
              = {p.id : p \in {t \in orphans : t.insert}} \ {o.id}
        BY <2>9, <4>1
      <4>4. {req'[c].id : c \in Inserting'} = {req[c].id : c \in Inserting}
        BY <2>9 DEF Inserting
      <4> QED
        BY <3>2, <4>2, <4>3, <4>4 DEF Held
    <3>3. ASSUME ~o.insert
          PROVE  Held' = Held
      BY <2>9, <3>3, HeldKept
    <3> QED
      BY <3>1, <3>2, <3>3
  <2>10. ASSUME NEW o \in orphans, OrphanCommit(o)
         PROVE  \/ UNCHANGED <<db, nextId, Held>>
                \/ \E id \in Ids : \/ Table!Remove(id)
                                   \/ \E v \in Fresh : Table!Land(id, v)
                                   \/ \E v \in Tasks : Table!Write(id, v)
    <3>1. /\ orphans' = orphans \ {o}
          /\ db' = [db EXCEPT ![o.id] = Outcome(o)]
          /\ nextId' = nextId /\ req' = req
      BY <2>10 DEF OrphanCommit
    <3>2. CASE o.insert
      <4>1. o.task \in Fresh
        BY <3>2 DEF InsertOK
      <4>2. Table!Land(o.id, o.task)
        BY <2>9, <3>1, <3>2 DEF Outcome, Table!Land
      <4> QED
        BY <2>9, <3>1, <4>1, <4>2
    <3>3. CASE ~o.insert /\ db[o.id] = NoTask
      <4>1. db' = db
        BY <2>1, <3>1, <3>3 DEF Outcome, TypeOK
      <4> QED
        BY <2>9, <3>1, <3>3, <4>1
    <3>4. CASE ~o.insert /\ db[o.id] # NoTask /\ o.task = NoTask
      <4>1. Table!Remove(o.id)
        BY <2>9, <3>1, <3>4 DEF Outcome, Table!Remove, Table!Rows, Table!Ids,
                                Ids
      <4> QED
        BY <2>9, <3>1, <4>1
    <3>5. CASE ~o.insert /\ db[o.id] # NoTask /\ o.task # NoTask
      <4>1. Table!Write(o.id, o.task) /\ o.task \in Tasks
        BY <2>9, <3>1, <3>5 DEF Outcome, Table!Write, Table!Rows, Table!Ids,
                                Ids, MaybeTask
      <4> QED
        BY <2>9, <3>1, <4>1
    <3> QED
      BY <3>2, <3>3, <3>4, <3>5
  <2>11. ASSUME NEW o \in orphans, OrphanLost(o)
         PROVE  \/ UNCHANGED <<db, nextId, Held>>
                \/ \E ids \in SUBSET Ids : Table!Lose(ids)
    <3>1. CASE o.insert
      <4>1. Table!Lose({o.id})
        BY <2>9, <2>11, <3>1 DEF OrphanLost, Table!Lose
      <4> QED
        BY <2>9, <2>11, <4>1 DEF OrphanLost
    <3>2. CASE ~o.insert
      BY <2>9, <2>11, <3>2 DEF OrphanLost
    <3> QED
      BY <3>1, <3>2
  <2> QED
    <3>1. \A c \in Clients :
             CreateStore(c) => req[c].id \in Ids /\ req[c].task \in Fresh
      BY <2>1 DEF CreateStore, RequestOK, InsertOK, Inserting
    <3> QED
      BY <2>1, <2>2, <2>3, <2>5, <2>6, <2>7, <2>8, <2>10, <2>11, <2>12,
         <2>13, <2>14, <3>1, TableWriters
      DEF Table!TableNext, Table!Ids, Ids, Fresh
<1>3. IndInv => TypeOK
  BY DEF IndInv
<1> QED
  BY <1>1, <1>2, <1>3, Invariance, InsertStep, PTL
  DEF Spec, TableSpec, Table!TableSpec
-----------------------------------------------------------------------------
(***************************************************************************)
(* Without lost updates.  Two sentences of the repository that the code    *)
(* does not keep in general, that COMPLETE and CANCEL are final and that a *)
(* deleted task is not served, hold as long as no two goroutines work on   *)
(* the same row at once and no UPDATE or DELETE outlives its timeout.      *)
(* Work on other rows, reads, evictions, INSERTs that commit late, crashes *)
(* and restarts do no harm.                                                *)
(***************************************************************************)
\* Goroutines that have read or written row id and have calls left to make.
Working(id) ==
    {c \in Clients : \/ At(c, "repositoryUpdate", id)
                     \/ At(c, "cacheStore", id)
                     \/ At(c, "cacheDelete", id)}

Apart ==
    /\ \A id \in Ids : \A c, d \in Working(id) : c = d
    /\ \A o \in orphans : o.insert

\* The row that a pending UPDATE was computed from is still the row, and no
\* entry is in doubt.
CurrentOK ==
    /\ suspect = {}
    /\ \A c \in Clients :
          req[c].pc = "repositoryUpdate" => req[c].base = db[req[c].id]

\* What is cached, or is about to be, has an id of the sequence; an INSERT
\* that has not committed has nothing cached under its id.
FreshOK ==
    /\ \A id \in Ids : cache[id] # NoTask => id < nextId
    /\ \A c \in Clients : req[c].pc = "cacheStore" => req[c].id < nextId
    /\ \A o \in orphans :
          o.insert => cache[o.id] = NoTask /\ Storing(o.id) = {}
    /\ \A c \in Clients :
          req[c].pc = "repositoryStore" =>
             cache[req[c].id] = NoTask /\ Storing(req[c].id) = {}

\* A step after which nobody new has a task to store.
LEMMA StoringShrinks ==
    ASSUME \A d \in Clients : req'[d].pc = "cacheStore" => req'[d] = req[d]
    PROVE  \A i : Storing(i)' \subseteq Storing(i)
BY DEF Storing, At

\* Such a step, if it draws no id and leaves the rest alone, keeps FreshOK.
LEMMA FreshKept ==
    ASSUME FreshOK, UNCHANGED <<orphans, nextId, cache>>,
           \A d \in Clients : \/ req'[d] = req[d]
                              \/ req'[d].pc \notin {"cacheStore",
                                                    "repositoryStore"}
    PROVE  FreshOK'
<1>1. \A d \in Clients : req'[d].pc = "cacheStore" => req'[d] = req[d]
  OBVIOUS
<1>2. \A i : Storing(i)' \subseteq Storing(i)
  BY <1>1, StoringShrinks
<1> QED
  BY <1>2 DEF FreshOK

\* Every step keeps ids that are not handed out yet out of the cache.
LEMMA FreshStep ==
    IndInv /\ FreshOK /\ [Next]_vars => FreshOK'
<1> SUFFICES ASSUME TypeOK, RequestOK, SequenceOK, StoringOK, FreshOK,
                    [Next]_vars
             PROVE  FreshOK'
  BY DEF IndInv
<1> USE ServiceAssumption DEF TypeOK, FreshOK, SequenceOK, dbVars, Answer,
        Goto, Storing, At, Ids, Orphans
<1>22. ASSUME NEW c \in Clients, NEW name \in Names, CreateDraw(c, name)
       PROVE  FreshOK'
  <2>1. CASE Answer(c, 0, 500) /\ nextId' = nextId
    BY <1>22, <2>1 DEF CreateDraw
  <2>2. CASE /\ nextId <= MaxId /\ nextId' = nextId + 1
             /\ Goto(c, "repositoryStore", nextId, NewTask(name), NoTask, 0)
    <3>1. nextId \in Ids /\ nextId \in Nat
      BY <2>2
    <3>2. /\ UNCHANGED <<orphans, cache>>
          /\ req'[c].pc = "repositoryStore" /\ req'[c].id = nextId
          /\ \A d \in Clients : d # c => req'[d] = req[d]
      BY <1>22, <2>2 DEF CreateDraw
    <3>3. cache[nextId] = NoTask /\ Storing(nextId) = {}
      BY <3>1
    <3>4. \A i : Storing(i)' \subseteq Storing(i)
      BY <3>2, StoringShrinks
    <3>5. /\ \A i \in Ids : cache'[i] # NoTask => i < nextId'
          /\ \A d \in Clients :
                req'[d].pc = "cacheStore" => req'[d].id < nextId'
      BY <2>2, <3>1, <3>2 DEF Requests
    <3> HIDE DEF Storing
    <3> QED
      BY <3>2, <3>3, <3>4, <3>5
  <2> QED
    BY <1>22, <2>1, <2>2 DEF CreateDraw
<1>1. ASSUME NEW c \in Clients, CreateStore(c) PROVE FreshOK'
  <2>1. /\ req[c].id \in Ids /\ req[c].id < nextId
        /\ req[c].pc = "repositoryStore"
    BY <1>1 DEF CreateStore, RequestOK
  <2>2. /\ req'[c].id = req[c].id /\ req'[c].pc = "cacheStore"
        /\ \A d \in Clients : d # c => req'[d] = req[d]
        /\ UNCHANGED <<orphans, nextId, cache>>
    BY <1>1 DEF CreateStore
  <2>3. /\ \A o \in orphans : o.insert => o.id # req[c].id
        /\ \A d \in Clients \ {c} :
              req[d].pc = "repositoryStore" => req[d].id # req[c].id
    BY <2>1
  <2>4. /\ \A o \in orphans : o.insert => Storing(o.id)' = {}
        /\ \A d \in Clients :
              req'[d].pc = "repositoryStore" => Storing(req[d].id)' = {}
    BY <2>2, <2>3
  <2> HIDE DEF TypeOK, SequenceOK, Orphans, Goto, Answer
  <2> QED
    BY <2>1, <2>2, <2>4
<1>2. ASSUME NEW c \in Clients, CreateFails(c) PROVE FreshOK'
  <2> DEFINE o == [id |-> req[c].id, task |-> req[c].task,
                   base |-> NoTask, insert |-> TRUE]
  <2>1. /\ o.id = req[c].id /\ orphans' \subseteq orphans \cup {o}
        /\ UNCHANGED <<nextId, cache>>
        /\ req[c].pc = "repositoryStore" /\ req'[c].pc = "respond"
        /\ \A d \in Clients : d # c => req'[d] = req[d]
    BY <1>2 DEF CreateFails, GivesUpOn
  <2> HIDE DEF o
  <2>2. \A i : Storing(i)' \subseteq Storing(i)
    BY <2>1, StoringShrinks
  <2> HIDE DEF Storing
  <2>3. cache[o.id] = NoTask /\ Storing(o.id) = {}
    BY <2>1
  <2>4. \A p \in orphans' :
           p.insert => cache'[p.id] = NoTask /\ Storing(p.id)' = {}
    BY <2>1, <2>2, <2>3
  <2>5. \A d \in Clients :
           req'[d].pc \in {"cacheStore", "repositoryStore"} =>
              req'[d] = req[d]
    BY <2>1
  <2>6. ASSUME NEW d \in Clients, req'[d].pc = "repositoryStore"
        PROVE  /\ cache'[req'[d].id] = NoTask
               /\ \A e \in Clients : ~At(e, "cacheStore", req[d].id)'
    <3>1. req'[d] = req[d]
      BY <2>5, <2>6
    <3>2. /\ cache[req[d].id] = NoTask
          /\ \A e \in Clients : ~At(e, "cacheStore", req[d].id)
      BY <2>6, <3>1 DEF Storing
    <3> QED
      BY <2>1, <2>5, <3>1, <3>2
  <2>7. \A i \in Ids : cache'[i] # NoTask => i < nextId'
    BY <2>1
  <2>8. ASSUME NEW d \in Clients, req'[d].pc = "cacheStore"
        PROVE  req'[d].id < nextId'
    BY <2>1, <2>5, <2>8
  <2> HIDE DEF TypeOK, SequenceOK
  <2> QED
    BY <2>4, <2>6, <2>7, <2>8 DEF Storing
<1>3. ASSUME NEW c \in Clients, NEW id \in Ids, GetLookup(c, id) PROVE FreshOK'
  <2>1. \A d \in Clients : \/ req'[d] = req[d]
                           \/ req'[d].pc \notin {"cacheStore",
                                                 "repositoryStore"}
    BY <1>3 DEF GetLookup
  <2>2. UNCHANGED <<orphans, nextId, cache>>
    BY <1>3 DEF GetLookup
  <2> HIDE DEF FreshOK
  <2> QED
    BY <2>1, <2>2, FreshKept
<1>4. ASSUME NEW c \in Clients, GetRepository(c) PROVE FreshOK'
  <2>1. \A d \in Clients : \/ req'[d] = req[d]
                           \/ req'[d].pc \notin {"cacheStore",
                                                 "repositoryStore"}
    BY <1>4 DEF GetRepository
  <2>2. UNCHANGED <<orphans, nextId, cache>>
    BY <1>4 DEF GetRepository
  <2> HIDE DEF FreshOK
  <2> QED
    BY <2>1, <2>2, FreshKept
<1>5. ASSUME NEW c \in Clients, NEW id \in Ids, NEW p \in Params,
             UpdateLoad(c, id, p)
      PROVE  FreshOK'
  <2>1. \A d \in Clients : \/ req'[d] = req[d]
                           \/ req'[d].pc \notin {"cacheStore",
                                                 "repositoryStore"}
    BY <1>5 DEF UpdateLoad
  <2>2. UNCHANGED <<orphans, nextId, cache>>
    BY <1>5 DEF UpdateLoad
  <2> HIDE DEF FreshOK
  <2> QED
    BY <2>1, <2>2, FreshKept
<1>6. ASSUME NEW c \in Clients, UpdateWrite(c) PROVE FreshOK'
  <2>1. req[c].id \in Ids /\ req[c].id < nextId
    BY <1>6 DEF UpdateWrite, RequestOK
  <2>2. /\ \A o \in orphans : o.insert => o.id # req[c].id
        /\ \A d \in Clients :
              req[d].pc = "repositoryStore" => req[d].id # req[c].id
    BY <1>6 DEF UpdateWrite
  <2>3. /\ req'[c].id = req[c].id
        /\ \A d \in Clients : d # c => req'[d] = req[d]
        /\ UNCHANGED <<orphans, nextId, cache>>
    BY <1>6 DEF UpdateWrite
  <2>4. /\ \A o \in orphans : o.insert => Storing(o.id)' = {}
        /\ \A d \in Clients :
              req[d].pc = "repositoryStore" => Storing(req[d].id)' = {}
    BY <2>2, <2>3
  <2>5. req'[c].pc = "cacheStore"
    BY <1>6 DEF UpdateWrite
  <2> HIDE DEF TypeOK, SequenceOK, Orphans, Goto, Answer
  <2> QED
    BY <2>1, <2>3, <2>4, <2>5
<1>7. ASSUME NEW c \in Clients, UpdateMissing(c) PROVE FreshOK'
  BY <1>7 DEF UpdateMissing
<1>8. ASSUME NEW c \in Clients, UpdateFails(c) PROVE FreshOK'
  BY <1>8 DEF UpdateFails, GivesUpOn
<1>9. ASSUME NEW c \in Clients, NEW id \in Ids, DeleteRow(c, id) PROVE FreshOK'
  BY <1>9 DEF DeleteRow
<1>10. ASSUME NEW c \in Clients, NEW id \in Ids,
             DeleteMissing(c, id)
      PROVE  FreshOK'
  BY <1>10 DEF DeleteMissing
<1>11. ASSUME NEW c \in Clients, NEW id \in Ids,
             DeleteFails(c, id)
      PROVE  FreshOK'
  BY <1>11 DEF DeleteFails, GivesUpOn
<1>12. ASSUME NEW c \in Clients, CacheStore(c) PROVE FreshOK'
  BY <1>12 DEF CacheStore
<1>13. ASSUME NEW c \in Clients, CacheDelete(c) PROVE FreshOK'
  BY <1>13 DEF CacheDelete
<1>14. ASSUME NEW c \in Clients, Respond(c) PROVE FreshOK'
  BY <1>14 DEF Respond, Idle
<1>15. ASSUME NEW id \in Ids, Evict(id) PROVE FreshOK'
  BY <1>15 DEF Evict
<1>16. ASSUME NEW o \in orphans, OrphanCommit(o) PROVE FreshOK'
  BY <1>16 DEF OrphanCommit, Outcome
<1>17. ASSUME NEW o \in orphans, OrphanLost(o) PROVE FreshOK'
  BY <1>17 DEF OrphanLost
<1>18. CASE Crash
  BY <1>18 DEF Crash, Idle
<1>19. CASE Start
  <2>1. /\ UNCHANGED <<orphans, nextId, req>>
        /\ \A i \in Ids : cache'[i] \in {NoTask, db[i]}
    BY <1>19 DEF Start
  <2>2. \A i \in Ids : cache'[i] # NoTask => db[i] # NoTask
    BY <2>1
  <2>3. \A d \in Clients : req[d].pc = "repositoryStore" => req[d].id \in Ids
    BY DEF RequestOK
  <2>4. \A i : Storing(i)' = Storing(i)
    BY <2>1
  <2>5. /\ \A o \in orphans : o.insert => o.id \in Ids /\ db[o.id] = NoTask
        /\ \A d \in Clients :
              req[d].pc = "repositoryStore" => db[req[d].id] = NoTask
    OBVIOUS
  <2> HIDE DEF Storing
  <2> QED
    BY <2>1, <2>2, <2>3, <2>4, <2>5
<1>20. ASSUME NEW c \in Clients, Reject(c) PROVE FreshOK'
  BY <1>20 DEF Reject
<1>21. CASE UNCHANGED vars
  BY <1>21 DEF vars
<1> QED
  BY <1>1, <1>2, <1>3, <1>4, <1>5, <1>6, <1>7, <1>8, <1>9, <1>10, <1>11,
     <1>12, <1>13, <1>14, <1>15, <1>16, <1>17, <1>18, <1>19, <1>20, <1>21,
     <1>22
  DEF Next, Arrive, Proceed

\* Every step that leaves the goroutines apart keeps pending UPDATEs current.
LEMMA CurrentStep ==
    /\ IndInv /\ FreshOK /\ CurrentOK
    /\ Apart /\ Apart'
    /\ [Next]_vars
    => CurrentOK'
<1> SUFFICES ASSUME TypeOK, RequestOK, SequenceOK, FreshOK, CurrentOK,
                    Apart, Apart', [Next]_vars
             PROVE  CurrentOK'
  BY DEF IndInv
<1> USE DEF TypeOK, CurrentOK, dbVars, Answer, Goto, Storing, At
<1>22. ASSUME NEW c \in Clients, NEW name \in Names, CreateDraw(c, name)
       PROVE  CurrentOK'
  BY <1>22 DEF CreateDraw
<1>1. ASSUME NEW c \in Clients, CreateStore(c) PROVE CurrentOK'
  <2>1. req[c].id \in Ids /\ db[req[c].id] = NoTask
    BY <1>1 DEF CreateStore, RequestOK, SequenceOK
  <2>2. Storing(req[c].id) = {}
    BY <1>1 DEF CreateStore, FreshOK
  <2>3. \A d \in Clients : req[d].pc = "repositoryUpdate" =>
             req[d].id \in Ids /\ req[d].id # req[c].id
    BY <2>1, ServiceAssumption DEF RequestOK
  <2>4. suspect' = {}
    BY <1>1, <2>2 DEF CreateStore, Written
  <2> QED
    BY <1>1, <2>1, <2>3, <2>4 DEF CreateStore
<1>2. ASSUME NEW c \in Clients, CreateFails(c) PROVE CurrentOK'
  BY <1>2 DEF CreateFails, GivesUpOn
<1>3. ASSUME NEW c \in Clients, NEW id \in Ids,
             GetLookup(c, id)
      PROVE  CurrentOK'
  BY <1>3 DEF GetLookup
<1>4. ASSUME NEW c \in Clients, GetRepository(c) PROVE CurrentOK'
  BY <1>4 DEF GetRepository
<1>5. ASSUME NEW c \in Clients, NEW id \in Ids, NEW p \in Params,
             UpdateLoad(c, id, p)
      PROVE  CurrentOK'
  BY <1>5 DEF UpdateLoad
<1>6. ASSUME NEW c \in Clients, UpdateWrite(c) PROVE CurrentOK'
  <2>1. req[c].id \in Ids /\ c \in Working(req[c].id)
    BY <1>6 DEF UpdateWrite, RequestOK, Working
  <2>2. Storing(req[c].id) = {}
    BY <1>6, <2>1 DEF UpdateWrite, Apart, Working
  <2>3. \A d \in Clients :
           req[d].pc = "repositoryUpdate" /\ d # c =>
             req[d].id \in Ids /\ req[d].id # req[c].id
    BY <2>1 DEF Apart, RequestOK, Working
  <2>4. suspect' = {}
    BY <1>6, <2>2 DEF UpdateWrite, Written
  <2> QED
    BY <1>6, <2>1, <2>3, <2>4 DEF UpdateWrite
<1>7. ASSUME NEW c \in Clients, UpdateMissing(c) PROVE CurrentOK'
  BY <1>7 DEF UpdateMissing, Cleared
<1>8. ASSUME NEW c \in Clients, UpdateFails(c) PROVE CurrentOK'
  BY <1>8 DEF UpdateFails, GivesUpOn
<1>9. ASSUME NEW c \in Clients, NEW id \in Ids,
             DeleteRow(c, id)
      PROVE  CurrentOK'
  <2>1. /\ req'[c].pc = "cacheDelete" /\ req'[c].id = id
        /\ \A d \in Clients : d # c => req'[d] = req[d]
        /\ req[c].pc = "idle"
    BY <1>9 DEF DeleteRow, Accepts
  <2>2. \A d \in Clients : d # c => d \notin Working(id)'
    BY <2>1 DEF Apart, Working
  <2>3. Storing(id) = {}
    BY <2>1, <2>2 DEF Working
  <2>4. \A d \in Clients :
           req'[d].pc = "repositoryUpdate" =>
             req'[d] = req[d] /\ req[d].id \in Ids /\ req[d].id # id
    BY <2>1, <2>2 DEF RequestOK, Working
  <2>5. suspect' = {}
    BY <1>9, <2>3 DEF DeleteRow, Written
  <2> QED
    BY <1>9, <2>4, <2>5 DEF DeleteRow
<1>10. ASSUME NEW c \in Clients, NEW id \in Ids,
             DeleteMissing(c, id)
      PROVE  CurrentOK'
  BY <1>10 DEF DeleteMissing, Cleared
<1>11. ASSUME NEW c \in Clients, NEW id \in Ids,
             DeleteFails(c, id)
      PROVE  CurrentOK'
  BY <1>11 DEF DeleteFails, GivesUpOn
<1>12. ASSUME NEW c \in Clients, CacheStore(c) PROVE CurrentOK'
  BY <1>12 DEF CacheStore
<1>13. ASSUME NEW c \in Clients, CacheDelete(c) PROVE CurrentOK'
  BY <1>13 DEF CacheDelete
<1>14. ASSUME NEW c \in Clients, Respond(c) PROVE CurrentOK'
  BY <1>14 DEF Respond, Idle
<1>15. ASSUME NEW id \in Ids, Evict(id) PROVE CurrentOK'
  BY <1>15 DEF Evict, Cleared
<1>16. ASSUME NEW o \in orphans, OrphanCommit(o) PROVE CurrentOK'
  <2>1. /\ o.insert /\ o.id \in Ids /\ db[o.id] = NoTask
        /\ cache[o.id] = NoTask /\ Storing(o.id) = {}
    BY DEF Apart, SequenceOK, FreshOK, Orphans
  <2>2. suspect' = {}
    BY <1>16, <2>1 DEF OrphanCommit
  <2>3. \A d \in Clients : req[d].pc = "repositoryUpdate" =>
             req[d].id \in Ids /\ req[d].id # o.id
    BY <2>1, ServiceAssumption DEF RequestOK
  <2> QED
    BY <1>16, <2>1, <2>2, <2>3 DEF OrphanCommit
<1>17. ASSUME NEW o \in orphans, OrphanLost(o) PROVE CurrentOK'
  BY <1>17 DEF OrphanLost
<1>18. CASE Crash
  BY <1>18 DEF Crash, Idle
<1>19. CASE Start
  BY <1>19 DEF Start, Rows
<1>20. ASSUME NEW c \in Clients, Reject(c) PROVE CurrentOK'
  BY <1>20 DEF Reject
<1>21. CASE UNCHANGED vars
  BY <1>21 DEF vars
<1> QED
  BY <1>1, <1>2, <1>3, <1>4, <1>5, <1>6, <1>7, <1>8, <1>9, <1>10, <1>11,
     <1>12, <1>13, <1>14, <1>15, <1>16, <1>17, <1>18, <1>19, <1>20, <1>21,
     <1>22
  DEF Next, Arrive, Proceed

\* As long as goroutines stay apart, no entry is in doubt and no UPDATE lost.
LEMMA StaysCurrent == Spec /\ []Apart => [](FreshOK /\ CurrentOK)
<1>1. Init => FreshOK /\ CurrentOK
  BY DEF Init, FreshOK, CurrentOK, Storing, At, Idle
<1>2. /\ IndInv /\ FreshOK /\ CurrentOK
      /\ Apart /\ Apart'
      /\ [Next]_vars
      => FreshOK' /\ CurrentOK'
  BY FreshStep, CurrentStep
<1> QED
  BY <1>1, <1>2, Invariance, PTL DEF Spec

\* As long as goroutines stay apart, a status changes only as README.md's
\* lifecycle says.
LifecycleKept ==
    [][\A id \in Ids :
          db[id] # NoTask /\ db'[id] # NoTask =>
             LegalMove(db[id].status, db'[id].status)]_vars

\* The check of Update, made on the row as it was read, is then a check of
\* the row that is overwritten.
THEOREM LifecycleWhenApart == Spec /\ []Apart => LifecycleKept
<1> DEFINE Guarded ==
      \A id \in Ids :
          db[id] # NoTask /\ db'[id] # NoTask =>
             \/ LegalMove(db[id].status, db'[id].status)
             \/ \E c \in Clients : /\ At(c, "repositoryUpdate", id)
                                   /\ req'[c] # req[c]
                                   /\ req[c].base # db[id]
             \/ \E o \in orphans \ orphans' : o.id = id /\ o.base # db[id]
<1> DEFINE Kept ==
      \A id \in Ids :
          db[id] # NoTask /\ db'[id] # NoTask =>
             LegalMove(db[id].status, db'[id].status)
<1>1. IndInv /\ CurrentOK /\ Apart /\ [Guarded]_vars => [Kept]_vars
  <2> SUFFICES ASSUME IndInv, CurrentOK, Apart, Guarded, NEW id \in Ids,
                      db[id] # NoTask, db'[id] # NoTask
               PROVE  LegalMove(db[id].status, db'[id].status)
    BY DEF vars
  <2>1. ~\E c \in Clients : /\ At(c, "repositoryUpdate", id)
                            /\ req[c].base # db[id]
    BY DEF CurrentOK, At
  <2>2. ~\E o \in orphans \ orphans' : o.id = id
    BY DEF Apart, IndInv, SequenceOK
  <2> QED
    BY <2>1, <2>2
<1> QED
  BY <1>1, Invariance, LifecycleEnforced, StaysCurrent, PTL
  DEF LifecycleGuarded, LifecycleKept

\* In particular nothing leaves COMPLETE or CANCEL, as domain/task.go says.
COROLLARY TerminalWhenApart == Spec /\ []Apart => TerminalIsFinal
<1> DEFINE Kept ==
      \A id \in Ids :
          db[id] # NoTask /\ db'[id] # NoTask =>
             LegalMove(db[id].status, db'[id].status)
<1> DEFINE Final ==
      \A id \in Ids :
          /\ db[id] # NoTask /\ db'[id] # NoTask
          /\ db[id].status \in Terminal
          => db'[id].status = db[id].status
<1>1. [Kept]_vars => [Final]_vars
  <2> SUFFICES ASSUME Kept PROVE Final
    OBVIOUS
  <2> QED
    BY DEF LegalMove
<1> QED
  BY <1>1, LifecycleWhenApart, PTL DEF LifecycleKept, TerminalIsFinal

\* As long as goroutines stay apart, a task that was deleted is not served
\* from the cache once the calls on it have returned.
THEOREM NotServedWhenApart == Spec /\ []Apart => []DeletedIsNotServed
<1>1. IndInv /\ CurrentOK => DeletedIsNotServed
  BY DEF IndInv, CurrentOK, Coherent, DeletedIsNotServed
<1> QED
  BY <1>1, Invariance, StaysCurrent, PTL
=============================================================================
