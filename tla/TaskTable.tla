----------------------------- MODULE TaskTable -----------------------------
(***************************************************************************)
(* What the tasks table promises to whoever looks at it: ids come from a   *)
(* sequence and are used once, a row begins as a fresh task, an existing   *)
(* row may be rewritten, and a row that was removed never comes back.      *)
(* TaskService implements this specification; Listing pages through it.    *)
(*                                                                         *)
(* An INSERT draws its id (Draw) before it commits: the row appears later  *)
(* (Land), perhaps behind rows with larger ids, or never (Lose, of all the *)
(* INSERTs that a process leaves behind when it ends).                     *)
(***************************************************************************)
EXTENDS Naturals

CONSTANTS
    Values,     \* what a row can hold
    Fresh,      \* what a new row holds
    NoTask,     \* no row
    MaxId       \* bound: number of ids the sequence may hand out

Ids == 1..MaxId

ASSUME TableAssumption ==
    /\ MaxId \in Nat
    /\ Fresh \subseteq Values
    /\ NoTask \notin Values

VARIABLES
    db,         \* the rows
    nextId,     \* the BIGSERIAL sequence
    held        \* ids drawn by INSERTs that have not committed

tableVars == <<db, nextId, held>>
-----------------------------------------------------------------------------
Rows == {i \in Ids : db[i] # NoTask}

TableTypeOK ==
    /\ db \in [Ids -> Values \cup {NoTask}]
    /\ nextId \in 1..(MaxId + 1)
    /\ held \subseteq Ids

TableInit ==
    /\ db = [i \in Ids |-> NoTask]
    /\ nextId = 1
    /\ held = {}

Draw ==
    /\ nextId <= MaxId
    /\ held' = held \cup {nextId}
    /\ nextId' = nextId + 1
    /\ UNCHANGED db

Land(id, v) ==
    /\ id \in held
    /\ db' = [db EXCEPT ![id] = v]
    /\ held' = held \ {id}
    /\ UNCHANGED nextId

Lose(ids) ==
    /\ ids \subseteq held
    /\ held' = held \ ids
    /\ UNCHANGED <<db, nextId>>

Write(id, v) ==
    /\ id \in Rows
    /\ db' = [db EXCEPT ![id] = v]
    /\ UNCHANGED <<nextId, held>>

Remove(id) ==
    /\ id \in Rows
    /\ db' = [db EXCEPT ![id] = NoTask]
    /\ UNCHANGED <<nextId, held>>

TableNext ==
    \/ Draw
    \/ \E ids \in SUBSET Ids : Lose(ids)
    \/ \E id \in Ids : \/ Remove(id)
                       \/ \E v \in Fresh : Land(id, v)
                       \/ \E v \in Values : Write(id, v)

TableSpec == TableInit /\ [][TableNext]_tableVars
=============================================================================
