-------------------------------- MODULE Task --------------------------------
(***************************************************************************)
(* internal/domain/task.go: the task entity and its lifecycle.  A task is  *)
(* its name and its status.  Body is treated by every piece of code        *)
(* exactly as Name is, and the two timestamps are never read back by the   *)
(* service, so neither is represented.                                     *)
(***************************************************************************)
CONSTANT Names    \* the texts a task's name (and body) can have

\* The values of type TaskStatus that IsValid accepts.
TaskStatus == {"NEW", "IN_PROCESS", "PAUSE", "COMPLETE", "CANCEL"}

Tasks == [name : Names, status : TaskStatus]

NewTask(name) == [name |-> name, status |-> "NEW"]

IsValid(s) == s \in TaskStatus

\* MUTANT: a finished task may still be paused or cancelled.
CanTransitionToLoose(s, next) ==
    /\ IsValid(next)
    /\ \/ s = next
       \/ next \in {"CANCEL", "PAUSE"}
       \/ next = "IN_PROCESS" /\ s \in {"NEW", "PAUSE"}
       \/ next = "COMPLETE" /\ s = "IN_PROCESS"

CanTransitionTo(s, next) ==
    /\ IsValid(next)
    /\ \/ s = next
       \/ next \in {"CANCEL", "PAUSE"} /\ s \notin {"COMPLETE", "CANCEL"}
       \/ next = "IN_PROCESS" /\ s \in {"NEW", "PAUSE"}
       \/ next = "COMPLETE" /\ s = "IN_PROCESS"

-----------------------------------------------------------------------------
(***************************************************************************)
(* What the lifecycle promises, in the words of README.md:170-176 rather   *)
(* than of the code: a finished task stays as it is, nothing becomes NEW   *)
(* again, and only work in process is completed.                           *)
(***************************************************************************)
Terminal == {"COMPLETE", "CANCEL"}

LegalMove(s, next) ==
    \/ s = next
    \/ /\ s \notin Terminal
       /\ next # "NEW"
       /\ next = "COMPLETE" => s = "IN_PROCESS"
=============================================================================
