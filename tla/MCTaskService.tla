--------------------------- MODULE MCTaskService ---------------------------
(***************************************************************************)
(* Instances of TaskService for TLC.                                       *)
(***************************************************************************)
EXTENDS TaskService, TLC

\* Goroutines are interchangeable; so are names.
Symmetry == Permutations(Clients) \cup Permutations(Names)
=============================================================================
