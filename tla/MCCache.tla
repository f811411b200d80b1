------------------------------ MODULE MCCache ------------------------------
(***************************************************************************)
(* Instances of Cache for TLC.                                             *)
(***************************************************************************)
EXTENDS Cache, TLC

\* Goroutines are interchangeable; keys are ordered and are not.
Symmetry == Permutations(Procs)
=============================================================================
