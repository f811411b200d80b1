---------------------------- MODULE MCHttpFront ----------------------------
(***************************************************************************)
(* An instance of HttpFront for TLC.                                       *)
(***************************************************************************)
EXTENDS HttpFront, TLC

\* ROUTE_GROUP is "/api".
OneGroup == <<"api">>

\* Goroutines are interchangeable; so are addresses.
Symmetry == Permutations(Procs) \cup Permutations(Addrs)
=============================================================================
