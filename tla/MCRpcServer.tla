---------------------------- MODULE MCRpcServer ----------------------------
(* Values for the constants of RpcServer. *)
EXTENDS RpcServer, TLC

CONSTANTS p1, p2, v1, v2

\* Requests and column values are interchangeable.
Symmetry == Permutations({p1, p2}) \cup Permutations({v1, v2})

NoFaults == {}
=============================================================================
