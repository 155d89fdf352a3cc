-------------------------- MODULE MCUserRepository --------------------------
(* Values for the constants of UserRepository. *)
EXTENDS UserRepository, TLC

CONSTANTS p1, p2, s1, s2, t1, t2, v1, v2

\* Processes, slots and column values are interchangeable.
Symmetry ==
    Permutations({p1, p2}) \cup Permutations({s1, s2}) \cup Permutations({t1, t2})
        \cup Permutations({v1, v2})

NoFaults == {}

\* Failures the double delete is built to survive.
TolerableFaults == {"get", "set", "delete", "retry", "query", "exec"}
=============================================================================
