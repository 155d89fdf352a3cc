--------------------------- MODULE MCAuthService ---------------------------
(* Values for the constants of AuthService. *)
EXTENDS AuthService

CONSTANTS p1, p2, p3, k1

\* The failure a comment of RecordLoginFail makes light of.
ExpireFault == {"expire"}
=============================================================================
