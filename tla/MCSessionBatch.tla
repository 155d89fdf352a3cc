--------------------------- MODULE MCSessionBatch ---------------------------
(* Values for the constants of SessionBatch. *)
EXTENDS SessionBatch
=============================================================================
