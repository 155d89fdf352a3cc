---------------------------- MODULE MCSnowflake ----------------------------
(* Values for the constants of Snowflake. *)
EXTENDS Snowflake, TLC

CONSTANTS g0, g1

Machines == (g0 :> 0) @@ (g1 :> 1)
=============================================================================
