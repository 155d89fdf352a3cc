-------------------------- MODULE MCCacheStaleness --------------------------
(* Values for the constants of CacheStaleness. *)
EXTENDS CacheStaleness

CONSTANTS s1, v1, v2
=============================================================================
