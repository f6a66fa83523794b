------------------------------- MODULE MC_Arc -------------------------------
(***************************************************************************)
(* Small instances of the cache without its history, for the ARC policy.   *)
(***************************************************************************)
EXTENDS CacheManager

CONSTANTS k1, k2, k3

MCKeys == {k1, k2, k3}
=============================================================================
