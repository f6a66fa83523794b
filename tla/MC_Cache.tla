------------------------------ MODULE MC_Cache ------------------------------
(***************************************************************************)
(* Small instances of the cache and its history: three or four experts,    *)
(* fewer slots than experts in each tier.                                  *)
(***************************************************************************)
EXTENDS CacheHistory

CONSTANTS k1, k2, k3, k4

MCKeys == {k1, k2, k3, k4}
MCThreeKeys == {k1, k2, k3}

=============================================================================
