---------------------------- MODULE MC_Transfer ----------------------------
(***************************************************************************)
(* Small instances of the scheduler: two or three experts, two slots.      *)
(***************************************************************************)
EXTENDS TransferScheduler

CONSTANTS k1, k2, k3

MCKeys == {k1, k2}
MCThreeKeys == {k1, k2, k3}
=============================================================================
