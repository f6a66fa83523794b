----------------------------- MODULE MC_Prefetch -----------------------------
(***************************************************************************)
(* Three layers run in turn, with prefetching; two have two experts.       *)
(***************************************************************************)
EXTENDS PrefetchEngine

MCKeys == {<<1, 1>>, <<2, 1>>, <<2, 2>>, <<3, 1>>}
=============================================================================
