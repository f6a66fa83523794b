---------------------------- MODULE TwoTierStore ----------------------------
(***************************************************************************)
(* What a two-level expert cache promises, without saying which entry it   *)
(* gives up: a set of resident experts per tier, at most one of which is   *)
(* displaced by an insertion, and only when the tier is full.              *)
(***************************************************************************)
EXTENDS Naturals, FiniteSets

CONSTANTS
    Keys,           \* the experts
    GpuSlots,       \* entries the GPU tier is sized for
    CpuSlots,       \* entries the CPU tier is sized for
    MayOverflow     \* TRUE when a full tier may fail to find a victim

VARIABLES gpu, cpu  \* the experts resident in each tier

StoreInit == gpu = {} /\ cpu = {}

Full(held, slots) == Cardinality(held) >= slots

\* after is before with the new key k in it.
Inserts(before, after, k, slots) ==
    /\ k \notin before
    /\ \/ ~Full(before, slots) /\ after = before \cup {k}
       \/ Full(before, slots) /\ \E v \in before : after = (before \ {v}) \cup {k}
       \/ /\ Full(before, slots)
          /\ before = {} \/ MayOverflow
          /\ after = before \cup {k}

Removes(before, after) == \E v \in before : after = before \ {v}

GpuStep ==
    /\ UNCHANGED cpu
    /\ \/ \E k \in Keys : Inserts(gpu, gpu', k, GpuSlots)
       \/ Removes(gpu, gpu')

CpuStep ==
    /\ UNCHANGED gpu
    /\ \/ \E k \in Keys : Inserts(cpu, cpu', k, CpuSlots)
       \/ Removes(cpu, cpu')

StoreSpec == StoreInit /\ [][GpuStep \/ CpuStep]_<<gpu, cpu>>
=============================================================================
