----------------------------- MODULE ModelLoader -----------------------------
(***************************************************************************)
(* model/loader.py's ModelLoader, as operators on a record: whether the    *)
(* checkpoint is indexed, and the preloaded experts; and what becomes of   *)
(* an expert it returns when it is staged (model/expert.py,                *)
(* transfer/reusable_staging.py).                                          *)
(*                                                                         *)
(* An expert is known by the format of its tensors:                        *)
(*    "plain"       serialized NF4 state, absmax in fp32                   *)
(*    "nested"      the same with absmax itself quantized to uint8         *)
(*    "incomplete"  nested, without the map absmax is quantized with       *)
(*    "truncated"   a tensor that every expert needs is missing            *)
(*    "module"      a QuantizedMixtralExpert made from the checkpoint      *)
(* and "absent" where there is none.  disk is the sequence of the expert   *)
(* stores, each a function from experts to the formats of their files.     *)
(***************************************************************************)
EXTENDS Integers, Sequences, FiniteSetsExt

CONSTANTS NumLayers, NumExperts

ASSUME ModelAssumption == NumLayers \in Nat \ {0} /\ NumExperts \in Nat \ {0}

LayerIds == 0..(NumLayers - 1)

Keys == LayerIds \X (0..(NumExperts - 1))

FileFormats == {"plain", "nested", "incomplete", "truncated", "absent"}

Contents == [Keys -> FileFormats]

InitLoader == [loaded |-> FALSE, preloaded |-> [k \in Keys |-> "absent"]]

Load(loader) == [loader EXCEPT !.loaded = TRUE]

SetPreloaded(loader, experts) == [loader EXCEPT !.preloaded = experts]

\* PrequantizedNF4Expert.from_serialized() asks for the tensors all need.
Deserialized(format) == IF format = "truncated" THEN "error" ELSE format

Holders(disk, k) == {i \in DOMAIN disk : disk[i][k] # "absent"}

\* _resolve_expert_path(): the first store that has the expert's file.
Resolved(disk, k) ==
    IF Holders(disk, k) = {} THEN "error"
    ELSE Deserialized(disk[Min(Holders(disk, k))][k])

\* Mutant: an expert that no store has is made from the checkpoint.
LoadExpertFallingBack(loader, disk, k) ==
    CASE ~loader.loaded                    -> "error"
      [] loader.loaded /\ loader.preloaded[k] # "absent" -> loader.preloaded[k]
      [] loader.loaded /\ loader.preloaded[k] = "absent" ->
            IF Holders(disk, k) = {} THEN "module" ELSE Resolved(disk, k)

LoadExpert(loader, disk, k) ==
    CASE ~loader.loaded                    -> "error"
      [] loader.loaded /\ loader.preloaded[k] # "absent" -> loader.preloaded[k]
      [] loader.loaded /\ loader.preloaded[k] = "absent" ->
            IF disk = <<>> THEN "module" ELSE Resolved(disk, k)

(***************************************************************************)
(* A staging slot keeps the buffers of the first expert staged into it,    *)
(* and takes only tensors of their types after that.  A slot is "blank",   *)
(* "plain" or "nested".                                                    *)
(***************************************************************************)
Stageable(slot, format) ==
    /\ format \in {"plain", "nested"}  \* the others have no state to be staged
    /\ slot \in {"blank", format}

Stage(slot, format) == IF Stageable(slot, format) THEN format ELSE slot
=============================================================================
