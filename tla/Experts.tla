------------------------------ MODULE Experts ------------------------------
(***************************************************************************)
(* The experts of the model, named (layer_id, expert_id) in the code.      *)
(***************************************************************************)
CONSTANTS
    Keys,   \* the experts
    NoKey   \* Python's None, where an expert is expected

ASSUME NoKeyAssumption == NoKey \notin Keys
=============================================================================
