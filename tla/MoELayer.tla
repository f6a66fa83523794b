------------------------------ MODULE MoELayer ------------------------------
(***************************************************************************)
(* model/moe_layer.py's _forward_tokens over the expert cache and the      *)
(* transfer scheduler: the experts a batch is routed to are brought to the *)
(* GPU one after the other, run, and those that were not there before are  *)
(* demoted, also when one of them cannot be had.                           *)
(*                                                                         *)
(* An expert is a pair <<layer_id, expert_id>>.  The pass runs on the one  *)
(* host thread, in steps between which the device goes on.  The layers     *)
(* share their cache and scheduler, so fwd is the pass of whichever layer  *)
(* runs.  Routing is an arbitrary choice of experts; token arithmetic is   *)
(* left out.                                                               *)
(***************************************************************************)
EXTENDS TransferScheduler

ASSUME ExpertIdsAssumption == Keys \subseteq Nat \X Nat

VARIABLE fwd

fvars == <<cache, published, pool, stream, queue, handles, buffers, fwd>>

Layers == {k[1] : k \in Keys}

ExpertsOf(layer) == {k \in Keys : k[1] = layer}

Idle ==
    [phase   |-> "idle",
     working |-> {},    \* unique_expert_ids
     todo    |-> {},    \* of these, the ones still to be ensured or demoted
     kept    |-> {},    \* was_gpu_resident
     held    |-> {},    \* gpu_experts
     failed  |-> FALSE, \* an exception is on its way
     before  |-> {}]    \* the GPU-resident experts when the pass began

FInit == Init /\ fwd = Idle

GpuExperts == ToSet(cache.gpu.order)

\* The loops visit the experts in the order of their ids.
Least(S) == CHOOSE k \in S : \A j \in S : k[1] < j[1] \/ (k[1] = j[1] /\ k[2] <= j[2])

At(phase, k) == fwd.phase = phase /\ fwd.todo # {} /\ k = Least(fwd.todo)

Goto(phase) == fwd' = [fwd EXCEPT !.phase = phase]

Begin(E) ==
    /\ fwd.phase = "idle"
    /\ E # {}
    /\ fwd' = [fwd EXCEPT !.phase = "ensure", !.working = E, !.todo = E,
                          !.kept = E \cap GpuExperts, !.before = GpuExperts]
    /\ UNCHANGED vars

\* Mutant: the loop does not advance.
EnsuredAgain(k) ==
    fwd' = [fwd EXCEPT !.held = @ \cup {k},
                       !.phase = IF fwd.todo = {} THEN "run" ELSE "ensure"]

\* k is on the GPU and in gpu_experts; the next expert's turn, or the run.
Ensured(k) ==
    fwd' = [fwd EXCEPT !.held = @ \cup {k}, !.todo = @ \ {k},
                       !.phase = IF fwd.todo = {k} THEN "run" ELSE "ensure"]

\* Mutant: everything the layer used is demoted.
FinallyAll(failed) ==
    fwd' = [fwd EXCEPT !.phase = "release", !.todo = fwd.working, !.failed = failed]

\* The finally clause, reached at the end of the run and by every exception.
Finally(failed) ==
    fwd' = [fwd EXCEPT !.phase = "release", !.todo = fwd.working \ fwd.kept,
                       !.failed = failed]

\* Mutant: an exception passes the demotions by.
RaiseAtOnce ==
    fwd' = [fwd EXCEPT !.phase = "release", !.todo = {}, !.failed = TRUE]

Raise == Finally(TRUE)

(***************************************************************************)
(* _ensure_expert_on_gpu.                                                  *)
(***************************************************************************)
FindOnGpu(k) ==
    /\ At("ensure", k)
    /\ Resident(cache, "gpu", k)
    /\ Lookup(k)
    /\ Ensured(k)

FindOnCpu(k) ==
    /\ At("ensure", k)
    /\ ~Resident(cache, "gpu", k)
    /\ Lookup(k)
    /\ Goto("submit")

LoadMissing(k) == At("ensure", k) /\ LoadExpert(k) /\ Goto("submit")

LoadFails(k) ==
    /\ "load" \in Failures
    /\ At("ensure", k)
    /\ ~Resident(cache, "gpu", k) /\ ~Resident(cache, "cpu", k)
    /\ cache' = Get(cache, k)
    /\ Raise
    /\ UNCHANGED <<published, pool, stream, queue, handles, buffers>>

Request(k) == [key |-> k, direction |-> "cpu_to_gpu", priority |-> 0]

SubmitOwn(k) == At("submit", k) /\ Submit(Request(k)) /\ Goto("execute")

SubmitRefused(k) ==
    /\ At("submit", k)
    /\ IsDuplicate(Request(k))
    /\ Raise
    /\ UNCHANGED vars

Execute(k) == At("execute", k) /\ ExecuteNext /\ Goto("check")

\* k is off the GPU when it is submitted, so that its being there afterwards
\* is the success of the transfer.
Transferred(k) ==
    /\ At("check", k)
    /\ Resident(cache, "gpu", k)
    /\ Lookup(k)
    /\ Ensured(k)

NotTransferred(k) ==
    /\ At("check", k)
    /\ ~Resident(cache, "gpu", k)
    /\ Raise
    /\ UNCHANGED vars

(***************************************************************************)
(* The run of the experts, and the release of those to be demoted.         *)
(***************************************************************************)
RunExperts ==
    /\ fwd.phase = "run"
    /\ Finally(FALSE) \/ ("compute" \in Failures /\ Raise)
    /\ UNCHANGED vars

DemoteUsed(k) ==
    /\ At("release", k)
    /\ Demoted(k)
    /\ fwd' = [fwd EXCEPT !.todo = @ \ {k}]
    /\ UNCHANGED <<queue, handles>>

Finish ==
    /\ fwd.phase = "release" /\ fwd.todo = {}
    /\ fwd' = Idle
    /\ UNCHANGED vars

PassStep ==
    \/ RunExperts
    \/ Finish
    \/ \E k \in Keys :
          \/ FindOnGpu(k) \/ FindOnCpu(k) \/ LoadMissing(k) \/ LoadFails(k)
          \/ SubmitOwn(k) \/ SubmitRefused(k) \/ Execute(k)
          \/ Transferred(k) \/ NotTransferred(k)
          \/ DemoteUsed(k)

\* Between passes the same thread may poll for the transfers it started.
Poll(k) ==
    /\ fwd.phase = "idle"
    /\ PollFinished(k) \/ PollCancelled(k) \/ PollReconstructFails(k)
    /\ UNCHANGED fwd

-----------------------------------------------------------------------------
(* "GPU residency is temporary": whatever path a pass takes, it ends with   *)
(* no expert on the GPU that was not there when it began, and when the GPU *)
(* tier had room for them all, with every one that was.                    *)
ResidencyRestored ==
    fwd.phase = "release" /\ fwd.todo = {} =>
        /\ GpuExperts \subseteq fwd.before
        /\ Cardinality(fwd.before \cup fwd.working) <= GpuSlots => GpuExperts = fwd.before

(* The layer gets what it asks for: nothing but a transfer in flight makes  *)
(* its request a duplicate, the request it executes is its own, with a CPU *)
(* copy behind it, and finds a slot unless transfers or the device hold    *)
(* them.                                                                   *)
LayerServed ==
    \A k \in Keys :
        /\ At("submit", k) /\ IsDuplicate(Request(k)) => k \in Active
        /\ At("execute", k) =>
              /\ Resident(cache, "cpu", k)
              /\ \A i \in DOMAIN queue : IsNext(i) => queue[i] = Request(k)
              /\ Active = {} /\ stream = <<>> => CanTransfer(k)
=============================================================================
