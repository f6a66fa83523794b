--------------------------- MODULE PrefetchEngine ---------------------------
(***************************************************************************)
(* engine/prefetch.py's PrefetchEngine in the inference loop its docstring *)
(* describes: the layers run one after the other, and on_layer_complete    *)
(* follows each.  It cancels the prefetches of the layers that have been   *)
(* passed and submits, for the layers ahead, the experts the pass just     *)
(* used.  Between passes the caller may poll the scheduler.  An exception, *)
(* in a pass or in the callback, ends the token's forward; the next one    *)
(* starts at the first layer.                                              *)
(*                                                                         *)
(* _in_flight maps an expert to the id of its request.  The prefetch       *)
(* engine is the only one to submit asynchronously, so an expert's         *)
(* transfer in flight is the one tracked for it (NoStalePrefetch).         *)
(***************************************************************************)
EXTENDS MoELayer

CONSTANT Depth  \* layers looked ahead: 0 (NONE), 1 (NEXT_LAYER) or depth

ASSUME DepthAssumption == Depth \in Nat

VARIABLES
    tracked,  \* the experts in PrefetchEngine._in_flight
    step      \* the caller's place in the loop

pvars == <<cache, published, pool, stream, queue, handles, buffers, fwd, tracked, step>>

\* do: running a layer, cancelling or submitting prefetches; for experts todo.
AtLayer(layer) == [do |-> "run", layer |-> layer, todo |-> {}, used |-> {}]

PInit == FInit /\ tracked = {} /\ step = AtLayer(Min(Layers))

BeginPass ==
    /\ step.do = "run"
    /\ \E E \in SUBSET ExpertsOf(step.layer) : Begin(E)
    /\ UNCHANGED <<tracked, step>>

Stale(layer) == {k \in tracked : k[1] < layer + 1}

Predicted(layer, experts) ==
    {<<l, k[2]>> : l \in (layer + 1)..(layer + Depth), k \in experts}

PassCompletes ==
    /\ Finish
    /\ ~fwd.failed
    /\ step' = [do |-> "cancel", layer |-> step.layer, todo |-> Stale(step.layer),
                used |-> fwd.working]
    /\ UNCHANGED tracked

PassRaises ==
    /\ Finish
    /\ fwd.failed
    /\ step' = AtLayer(Min(Layers))
    /\ UNCHANGED tracked

\* Mutant: what the scheduler does not cancel stays marked.
CancelStaleMarked(k) ==
    /\ step.do = "cancel" /\ step.todo # {} /\ k = Least(step.todo)
    /\ step' = [step EXCEPT !.todo = @ \ {k}]
    /\ \/ CancelAsync(k) /\ tracked' = tracked \ {k}
       \/ handles[k].status # "in_flight" /\ UNCHANGED <<vars, tracked>>
    /\ UNCHANGED fwd

\* cancel_stale's turn of the expert k; the cancellations are independent of
\* each other, and so of the order in which they are made.
CancelStale(k) ==
    /\ step.do = "cancel" /\ step.todo # {} /\ k = Least(step.todo)
    /\ tracked' = tracked \ {k}
    /\ step' = [step EXCEPT !.todo = @ \ {k}]
    /\ \/ CancelAsync(k)
       \/ handles[k].status # "in_flight" /\ UNCHANGED vars
    /\ UNCHANGED fwd

StartSubmitting ==
    /\ step.do = "cancel" /\ step.todo = {}
    /\ step' = [step EXCEPT !.do = "submit", !.todo = Predicted(step.layer, step.used)]
    /\ UNCHANGED <<cache, published, pool, stream, queue, handles, buffers, fwd, tracked>>

(***************************************************************************)
(* _submit_if_needed.  The last layer has none behind it, but the engine   *)
(* does not know: the experts it submits then are in no cache.             *)
(***************************************************************************)
AtSubmit(k) == step.do = "submit" /\ step.todo # {} /\ k = Least(step.todo)

NextExpert(k) == step' = [step EXCEPT !.todo = @ \ {k}] /\ UNCHANGED fwd

Needed(k) == k \notin tracked /\ ~Resident(cache, "gpu", k)

PrefetchStarts(k) ==
    /\ AtSubmit(k) /\ Needed(k)
    /\ SubmitAsync(k)
    /\ tracked' = tracked \cup {k}
    /\ NextExpert(k)

PrefetchUnbacked(k) ==
    /\ AtSubmit(k) /\ Needed(k)
    /\ AsyncUnbacked(k)
    /\ NextExpert(k)
    /\ UNCHANGED tracked

PrefetchRefused(k) ==
    /\ AtSubmit(k)
    /\ ~(Needed(k) /\ Accepts(k))
    /\ NextExpert(k)
    /\ UNCHANGED <<vars, tracked>>

PrefetchRaises(k) ==
    /\ AtSubmit(k) /\ Needed(k)
    /\ AsyncFails(k)
    /\ step' = AtLayer(Min(Layers))
    /\ UNCHANGED <<fwd, tracked>>

NextLayer ==
    /\ step.do = "submit" /\ step.todo = {}
    /\ step' = AtLayer(IF step.layer = Max(Layers) THEN Min(Layers) ELSE step.layer + 1)
    /\ UNCHANGED <<vars, fwd, tracked>>

PollBetweenPasses(k) == step.do = "run" /\ Poll(k) /\ UNCHANGED <<tracked, step>>

\* The host thread in a layer's turn: its pass and the callback behind it.
TurnStep ==
    \/ PassStep /\ fwd'.phase # "idle" /\ UNCHANGED <<tracked, step>>
    \/ PassCompletes \/ PassRaises
    \/ StartSubmitting \/ NextLayer
    \/ \E k \in Keys : CancelStale(k)
    \/ \E k \in Predicted(step.layer, step.used) :
          \/ PrefetchStarts(k) \/ PrefetchUnbacked(k)
          \/ PrefetchRefused(k) \/ PrefetchRaises(k)

PNext ==
    \/ BeginPass
    \/ TurnStep
    \/ \E k \in Keys : PollBetweenPasses(k)
    \/ DeviceStep /\ UNCHANGED <<fwd, tracked, step>>

InTurn == fwd.phase # "idle" \/ step.do # "run"

\* Once in a turn the host thread does not stop; nothing makes it begin one.
PSpec == PInit /\ [][PNext]_pvars /\ WF_pvars(TurnStep)

-----------------------------------------------------------------------------
(* on_layer_complete "cancels stale in-flight prefetches": when a layer is *)
(* about to run, every transfer in flight is one the engine tracks, so     *)
(* that it can cancel it, and all it tracks is for this layer or a later   *)
(* one.  The engine is told of no completion, so an expert whose transfer  *)
(* ended stays marked as submitted and is not prefetched again, but the    *)
(* mark is gone before a later layer runs.                                 *)
NoStalePrefetch ==
    step.do = "run" =>
        /\ \A k \in Keys : handles[k].status = "in_flight" => k \in tracked
        /\ \A k \in tracked : k[1] >= step.layer

(* Prefetching is there to spare the layers their transfers: no layer finds *)
(* that a prefetch stands in the way of its own.                           *)
PrefetchNeverHinders == \A k \in Keys : At("submit", k) => k \notin Active

(* A layer's turn that begins ends, whatever fails on the way: its pass     *)
(* reaches the end of its finally clause and its callback returns.         *)
TurnEnds == InTurn ~> ~InTurn
=============================================================================
