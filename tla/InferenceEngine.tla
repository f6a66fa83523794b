--------------------------- MODULE InferenceEngine ---------------------------
(***************************************************************************)
(* engine/engine.py's InferenceEngine: the runtime is built on the first   *)
(* request, a prompt is prefilled and tokens are decoded, each in a pass   *)
(* over the decoder layers.  One host thread runs it all, and an exception *)
(* at any point reaches the caller, who may call again.                    *)
(*                                                                         *)
(* A tensor is its length: prompt, attention mask, and what the key/value  *)
(* cache holds for each layer.  A pass brings the experts of a layer to    *)
(* the GPU one by one (MoELayer has the details); all go through the one   *)
(* staging slot that synchronous transfers need.  What an expert's format  *)
(* is does not change, so that one from the CPU tier is as if loaded anew. *)
(***************************************************************************)
EXTENDS ModelLoader

CONSTANTS
    Disks,      \* the expert stores the engine may find
    Preloads,   \* the preloaded experts it may be given
    Requests,   \* [prompt, max, batch, masked]; masked: the mask's shape fits
    NoRequest,  \* _initialize_runtime() was called for itself
    NoCache,    \* _kv_cache before the first prefill
    Failures,   \* the stages that may raise in a run
    MaxStack    \* bound: no build begins on more layers left by earlier ones

ASSUME EngineAssumption ==
    /\ Requests \subseteq [prompt : Nat, max : Int, batch : Nat \ {0}, masked : BOOLEAN]
    /\ NoRequest \notin Requests
    /\ Disks \subseteq Seq(Contents)
    /\ Preloads \subseteq [Keys -> FileFormats \ {"truncated"}]  \* they were deserialized
    /\ NoCache \notin [LayerIds -> Nat]
    /\ MaxStack \in Nat

VARIABLES
    disk, loader,
    slot,         \* the staging slot
    stack,        \* _decoder_layers, by layer_idx
    parts,        \* the other modules of the runtime that are not None
    initialized,  \* _runtime_initialized
    kv,           \* _kv_cache: the tokens each layer_idx holds
    mask,         \* _attention_mask
    req,          \* the request being served
    at            \* where the host thread is

evars == <<disk, loader, slot, stack, parts, initialized, kv, mask, req, at>>

runtime == <<stack, parts, initialized>>
context == <<kv, mask>>

\* do: the step to come; pos: the layer built or run; todo: its experts still
\* to be run; new: the tokens of the pass; columns: those its causal mask
\* spans; out: the tokens generated.
Idle == [do |-> "idle", pos |-> 0, todo |-> {}, new |-> 0, columns |-> 0, out |-> 0]

EInit ==
    /\ disk \in Disks
    /\ loader = InitLoader
    /\ slot = "blank"
    /\ stack = <<>> /\ parts = {} /\ initialized = FALSE
    /\ kv = NoCache /\ mask = 0
    /\ req = NoRequest
    /\ at = Idle

To(step) == at' = [at EXCEPT !.do = step]

\* The exception leaves behind what was done before it.
Raise == at' = Idle /\ req' = NoRequest

(***************************************************************************)
(* Calls.                                                                  *)
(***************************************************************************)
\* "Register permanently resident CPU experts prepared before inference."
PreloadExperts(P) ==
    /\ at.do = "idle" /\ ~initialized
    /\ loader' = SetPreloaded(loader, P)
    /\ UNCHANGED <<disk, slot, runtime, context, req, at>>

Generate(r) ==
    /\ at.do = "idle"
    /\ initialized \/ Len(stack) <= MaxStack
    /\ req' = r
    /\ To(IF initialized THEN "prefill" ELSE "load")
    /\ UNCHANGED <<disk, loader, slot, runtime, context>>

InitializeRuntime ==
    /\ at.do = "idle" /\ ~initialized /\ Len(stack) <= MaxStack
    /\ To("load")
    /\ UNCHANGED <<disk, loader, slot, runtime, context, req>>

(***************************************************************************)
(* _initialize_runtime.                                                    *)
(***************************************************************************)
BuildIndex ==
    /\ at.do = "load"
    /\ loader' = Load(loader)
    /\ To("embed")
    /\ UNCHANGED <<disk, slot, runtime, context, req>>

BuildEmbedding ==
    /\ at.do = "embed"
    /\ parts' = parts \cup {"embed", "rotary"}
    /\ To("layers")
    /\ UNCHANGED <<disk, loader, slot, stack, initialized, context, req>>

BuildLayer ==
    /\ at.do = "layers"
    /\ stack' = Append(stack, at.pos)
    /\ at' = IF at.pos + 1 = NumLayers THEN [Idle EXCEPT !.do = "norm"]
             ELSE [at EXCEPT !.pos = @ + 1]
    /\ UNCHANGED <<disk, loader, slot, parts, initialized, context, req>>

\* Mutant: the runtime counts as initialized once its layers are there.
BuildNormEarly ==
    /\ at.do = "norm"
    /\ parts' = parts \cup {"norm"}
    /\ initialized' = TRUE
    /\ To("head")
    /\ UNCHANGED <<disk, loader, slot, stack, context, req>>

BuildNorm ==
    /\ at.do = "norm"
    /\ parts' = parts \cup {"norm"}
    /\ To("head")
    /\ UNCHANGED <<disk, loader, slot, stack, initialized, context, req>>

BuildHead ==
    /\ at.do = "head"
    /\ parts' = parts \cup {"head"}
    /\ initialized' = TRUE
    /\ kv' = NoCache
    /\ To(IF req = NoRequest THEN "idle" ELSE "prefill")
    /\ UNCHANGED <<disk, loader, slot, stack, mask, req>>

\* The module is assigned before its weights are loaded.
BuildFails ==
    /\ "build" \in Failures
    /\ at.do \in {"load", "embed", "layers", "norm", "head"}
    /\ parts' = parts \cup ({at.do} \cap {"embed", "norm", "head"})
    /\ Raise
    /\ UNCHANGED <<disk, loader, slot, stack, initialized, context>>

(***************************************************************************)
(* A pass over the layers, _forward_layers, for the last `new' tokens.     *)
(***************************************************************************)
\* The causal mask is made once, from what the cache holds for layer 0.
Pass(new, held) ==
    at' = [do |-> "attend", pos |-> 1, todo |-> {}, new |-> new, columns |-> held + new,
           out |-> at.out]

InPass(step, pos, todo) ==
    at' = [do |-> step, pos |-> pos, todo |-> todo, new |-> at.new, columns |-> at.columns,
           out |-> at.out]

\* The mask is cut to the keys' length, and broadcast if it is one column.
Attends(columns, keys) == columns >= keys \/ columns = 1

Extended == [kv EXCEPT ![stack[at.pos]] = @ + at.new]

ExpertsOf(layer) == {k \in Keys : k[1] = layer}

\* Mutant: each layer's mask is made for the keys it will see.
AttendToAny(experts) ==
    /\ at.do = "attend"
    /\ experts # {} /\ experts \subseteq ExpertsOf(stack[at.pos])
    /\ kv' = Extended
    /\ InPass("experts", at.pos, experts)
    /\ UNCHANGED <<disk, loader, slot, runtime, mask, req>>

AttendTo(experts) ==
    /\ at.do = "attend"
    /\ Attends(at.columns, Extended[stack[at.pos]])
    /\ experts # {} /\ experts \subseteq ExpertsOf(stack[at.pos])
    /\ kv' = Extended
    /\ InPass("experts", at.pos, experts)
    /\ UNCHANGED <<disk, loader, slot, runtime, mask, req>>

AttendFails ==
    /\ at.do = "attend"
    /\ ~Attends(at.columns, Extended[stack[at.pos]])
    /\ kv' = Extended
    /\ Raise
    /\ UNCHANGED <<disk, loader, slot, runtime, mask>>

Format(k) == LoadExpert(loader, disk, k)

Turn(k) == at.do = "experts" /\ k \in at.todo /\ \A j \in at.todo : k[2] <= j[2]

RunExpert(k) ==
    /\ Turn(k)
    /\ Stageable(slot, Format(k))
    /\ slot' = Stage(slot, Format(k))
    /\ \/ at.todo # {k} /\ InPass("experts", at.pos, at.todo \ {k})
       \/ at.todo = {k} /\ at.pos < Len(stack) /\ InPass("attend", at.pos + 1, {})
       \/ at.todo = {k} /\ at.pos = Len(stack) /\ InPass("logits", at.pos, {})
    /\ UNCHANGED <<disk, loader, runtime, context, req>>

\* Mutant: an expert that fails is tried again.
ExpertRetried(k) ==
    /\ Turn(k)
    /\ Stageable(slot, Format(k)) => "expert" \in Failures
    /\ slot' \in {slot, Stage(slot, Format(k))}
    /\ UNCHANGED <<disk, loader, runtime, context, req, at>>

\* The expert cannot be loaded or staged, or a later stage fails.
ExpertFails(k) ==
    /\ Turn(k)
    /\ Stageable(slot, Format(k)) => "expert" \in Failures
    /\ slot' \in {slot, Stage(slot, Format(k))}
    /\ Raise
    /\ UNCHANGED <<disk, loader, runtime, context>>

(***************************************************************************)
(* _prefill and _decode.                                                   *)
(***************************************************************************)
Fits(r) == r.prompt > 0 /\ r.masked

\* Mutant: a cache left by an earlier request is used again.
PrefillOnOldCache ==
    /\ at.do = "prefill" /\ Fits(req)
    /\ kv' = IF kv = NoCache THEN [l \in LayerIds |-> 0] ELSE kv
    /\ mask' = req.prompt
    /\ Pass(req.prompt, 0)
    /\ UNCHANGED <<disk, loader, slot, runtime, req>>

Prefill ==
    /\ at.do = "prefill" /\ Fits(req)
    /\ kv' = [l \in LayerIds |-> 0]
    /\ mask' = req.prompt
    /\ Pass(req.prompt, 0)
    /\ UNCHANGED <<disk, loader, slot, runtime, req>>

PrefillRefused ==
    /\ at.do = "prefill" /\ ~Fits(req)
    /\ Raise
    /\ UNCHANGED <<disk, loader, slot, runtime, context>>

\* The logits of the prompt's pass are no token yet: that is _decode's first.
Logits ==
    /\ at.do = "logits"
    /\ at' = [at EXCEPT !.do = "decode", !.out = IF @ = 0 THEN 0 ELSE @ + 1]
    /\ UNCHANGED <<disk, loader, slot, runtime, context, req>>

Decodable(r) == r.max = 0 \/ (r.max > 0 /\ r.batch = 1)

DecodeRefused ==
    /\ at.do = "decode" /\ at.out = 0 /\ ~Decodable(req)
    /\ Raise
    /\ UNCHANGED <<disk, loader, slot, runtime, context>>

DecodeFirst ==
    /\ at.do = "decode" /\ at.out = 0 /\ Decodable(req) /\ req.max > 0
    /\ at' = [at EXCEPT !.out = 1]
    /\ UNCHANGED <<disk, loader, slot, runtime, context, req>>

\* Mutant: one pass more than there are tokens to return.
DecodeNextTooFar ==
    /\ at.do = "decode" /\ at.out > 0 /\ at.out <= req.max
    /\ mask' = mask + 1
    /\ Pass(1, kv[0])
    /\ UNCHANGED <<disk, loader, slot, runtime, kv, req>>

DecodeNext ==
    /\ at.do = "decode" /\ at.out > 0 /\ at.out < req.max
    /\ mask' = mask + 1
    /\ Pass(1, kv[0])
    /\ UNCHANGED <<disk, loader, slot, runtime, kv, req>>

DecodeEnds ==
    /\ at.do = "decode" /\ Decodable(req) /\ at.out >= req.max
    /\ To("return")
    /\ UNCHANGED <<disk, loader, slot, runtime, context, req>>

Return == at.do = "return" /\ Raise /\ UNCHANGED <<disk, loader, slot, runtime, context>>

\* The host thread in a call.
Proceed ==
    \/ BuildIndex \/ BuildEmbedding \/ BuildLayer \/ BuildNorm \/ BuildHead \/ BuildFails
    \/ Prefill \/ PrefillRefused
    \/ \E experts \in SUBSET Keys : AttendTo(experts)
    \/ AttendFails
    \/ \E k \in Keys : RunExpert(k) \/ ExpertFails(k)
    \/ Logits
    \/ DecodeRefused \/ DecodeFirst \/ DecodeNext \/ DecodeEnds
    \/ Return

ENext ==
    \/ \E P \in Preloads : PreloadExperts(P)
    \/ \E r \in Requests : Generate(r)
    \/ InitializeRuntime
    \/ Proceed

ESpec == EInit /\ [][ENext]_evars /\ WF_evars(Proceed)

-----------------------------------------------------------------------------
(* "Build the persistent Mixtral execution graph exactly once."            *)
StackBuiltOnce == Len(stack) <= NumLayers

WellBuilt == stack = [i \in 1..NumLayers |-> i - 1]

(* No pass runs, and no call skips the build, on a runtime that a failed    *)
(* build left unfinished: every module is there and the last layers of the *)
(* stack are the model's, in order.                                        *)
InitializedComplete ==
    initialized \/ at.do \in {"attend", "experts"} =>
        /\ loader.loaded
        /\ parts = {"embed", "rotary", "norm", "head"}
        /\ \A l \in LayerIds : stack[Len(stack) - NumLayers + 1 + l] = l

(* Prefill and decoding keep mask, cache and positions in step, whatever   *)
(* earlier requests and failures left behind: when a layer is to attend,   *)
(* the layers before it hold a key for every column of the mask, the       *)
(* others all but the new ones, and the causal mask spans them all.        *)
ContextAligned ==
    at.do = "attend" /\ WellBuilt =>
        /\ at.columns = mask
        /\ \A l \in LayerIds : kv[l] = IF l + 1 < at.pos THEN mask ELSE mask - at.new

(* A request that is answered gets the tokens it asked for, and leaves the *)
(* cache holding the prompt and all of them but the last, for every layer  *)
(* (tests/test_engine_prefill_decode.py:68).                               *)
TokensAccounted ==
    at.do = "return" /\ WellBuilt =>
        /\ at.out = req.max
        /\ \A l \in LayerIds : kv[l] = req.prompt + (IF req.max = 0 THEN 0 ELSE req.max - 1)

(* A stack with layers twice in it does not go unnoticed, except for a     *)
(* prompt of one token and no pass beyond it, where the mask broadcasts.   *)
DoubledStackRefuses ==
    at.do = "return" /\ ~WellBuilt => req.prompt = 1 /\ req.max <= 1

(* The formats of the experts the engine can be asked for.                 *)
FormatsAround ==
    {disk[i][k] : i \in DOMAIN disk, k \in Keys} \cup {loader.preloaded[k] : k \in Keys}

(* Stores in one format are all an engine needs: whatever the order of     *)
(* requests, failures and stores, an expert that can be loaded fits the    *)
(* staging slot, which keeps the format it was first used for.             *)
UniformStoreServes ==
    disk # <<>> /\ (FormatsAround \subseteq {"plain", "truncated", "absent"}
                    \/ FormatsAround \subseteq {"nested", "truncated", "absent"}) =>
        \A k \in Keys : Turn(k) /\ Format(k) # "error" => Stageable(slot, Format(k))

(* A call returns or raises: generation is not endless.                    *)
CallEnds == at.do # "idle" ~> at.do = "idle"
=============================================================================
