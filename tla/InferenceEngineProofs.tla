------------------------ MODULE InferenceEngineProofs ------------------------
(***************************************************************************)
(* What the engine promises for any number of layers and experts, any      *)
(* stores and requests, and any failures.                                  *)
(*                                                                         *)
(* IInv says what holds at each step of a call: what has been built, how   *)
(* long the mask is and what each layer's cache holds, and which format    *)
(* the staging slot has.  A failure keeps it because an exception leaves   *)
(* the host thread idle, where it says little.                             *)
(***************************************************************************)
EXTENDS InferenceEngine, FiniteSetTheorems, WellFoundedInduction, TLAPS

Building == {"load", "embed", "layers", "norm", "head"}

Serving == {"prefill", "attend", "experts", "logits", "decode", "return"}

Places ==
    [do : {"idle"} \cup Building \cup Serving, pos : Nat, todo : SUBSET Keys, new : Nat,
     columns : Nat, out : Nat]

AllParts == {"embed", "rotary", "norm", "head"}

Types ==
    /\ disk \in Disks
    /\ loader \in [loaded : BOOLEAN, preloaded : [Keys -> FileFormats \ {"truncated"}]]
    /\ slot \in {"blank", "plain", "nested"}
    /\ stack \in Seq(LayerIds)
    /\ parts \subseteq AllParts
    /\ initialized \in BOOLEAN
    /\ kv \in [LayerIds -> Nat] \cup {NoCache}
    /\ mask \in Nat
    /\ req \in Requests \cup {NoRequest}
    /\ at \in Places

\* The last n layers of the stack are the first n of the model.
StackEndsWith(n) == Len(stack) >= n /\ \A l \in 0..(n - 1) : stack[Len(stack) - n + 1 + l] = l

\* What a build has done when it is at a step.
Built ==
    /\ at.do \in Building => ~initialized
    /\ at.do \in Serving => initialized
    /\ at.do \in {"embed", "layers", "norm", "head"} \/ initialized => loader.loaded
    /\ at.do \in {"layers", "norm", "head"} \/ initialized => {"embed", "rotary"} \subseteq parts
    /\ at.do = "head" \/ initialized => "norm" \in parts
    /\ initialized => "head" \in parts
    /\ at.do \in {"norm", "head"} \/ initialized => StackEndsWith(NumLayers)
    /\ at.do = "layers" => at.pos < NumLayers /\ StackEndsWith(at.pos)
    /\ at.do \in {"idle", "load", "embed", "norm", "head"} => at.pos = 0
    /\ at.do \in {"idle", "prefill"} \cup Building => at.out = 0

\* A call that serves has a request and a cache; a pass is at a layer.
Serves ==
    /\ at.do \in Serving => req \in Requests
    /\ at.do \in Serving \ {"prefill"} => kv \in [LayerIds -> Nat]
    /\ at.do \in {"attend", "experts"} => at.pos \in 1..Len(stack)

\* The mask's length in a pass, and after it.
MaskInPass ==
    /\ at.out = 0 => mask = req.prompt
    /\ at.out > 0 => mask = req.prompt + at.out /\ at.out < req.max

MaskAfter == mask = req.prompt + (IF at.out = 0 THEN 0 ELSE at.out - 1)

\* The first n layers hold a key for every column of the mask, the others
\* all but the new ones.
Held(n) == \A l \in LayerIds : kv[l] = IF l < n THEN mask ELSE mask - at.new

Full == \A l \in LayerIds : kv[l] = mask

Aligned ==
    /\ at.do = "attend" => at.columns = mask /\ Held(at.pos - 1) /\ MaskInPass
    /\ at.do = "experts" => at.columns = mask /\ Held(at.pos) /\ MaskInPass
    /\ at.do = "logits" => Full /\ MaskInPass
    /\ at.do = "decode" => Full /\ MaskAfter /\ (at.out > 0 => at.out <= req.max)
    /\ at.do = "return" => Full /\ MaskAfter /\ at.out = req.max

\* The slot has the format of an expert that was served.
SlotFormat ==
    /\ slot # "blank" => initialized
    /\ slot # "blank" /\ disk # <<>> => slot \in FormatsAround

IInv == Types /\ Built /\ Serves /\ (WellBuilt => Aligned) /\ SlotFormat

-----------------------------------------------------------------------------
(* The place in a call, one field at a time.                               *)
LEMMA SetDo ==
    ASSUME NEW a \in Places, NEW step \in {"idle"} \cup Building \cup Serving
    PROVE  LET b == [a EXCEPT !.do = step] IN
           /\ b \in Places /\ b.do = step /\ b.pos = a.pos /\ b.todo = a.todo /\ b.new = a.new
           /\ b.columns = a.columns /\ b.out = a.out
BY DEF Places

\* The layer.
LEMMA SetPos ==
    ASSUME NEW a \in Places, NEW n \in Nat
    PROVE  LET b == [a EXCEPT !.pos = n] IN
           /\ b \in Places /\ b.do = a.do /\ b.pos = n /\ b.todo = a.todo /\ b.new = a.new
           /\ b.columns = a.columns /\ b.out = a.out
BY DEF Places

\* The place at the beginning of a pass, and in it.
LEMMA PassPlace ==
    ASSUME NEW n \in Nat, NEW held \in Nat, at \in Places, Pass(n, held)
    PROVE  /\ at' \in Places /\ at'.do = "attend" /\ at'.pos = 1 /\ at'.new = n
           /\ at'.columns = held + n /\ at'.out = at.out
<1>1. at.out \in Nat /\ held + n \in Nat
  BY DEF Places
<1> QED  BY <1>1 DEF Places, Pass, Serving

\* The steps of a pass.
LEMMA InPassPlace ==
    ASSUME NEW step \in Serving, NEW n \in Nat, NEW S \in SUBSET Keys, at \in Places,
           InPass(step, n, S)
    PROVE  /\ at' \in Places /\ at'.do = step /\ at'.pos = n /\ at'.new = at.new
           /\ at'.columns = at.columns /\ at'.out = at.out
<1>1. at.out \in Nat /\ at.new \in Nat /\ at.columns \in Nat
  BY DEF Places
<1> QED  BY <1>1 DEF Places, InPass

\* The tokens that are out.
LEMMA SetOut ==
    ASSUME NEW a \in Places, NEW n \in Nat
    PROVE  LET b == [a EXCEPT !.out = n] IN
           /\ b \in Places /\ b.do = a.do /\ b.pos = a.pos /\ b.todo = a.todo /\ b.new = a.new
           /\ b.columns = a.columns /\ b.out = n
BY DEF Places

\* Between calls.
LEMMA IdlePlace ==
    /\ Idle \in Places /\ Idle.do = "idle" /\ Idle.pos = 0 /\ Idle.todo = {} /\ Idle.new = 0
    /\ Idle.columns = 0 /\ Idle.out = 0
BY DEF Idle, Places

-----------------------------------------------------------------------------
(* One lemma per action.  First, the initial states and the calls.         *)
LEMMA EngineInit == EInit => IInv
<1> SUFFICES ASSUME EInit PROVE IInv
  OBVIOUS
<1>1. Types
  <2>1. InitLoader \in [loaded : BOOLEAN, preloaded : [Keys -> FileFormats \ {"truncated"}]]
    BY DEF InitLoader, FileFormats
  <2>2. stack \in Seq(LayerIds) /\ parts \subseteq AllParts
    BY DEF EInit
  <2> QED  BY <2>1, <2>2, IdlePlace DEF EInit, Types
<1>2. Built /\ Serves
  BY IdlePlace DEF EInit, Built, Serves, Building, Serving
<1>3. Aligned /\ SlotFormat
  BY IdlePlace DEF EInit, Aligned, SlotFormat
<1> QED  BY <1>1, <1>2, <1>3 DEF IInv

\* An exception leaves behind what was done before it.
LEMMA RaiseInv ==
    ASSUME IInv, Raise, UNCHANGED <<disk, loader, stack, initialized, mask>>,
           parts \subseteq parts', parts' \subseteq AllParts,
           kv' \in [LayerIds -> Nat] \cup {NoCache},
           \/ slot' = slot
           \/ /\ slot' \in {"plain", "nested"} /\ initialized
              /\ disk # <<>> => slot' \in FormatsAround
    PROVE  IInv'
<1> USE DEF IInv
<1>1. Types'
  BY IdlePlace DEF Raise, Types
<1>2. at'.do = "idle" /\ at'.pos = 0 /\ at'.out = 0
  BY IdlePlace DEF Raise
<1>3. (StackEndsWith(NumLayers) <=> StackEndsWith(NumLayers)') /\ FormatsAround' = FormatsAround
  BY DEF StackEndsWith, FormatsAround
<1>4. Built'
  BY <1>2, <1>3 DEF Built, Building, Serving
<1>5. Serves' /\ Aligned'
  BY <1>2 DEF Serves, Aligned, Serving
<1>6. SlotFormat'
  BY <1>3 DEF SlotFormat
<1> QED  BY <1>1, <1>4, <1>5, <1>6

\* Preloading comes before the build.
LEMMA PreloadInv ==
    ASSUME IInv, NEW P \in Preloads, PreloadExperts(P)
    PROVE  IInv'
<1> USE DEF IInv
<1>1. loader' \in [loaded : BOOLEAN, preloaded : [Keys -> FileFormats \ {"truncated"}]]
      /\ loader'.loaded = loader.loaded
  BY EngineAssumption DEF PreloadExperts, SetPreloaded, Types
<1>2. Types'
  BY <1>1 DEF PreloadExperts, Types, runtime, context
<1>3. at' = at /\ at.do = "idle" /\ ~initialized /\ ~initialized'
  BY DEF PreloadExperts, runtime
<1>4. Built'
  BY <1>1, <1>3 DEF Built, Building, Serving
<1>5. Serves' /\ Aligned'
  BY <1>3 DEF Serves, Aligned, Serving
<1>6. SlotFormat'
  BY <1>3 DEF SlotFormat, PreloadExperts
<1> QED  BY <1>2, <1>4, <1>5, <1>6

\* A request is taken.
LEMMA GenerateInv ==
    ASSUME IInv, NEW r \in Requests, Generate(r)
    PROVE  IInv'
<1> USE DEF IInv
<1>1. at \in Places /\ at.do = "idle" /\ at.pos = 0 /\ at.out = 0
  BY DEF Generate, Types, Built
<1>2. /\ at' \in Places /\ at'.pos = 0 /\ at'.out = 0
      /\ at'.do = IF initialized THEN "prefill" ELSE "load"
  <2>1. CASE initialized
    BY <1>1, <2>1, SetDo DEF Generate, To, Serving
  <2>2. CASE ~initialized
    BY <1>1, <2>2, SetDo DEF Generate, To, Building
  <2> QED  BY <2>1, <2>2
<1>3. UNCHANGED <<disk, loader, slot, stack, parts, initialized, kv, mask>> /\ req' = r
  BY DEF Generate, runtime, context
<1>4. Types'
  BY <1>2, <1>3 DEF Types
<1>5. Built'
  BY <1>2, <1>3 DEF Built, Building, Serving, StackEndsWith
<1>6. Serves' /\ Aligned'
  BY <1>2, <1>3 DEF Serves, Aligned, Serving
<1>7. SlotFormat'
  BY <1>3 DEF SlotFormat, FormatsAround
<1> QED  BY <1>4, <1>5, <1>6, <1>7

\* The build is asked for without a request.
LEMMA InitializeRuntimeInv ==
    ASSUME IInv, InitializeRuntime
    PROVE  IInv'
<1> USE DEF IInv
<1>1. at \in Places /\ at.pos = 0 /\ at.out = 0 /\ ~initialized
  BY DEF InitializeRuntime, Types, Built
<1>2. at' \in Places /\ at'.pos = 0 /\ at'.out = 0 /\ at'.do = "load"
  BY <1>1, SetDo DEF InitializeRuntime, To, Building
<1>3. UNCHANGED <<disk, loader, slot, stack, parts, initialized, kv, mask, req>>
  BY DEF InitializeRuntime, runtime, context
<1>4. Types'
  BY <1>2, <1>3 DEF Types
<1>5. Built'
  BY <1>1, <1>2, <1>3 DEF Built, Building, Serving
<1>6. Serves' /\ Aligned'
  BY <1>2 DEF Serves, Aligned, Serving
<1>7. SlotFormat'
  BY <1>3 DEF SlotFormat, FormatsAround
<1> QED  BY <1>4, <1>5, <1>6, <1>7

-----------------------------------------------------------------------------
(* The build.                                                              *)
LEMMA BuildIndexInv ==
    ASSUME IInv, BuildIndex
    PROVE  IInv'
<1> USE DEF IInv
<1>1. at \in Places /\ at.pos = 0 /\ at.out = 0 /\ ~initialized
  BY DEF BuildIndex, Types, Built, Building
<1>2. at' \in Places /\ at'.pos = 0 /\ at'.out = 0 /\ at'.do = "embed"
  BY <1>1, SetDo DEF BuildIndex, To, Building
<1>3. UNCHANGED <<disk, slot, stack, parts, initialized, kv, mask, req>>
  BY DEF BuildIndex, runtime, context
<1>4. /\ loader' \in [loaded : BOOLEAN, preloaded : [Keys -> FileFormats \ {"truncated"}]]
      /\ loader'.loaded
  BY DEF BuildIndex, Load, Types
<1>5. Types'
  BY <1>2, <1>3, <1>4 DEF Types
<1>6. Built'
  BY <1>1, <1>2, <1>3, <1>4 DEF Built, Building, Serving
<1>7. Serves' /\ Aligned'
  BY <1>2 DEF Serves, Aligned, Serving
<1>8. SlotFormat'
  BY <1>1, <1>3 DEF SlotFormat
<1> QED  BY <1>5, <1>6, <1>7, <1>8

\* The embedding and the rotary tables.
LEMMA BuildEmbeddingInv ==
    ASSUME IInv, BuildEmbedding
    PROVE  IInv'
<1> USE DEF IInv
<1>1. at \in Places /\ at.pos = 0 /\ at.out = 0 /\ ~initialized /\ loader.loaded
  BY DEF BuildEmbedding, Types, Built, Building
<1>2. at' \in Places /\ at'.pos = 0 /\ at'.out = 0 /\ at'.do = "layers"
  BY <1>1, SetDo DEF BuildEmbedding, To, Building
<1>3. UNCHANGED <<disk, loader, slot, stack, initialized, kv, mask, req>>
      /\ parts' = parts \cup {"embed", "rotary"}
  BY DEF BuildEmbedding, context
<1>4. Types'
  BY <1>2, <1>3 DEF Types, AllParts
<1>5. at'.pos < NumLayers /\ StackEndsWith(at.pos)'
  <2>1. NumLayers \in Nat \ {0} /\ Len(stack') \in Nat
    BY <1>4, ModelAssumption DEF Types
  <2> QED  BY <1>1, <1>2, <2>1 DEF StackEndsWith
<1>6. Built'
  BY <1>1, <1>2, <1>3, <1>5 DEF Built, Building, Serving
<1>7. Serves' /\ Aligned'
  BY <1>2 DEF Serves, Aligned, Serving
<1>8. SlotFormat'
  BY <1>1, <1>3 DEF SlotFormat
<1> QED  BY <1>4, <1>6, <1>7, <1>8

\* One layer more of the stack is in order.
LEMMA BuildLayerInv ==
    ASSUME IInv, BuildLayer
    PROVE  IInv'
<1> USE DEF IInv
<1>1. /\ at \in Places /\ at.pos \in Nat /\ at.pos < NumLayers /\ StackEndsWith(at.pos)
      /\ at.do = "layers" /\ at.out = 0 /\ ~initialized /\ loader.loaded
      /\ {"embed", "rotary"} \subseteq parts
  BY DEF BuildLayer, Types, Built, Building, Places
<1>2. NumLayers \in Nat \ {0}
  BY ModelAssumption
<1>3. at' \in Places /\ at'.out = 0
      /\ \/ at.pos + 1 = NumLayers /\ at'.do = "norm" /\ at'.pos = 0
         \/ at.pos + 1 # NumLayers /\ at'.do = "layers" /\ at'.pos = at.pos + 1
  <2>1. CASE at.pos + 1 = NumLayers
    <3>1. at' = [Idle EXCEPT !.do = "norm"]
      BY <2>1 DEF BuildLayer
    <3> QED  BY <2>1, <3>1, SetDo, IdlePlace DEF Building
  <2>2. CASE at.pos + 1 # NumLayers
    <3>1. at' = [at EXCEPT !.pos = at.pos + 1] /\ at.pos + 1 \in Nat
      BY <1>1, <2>2 DEF BuildLayer
    <3> QED  BY <1>1, <2>2, <3>1, SetPos
  <2> QED  BY <2>1, <2>2
<1>4. UNCHANGED <<disk, loader, slot, parts, initialized, kv, mask, req>>
      /\ stack' = Append(stack, at.pos)
  BY DEF BuildLayer, context
<1>5. at.pos \in LayerIds /\ stack' \in Seq(LayerIds)
  BY <1>1, <1>2, <1>4 DEF LayerIds, Types
<1>6. /\ Len(stack') \in Nat /\ Len(stack') >= at.pos + 1
      /\ \A l \in 0..at.pos : stack'[Len(stack') - (at.pos + 1) + 1 + l] = l
  <2>0. stack \in Seq(LayerIds) /\ Len(stack) \in Nat /\ Len(stack') = Len(stack) + 1
    BY <1>4, <1>5 DEF Types
  <2> DEFINE n == at.pos
  <2>1. ASSUME NEW l \in 0..n PROVE stack'[Len(stack') - (n + 1) + 1 + l] = l
    <3>1. Len(stack') - (n + 1) + 1 + l = Len(stack) - n + 1 + l
      BY <1>1, <2>0
    <3>2. CASE l = n
      BY <1>1, <1>4, <2>0, <3>1, <3>2
    <3>3. CASE l # n
      <4>1. l \in 0..(n - 1)
        BY <1>1, <3>3
      <4>2. Len(stack) - n + 1 + l \in 1..Len(stack)
        BY <1>1, <2>0, <4>1 DEF StackEndsWith
      <4>3. stack'[Len(stack) - n + 1 + l] = stack[Len(stack) - n + 1 + l]
        BY <1>4, <2>0, <4>2
      <4>4. stack[Len(stack) - n + 1 + l] = l
        BY <1>1, <4>1 DEF StackEndsWith
      <4> QED  BY <3>1, <4>3, <4>4
    <3> QED  BY <3>2, <3>3
  <2> QED  BY <1>1, <2>0, <2>1 DEF StackEndsWith
<1>7. Types'
  BY <1>3, <1>4, <1>5 DEF Types
<1>8. Built'
  <2>1. CASE at.pos + 1 = NumLayers
    <3>1. StackEndsWith(NumLayers)' /\ at'.do = "norm" /\ at'.pos = 0
      <4>1. at.pos = NumLayers - 1 /\ at'.do = "norm" /\ at'.pos = 0
        BY <1>1, <1>2, <1>3, <2>1
      <4>2. /\ Len(stack') >= NumLayers
            /\ \A l \in 0..(NumLayers - 1) : stack'[Len(stack') - NumLayers + 1 + l] = l
        BY <1>2, <1>6, <2>1, <4>1
      <4> QED  BY <4>1, <4>2 DEF StackEndsWith
    <3> QED  BY <1>1, <1>3, <1>4, <3>1 DEF Built, Building, Serving
  <2>2. CASE at.pos + 1 # NumLayers
    <3>1. /\ StackEndsWith(at.pos)' /\ at'.do = "layers" /\ at'.pos < NumLayers
      <4>1. at'.do = "layers" /\ at'.pos = at.pos + 1 /\ at'.pos < NumLayers
        BY <1>1, <1>2, <1>3, <2>2
      <4>2. 0..(at'.pos - 1) = 0..at.pos
        BY <1>1, <4>1
      <4> QED  BY <1>6, <4>1, <4>2 DEF StackEndsWith
    <3> QED  BY <1>1, <1>3, <1>4, <3>1 DEF Built, Building, Serving
  <2> QED  BY <2>1, <2>2
<1>9. Serves' /\ Aligned'
  BY <1>3 DEF Serves, Aligned, Serving
<1>10. SlotFormat'
  BY <1>1, <1>4 DEF SlotFormat
<1> QED  BY <1>7, <1>8, <1>9, <1>10

\* The final norm.
LEMMA BuildNormInv ==
    ASSUME IInv, BuildNorm
    PROVE  IInv'
<1> USE DEF IInv
<1>1. at \in Places /\ at.do = "norm" /\ at.out = 0 /\ at.pos = 0 /\ ~initialized
  BY DEF BuildNorm, Types, Built, Building
<1>2. at' \in Places /\ at'.out = 0 /\ at'.do = "head" /\ at'.pos = 0
  BY <1>1, SetDo DEF BuildNorm, To, Building
<1>3. UNCHANGED <<disk, loader, slot, stack, initialized, kv, mask, req>>
      /\ parts' = parts \cup {"norm"}
  BY DEF BuildNorm, context
<1>4. Types'
  BY <1>2, <1>3 DEF Types, AllParts
<1>5. StackEndsWith(NumLayers)'
  BY <1>1, <1>3 DEF Built, StackEndsWith
<1>6. Built'
  BY <1>1, <1>2, <1>3, <1>5 DEF Built, Building, Serving
<1>7. Serves' /\ Aligned'
  BY <1>2 DEF Serves, Aligned, Serving
<1>8. SlotFormat'
  BY <1>1, <1>3 DEF SlotFormat
<1> QED  BY <1>4, <1>6, <1>7, <1>8

\* The last part: the runtime is complete.
LEMMA BuildHeadInv ==
    ASSUME IInv, BuildHead
    PROVE  IInv'
<1> USE DEF IInv
<1>1. /\ at \in Places /\ at.do = "head" /\ at.out = 0 /\ ~initialized /\ loader.loaded
      /\ {"embed", "rotary", "norm"} \subseteq parts /\ StackEndsWith(NumLayers)
      /\ slot = "blank"
  BY DEF BuildHead, Types, Built, Building, SlotFormat
<1>2. /\ UNCHANGED <<disk, loader, slot, stack, mask, req>> /\ initialized' = TRUE
      /\ parts' = parts \cup {"head"} /\ kv' = NoCache
  BY DEF BuildHead
<1>3. /\ at' \in Places /\ at'.out = 0 /\ at'.pos = at.pos
      /\ at'.do \in {"idle", "prefill"} /\ (at'.do = "prefill" => req \in Requests)
  <2>1. CASE req = NoRequest
    BY <1>1, <2>1, SetDo DEF BuildHead, To
  <2>2. CASE req # NoRequest
    <3>1. req \in Requests
      BY <2>2 DEF Types
    <3>2. at' = [at EXCEPT !.do = "prefill"]
      BY <2>2 DEF BuildHead, To
    <3> QED  BY <1>1, <3>1, <3>2, SetDo DEF Serving
  <2> QED  BY <2>1, <2>2
<1>4. at.pos = 0
  BY <1>1 DEF Built
<1>5. Types'
  BY <1>2, <1>3 DEF Types, AllParts
<1>6. StackEndsWith(NumLayers)'
  BY <1>1, <1>2 DEF StackEndsWith
<1>7. Built'
  BY <1>1, <1>2, <1>3, <1>4, <1>6 DEF Built, Building, Serving
<1>8. Serves' /\ Aligned'
  BY <1>2, <1>3 DEF Serves, Aligned, Serving
<1>9. SlotFormat'
  BY <1>1, <1>2 DEF SlotFormat
<1> QED  BY <1>5, <1>7, <1>8, <1>9

\* A build that raises leaves parts and layers behind.
LEMMA BuildFailsInv ==
    ASSUME IInv, BuildFails
    PROVE  IInv'
<1>1. parts \subseteq parts' /\ parts' \subseteq AllParts
  BY DEF BuildFails, IInv, Types, AllParts
<1>2. Raise /\ UNCHANGED <<disk, loader, slot, stack, initialized, kv, mask>>
  BY DEF BuildFails, context
<1> QED  BY <1>1, <1>2, RaiseInv DEF IInv, Types

-----------------------------------------------------------------------------
(* Serving.  The runtime is complete by then, and stays as it is.          *)
RuntimeStays == UNCHANGED <<disk, loader, stack, parts, initialized>>

\* What it takes for a step of serving to keep the invariant.
LEMMA ServingStep ==
    ASSUME IInv, RuntimeStays, at.do \in Serving, at'.do \in Serving, at' \in Places,
           at'.do = "prefill" => at'.out = 0,
           req' = req, mask' \in Nat, kv' \in [LayerIds -> Nat],
           at'.do \in {"attend", "experts"} => at'.pos \in 1..Len(stack),
           slot' = slot \/ (slot' \in {"plain", "nested"} /\ (disk # <<>> => slot' \in FormatsAround)),
           WellBuilt => Aligned'
    PROVE  IInv'
<1> USE DEF IInv
<1>1. Types'
  BY DEF Types, RuntimeStays
<1>2. initialized /\ initialized'
  BY DEF Built, RuntimeStays
<1>3. Built'
  BY <1>2 DEF Built, Building, Serving, StackEndsWith, RuntimeStays
<1>4. Serves'
  BY DEF Serves, RuntimeStays
<1>5. SlotFormat'
  BY <1>2 DEF SlotFormat, FormatsAround, RuntimeStays
<1>6. WellBuilt' => Aligned'
  BY DEF WellBuilt, RuntimeStays
<1> QED  BY <1>1, <1>3, <1>4, <1>5, <1>6

\* A request that is served finds a runtime with at least one layer.
LEMMA ServingFacts ==
    ASSUME IInv, at.do \in Serving
    PROVE  /\ at \in Places /\ mask \in Nat /\ initialized
           /\ Len(stack) \in Nat /\ 1 \in 1..Len(stack)
           /\ stack \in Seq(LayerIds) /\ 0 \in LayerIds
           /\ NumLayers \in Nat \ {0} /\ LayerIds \subseteq Nat
           /\ req \in Requests /\ req.prompt \in Nat /\ req.max \in Int
<1>1. NumLayers \in Nat \ {0} /\ LayerIds \subseteq Nat /\ 0 \in LayerIds
  BY ModelAssumption DEF LayerIds
<1>2. at \in Places /\ mask \in Nat /\ stack \in Seq(LayerIds) /\ initialized
  BY DEF IInv, Types, Built
<1>3. Len(stack) \in Nat /\ Len(stack) >= NumLayers
  BY <1>2 DEF IInv, Built, StackEndsWith
<1>4. req \in Requests
  BY DEF IInv, Serves
<1>5. req.prompt \in Nat /\ req.max \in Int
  BY <1>4, EngineAssumption
<1> QED  BY <1>1, <1>2, <1>3, <1>4, <1>5

\* In a runtime built in one go, the layer at a place is the one before it.
LEMMA WellBuiltFacts ==
    ASSUME WellBuilt, NumLayers \in Nat \ {0}
    PROVE  /\ Len(stack) = NumLayers
           /\ \A i \in 1..Len(stack) : stack[i] = i - 1
BY DEF WellBuilt

\* A prompt begins with an empty cache.
LEMMA PrefillInv ==
    ASSUME IInv, Prefill
    PROVE  IInv'
<1> DEFINE p == req.prompt
<1>1. at.do = "prefill" /\ at.do \in Serving /\ at.out = 0
  BY DEF Prefill, Serving, IInv, Built
<1>2. /\ at \in Places /\ 1 \in 1..Len(stack) /\ p \in Nat
  BY <1>1, ServingFacts
<1>3. /\ Pass(p, 0) /\ kv' = [l \in LayerIds |-> 0] /\ mask' = p /\ req' = req /\ slot' = slot
      /\ RuntimeStays
  BY DEF Prefill, RuntimeStays, runtime
<1>4. /\ at' \in Places /\ at'.do = "attend" /\ at'.pos = 1 /\ at'.new = p /\ at'.columns = p
      /\ at'.out = 0
  BY <1>1, <1>2, <1>3, PassPlace
<1>5. Aligned'
  <2>1. Held(at.pos - 1)'
    <3>1. \A l \in LayerIds : kv'[l] = 0 /\ mask' - at'.new = 0 /\ ~(l < at'.pos - 1)
      BY <1>2, <1>3, <1>4 DEF LayerIds
    <3> QED  BY <3>1 DEF Held
  <2> QED  BY <1>3, <1>4, <2>1 DEF Aligned, MaskInPass
<1>6. kv' \in [LayerIds -> Nat]
  BY <1>3
<1> QED  BY <1>1, <1>2, <1>3, <1>4, <1>5, <1>6, ServingStep DEF Serving

\* What a layer's turn finds, and that its cache grows.
LEMMA AttendFacts ==
    ASSUME IInv, at.do = "attend"
    PROVE  /\ at.pos \in 1..Len(stack) /\ stack[at.pos] \in LayerIds
           /\ kv \in [LayerIds -> Nat] /\ Extended \in [LayerIds -> Nat]
           /\ at.new \in Nat /\ at.columns \in Nat /\ at.pos \in Nat
<1>1. at \in Places /\ stack \in Seq(LayerIds) /\ LayerIds \subseteq Nat
  BY ServingFacts DEF Serving
<1>2. at.pos \in 1..Len(stack) /\ kv \in [LayerIds -> Nat]
  BY DEF IInv, Serves, Serving
<1>3. at.new \in Nat /\ at.columns \in Nat /\ at.pos \in Nat
  BY <1>1 DEF Places
<1>4. stack[at.pos] \in LayerIds
  BY <1>1, <1>2
<1>5. Extended \in [LayerIds -> Nat]
  BY <1>2, <1>3, <1>4 DEF Extended
<1> QED  BY <1>2, <1>3, <1>4, <1>5

\* The layer's cache catches up with the mask.
LEMMA AttendToInv ==
    ASSUME IInv, NEW experts \in SUBSET Keys, AttendTo(experts)
    PROVE  IInv'
<1>1. at.do = "attend" /\ at.do \in Serving
  BY DEF AttendTo, Serving
<1>2. /\ at \in Places /\ at.pos \in Nat /\ mask \in Nat /\ LayerIds \subseteq Nat
      /\ NumLayers \in Nat \ {0}
  BY <1>1, ServingFacts DEF Places
<1>3. /\ kv' = Extended /\ InPass("experts", at.pos, experts)
      /\ RuntimeStays /\ UNCHANGED <<slot, mask, req>>
  BY DEF AttendTo, RuntimeStays, runtime
<1>4. /\ at' \in Places /\ at'.do = "experts" /\ at'.pos = at.pos /\ at'.new = at.new
      /\ at'.columns = at.columns /\ at'.out = at.out
  BY <1>2, <1>3, InPassPlace DEF Serving
<1>5. ASSUME WellBuilt PROVE Aligned'
  <2>1. at.columns = mask /\ Held(at.pos - 1) /\ MaskInPass
    BY <1>1, <1>5 DEF IInv, Aligned
  <2>2. stack[at.pos] = at.pos - 1 /\ at.new \in Nat
    BY <1>1, <1>2, <1>5, WellBuiltFacts, AttendFacts
  <2>3. \A l \in LayerIds : kv'[l] = IF l < at.pos THEN mask ELSE mask - at.new
    <3> SUFFICES ASSUME NEW l \in LayerIds
                 PROVE  kv'[l] = IF l < at.pos THEN mask ELSE mask - at.new
      OBVIOUS
    <3>1. kv'[l] = IF l = at.pos - 1 THEN kv[l] + at.new ELSE kv[l]
      BY <1>1, <1>3, <2>2, AttendFacts DEF Extended
    <3>2. kv[l] = IF l < at.pos - 1 THEN mask ELSE mask - at.new
      BY <2>1 DEF Held
    <3>3. l \in Nat
      BY <1>2
    <3> QED  BY <1>2, <2>2, <3>1, <3>2, <3>3
  <2>4. Held(at.pos)' /\ MaskInPass'
    BY <1>3, <1>4, <2>1, <2>3 DEF Held, MaskInPass
  <2> QED  BY <1>3, <1>4, <2>1, <2>4 DEF Aligned
<1>6. kv' \in [LayerIds -> Nat] /\ at.pos \in 1..Len(stack)
  BY <1>1, <1>3, AttendFacts
<1> QED  BY <1>1, <1>2, <1>3, <1>4, <1>5, <1>6, ServingStep DEF Serving

\* A mask too short for the keys raises.
LEMMA AttendFailsInv ==
    ASSUME IInv, AttendFails
    PROVE  IInv'
<1>1. kv' \in [LayerIds -> Nat] \cup {NoCache}
  BY AttendFacts DEF AttendFails
<1>2. Raise /\ UNCHANGED <<disk, loader, slot, stack, parts, initialized, mask>>
  BY DEF AttendFails, runtime
<1> QED  BY <1>1, <1>2, RaiseInv DEF IInv, Types

-----------------------------------------------------------------------------
(* The formats of the experts.  First, a set of places in a sequence has a *)
(* least one: the intervals that end in them are finite sets.              *)
LEMMA LeastPlace ==
    ASSUME NEW n \in Nat, NEW S \in SUBSET (1..n), S # {}
    PROVE  Min(S) \in S
<1> DEFINE I == 1..n
           UpTo(i) == 1..i
           Sets == {UpTo(i) : i \in S}
<1>1. IsFiniteSet(I)
  BY FS_Interval
<1>2. Sets \subseteq FiniteSubsetsOf(I) /\ Sets # {}
  <2>1. \A i \in S : UpTo(i) \subseteq I
    OBVIOUS
  <2> HIDE DEF UpTo, I
  <2>2. Sets \subseteq SUBSET I /\ Sets # {}
    BY <2>1
  <2> QED  BY <1>1, <2>2, FS_FiniteSubsetsOfFinite
<1>3. PICK i \in S : \A j \in S : <<UpTo(j), UpTo(i)>> \notin StrictSubsetOrdering(I)
  <2>1. PICK A \in Sets : \A B \in Sets : <<B, A>> \notin StrictSubsetOrdering(I)
    <3> HIDE DEF Sets, I
    <3> QED  BY <1>1, <1>2, FS_StrictSubsetOrderingWellFounded, WFMin
  <2> QED  BY <2>1
<1>4. ASSUME NEW j \in S, j < i
      PROVE  FALSE
  <2>1. UpTo(j) \subseteq UpTo(i) /\ i \in UpTo(i) /\ i \notin UpTo(j) /\ UpTo(i) \subseteq I
    BY <1>4
  <2>2. <<UpTo(j), UpTo(i)>> \in StrictSubsetOrdering(I)
    <3> HIDE DEF UpTo, I
    <3> QED  BY <2>1 DEF StrictSubsetOrdering
  <2> QED  BY <1>3, <2>2
<1>5. \A j \in S : i <= j
  BY <1>4
<1> QED  BY <1>5 DEF Min

\* An expert that can be loaded is in a format that is around.
LEMMA FormatIsAround ==
    ASSUME IInv, NEW k \in Keys, disk # <<>>, loader.loaded, Format(k) # "error"
    PROVE  Format(k) \in FormatsAround /\ Format(k) \notin {"truncated", "absent"}
<1>1. /\ disk \in Seq(Contents) /\ Len(disk) \in Nat /\ DOMAIN disk = 1..Len(disk)
      /\ 1 \in DOMAIN disk
  <2>1. disk \in Seq(Contents)
    BY EngineAssumption DEF IInv, Types
  <2> QED  BY <2>1
<1>2. CASE loader.preloaded[k] # "absent"
  <2>1. Format(k) = loader.preloaded[k]
    BY <1>2 DEF Format, LoadExpert
  <2>2. loader.preloaded[k] \in FormatsAround
    BY <1>1 DEF FormatsAround
  <2>3. loader.preloaded[k] # "truncated"
    BY DEF IInv, Types
  <2> QED  BY <1>2, <2>1, <2>2, <2>3
<1>3. CASE loader.preloaded[k] = "absent"
  <2> DEFINE H == Holders(disk, k)  m == Min(H)
  <2>1. Format(k) = Resolved(disk, k)
    BY <1>3 DEF Format, LoadExpert
  <2>2. H # {} /\ Format(k) = Deserialized(disk[m][k])
    BY <2>1 DEF Resolved
  <2>3. H \in SUBSET (1..Len(disk))
    BY <1>1 DEF Holders
  <2>4. m \in H
    BY <1>1, <2>2, <2>3, LeastPlace
  <2>5. m \in DOMAIN disk /\ disk[m][k] # "absent"
    BY <2>4 DEF Holders
  <2>6. Format(k) = disk[m][k] /\ disk[m][k] # "truncated"
    BY <2>2 DEF Deserialized
  <2>7. disk[m][k] \in FormatsAround
    BY <2>5 DEF FormatsAround
  <2> HIDE DEF m
  <2> QED  BY <2>5, <2>6, <2>7
<1> QED  BY <1>2, <1>3

\* What staging an expert leaves in the slot.
LEMMA StagedFormat ==
    ASSUME IInv, NEW k \in Keys, at.do \in Serving, slot' \in {slot, Stage(slot, Format(k))}
    PROVE  \/ slot' = slot
           \/ /\ slot' \in {"plain", "nested"}
              /\ disk # <<>> => slot' \in FormatsAround
<1> SUFFICES ASSUME slot' # slot
             PROVE  /\ slot' \in {"plain", "nested"}
                    /\ disk # <<>> => slot' \in FormatsAround
  OBVIOUS
<1>1. slot' = Format(k) /\ Format(k) \in {"plain", "nested"}
  BY DEF Stage, Stageable
<1>2. loader.loaded
  BY DEF IInv, Built
<1> QED  BY <1>1, <1>2, FormatIsAround

-----------------------------------------------------------------------------
(* The experts of a layer.                                                 *)
LEMMA RunExpertInv ==
    ASSUME IInv, NEW k \in Keys, RunExpert(k)
    PROVE  IInv'
<1>1. at.do = "experts" /\ at.do \in Serving /\ at.do \notin {"prefill"}
  BY DEF RunExpert, Turn, Serving
<1>2. /\ at \in Places /\ at.pos \in 1..Len(stack) /\ at.todo \in SUBSET Keys
      /\ kv \in [LayerIds -> Nat] /\ mask \in Nat /\ Len(stack) \in Nat
      /\ LayerIds \subseteq Nat /\ NumLayers \in Nat \ {0}
  BY <1>1, ServingFacts DEF IInv, Serves, Places
<1>3. RuntimeStays /\ UNCHANGED <<kv, mask, req>>
  BY DEF RunExpert, RuntimeStays, runtime, context
<1>4. \/ slot' = slot
      \/ slot' \in {"plain", "nested"} /\ (disk # <<>> => slot' \in FormatsAround)
  BY <1>1, StagedFormat DEF RunExpert
<1>5. PICK step \in Serving, n \in Nat, S \in SUBSET Keys :
         /\ InPass(step, n, S)
         /\ \/ step = "experts" /\ n = at.pos
            \/ step = "attend" /\ n = at.pos + 1 /\ n \in 1..Len(stack)
            \/ step = "logits" /\ at.pos = Len(stack)
  <2>1. CASE InPass("experts", at.pos, at.todo \ {k})
    BY <1>2, <2>1 DEF Serving
  <2>2. CASE at.pos < Len(stack) /\ InPass("attend", at.pos + 1, {})
    <3>1. at.pos + 1 \in Nat /\ at.pos + 1 \in 1..Len(stack)
      BY <1>2, <2>2
    <3> QED  BY <2>2, <3>1 DEF Serving
  <2>3. CASE at.pos = Len(stack) /\ InPass("logits", at.pos, {})
    BY <1>2, <2>3 DEF Serving
  <2> QED  BY <2>1, <2>2, <2>3 DEF RunExpert
<1>6. /\ at' \in Places /\ at'.do = step /\ at'.pos = n /\ at'.new = at.new
      /\ at'.columns = at.columns /\ at'.out = at.out
  BY <1>2, <1>5, InPassPlace
<1>7. ASSUME WellBuilt PROVE Aligned'
  <2>1. at.columns = mask /\ Held(at.pos) /\ MaskInPass
    BY <1>1, <1>7 DEF IInv, Aligned
  <2>2. Len(stack) = NumLayers
    BY <1>2, <1>7, WellBuiltFacts
  <2>3. MaskInPass'
    BY <1>3, <1>6, <2>1 DEF MaskInPass
  <2>4. CASE step = "experts" /\ n = at.pos
    <3>1. Held(at.pos)'
      BY <1>3, <1>6, <2>1, <2>4 DEF Held
    <3> QED  BY <1>3, <1>6, <2>1, <2>3, <2>4, <3>1 DEF Aligned
  <2>5. CASE step = "attend" /\ n = at.pos + 1
    <3>1. at'.pos - 1 = at.pos
      BY <1>2, <1>6, <2>5
    <3>2. Held(at.pos - 1)'
      BY <1>3, <1>6, <2>1, <3>1 DEF Held
    <3> QED  BY <1>3, <1>6, <2>1, <2>3, <2>5, <3>2 DEF Aligned
  <2>6. CASE step = "logits" /\ at.pos = Len(stack)
    <3>1. \A l \in LayerIds : l < at.pos
      BY <1>2, <2>2, <2>6 DEF LayerIds
    <3>2. Full'
      BY <1>3, <2>1, <3>1 DEF Held, Full
    <3> QED  BY <1>6, <2>3, <2>6, <3>2 DEF Aligned
  <2> QED  BY <1>5, <2>4, <2>5, <2>6
<1>8. at'.do \in {"attend", "experts"} => at'.pos \in 1..Len(stack)
  BY <1>2, <1>5, <1>6
<1>9. at'.do # "prefill" /\ at'.do \in Serving
  BY <1>5, <1>6
<1> QED  BY <1>1, <1>2, <1>3, <1>4, <1>6, <1>7, <1>8, <1>9, ServingStep

\* An expert that raises may have been staged.
LEMMA ExpertFailsInv ==
    ASSUME IInv, NEW k \in Keys, ExpertFails(k)
    PROVE  IInv'
<1>1. at.do \in Serving /\ initialized
  BY DEF ExpertFails, Turn, Serving, IInv, Built
<1>2. Raise /\ UNCHANGED <<disk, loader, stack, parts, initialized, kv, mask>>
  BY DEF ExpertFails, runtime, context
<1>3. \/ slot' = slot
      \/ slot' \in {"plain", "nested"} /\ (disk # <<>> => slot' \in FormatsAround)
  BY <1>1, StagedFormat DEF ExpertFails
<1> QED  BY <1>1, <1>2, <1>3, RaiseInv DEF IInv, Types

-----------------------------------------------------------------------------
(* Prefill refused; the steps of _decode.                                  *)
LEMMA RefusedInv ==
    ASSUME IInv, PrefillRefused \/ DecodeRefused \/ Return
    PROVE  IInv'
<1>1. Raise /\ UNCHANGED <<disk, loader, slot, stack, parts, initialized, kv, mask>>
  BY DEF PrefillRefused, DecodeRefused, Return, runtime, context
<1> QED  BY <1>1, RaiseInv DEF IInv, Types

\* A pass is over: every layer holds the whole context.
LEMMA LogitsInv ==
    ASSUME IInv, Logits
    PROVE  IInv'
<1> DEFINE n == IF at.out = 0 THEN 0 ELSE at.out + 1
           d == [at EXCEPT !.do = "decode"]
<1>1. at.do = "logits" /\ at.do \in Serving \ {"prefill"}
  BY DEF Logits, Serving
<1>2. at \in Places /\ at.out \in Nat /\ n \in Nat /\ mask \in Nat /\ kv \in [LayerIds -> Nat]
      /\ req.prompt \in Nat /\ req.max \in Int
  BY <1>1, ServingFacts DEF Places, IInv, Serves
<1>3. RuntimeStays /\ UNCHANGED <<slot, kv, mask, req>>
  BY DEF Logits, RuntimeStays, runtime, context
<1>4. at' \in Places /\ at'.do = "decode" /\ at'.out = n
  <2>1. d \in Places /\ d.do = "decode"
    BY <1>2, SetDo DEF Serving
  <2>2. at' = [d EXCEPT !.out = n]
    BY DEF Logits
  <2> HIDE DEF d, n
  <2> QED  BY <1>2, <2>1, <2>2, SetOut
<1>5. ASSUME WellBuilt PROVE Aligned'
  <2>1. Full /\ MaskInPass
    BY <1>1, <1>5 DEF IInv, Aligned
  <2>2. Full'
    BY <1>3, <2>1 DEF Full
  <2>3. MaskAfter' /\ (at'.out > 0 => at'.out <= req'.max)
    <3>1. CASE at.out = 0
      BY <1>2, <1>3, <1>4, <2>1, <3>1 DEF MaskInPass, MaskAfter
    <3>2. CASE at.out > 0
      BY <1>2, <1>3, <1>4, <2>1, <3>2 DEF MaskInPass, MaskAfter
    <3> QED  BY <1>2, <3>1, <3>2
  <2> QED  BY <1>4, <2>2, <2>3 DEF Aligned
<1> QED  BY <1>1, <1>2, <1>3, <1>4, <1>5, ServingStep DEF Serving

\* The first token comes from the prompt's logits.
LEMMA DecodeFirstInv ==
    ASSUME IInv, DecodeFirst
    PROVE  IInv'
<1>1. at.do = "decode" /\ at.do \in Serving \ {"prefill"} /\ at.out = 0 /\ req.max > 0
  BY DEF DecodeFirst, Serving
<1>2. at \in Places /\ mask \in Nat /\ kv \in [LayerIds -> Nat]
      /\ req.prompt \in Nat /\ req.max \in Int
  BY <1>1, ServingFacts DEF IInv, Serves
<1>3. RuntimeStays /\ UNCHANGED <<slot, kv, mask, req>>
  BY DEF DecodeFirst, RuntimeStays, runtime, context
<1>4. at' \in Places /\ at'.do = "decode" /\ at'.out = 1
  BY <1>1, <1>2, SetOut DEF DecodeFirst
<1>5. ASSUME WellBuilt PROVE Aligned'
  <2>1. Full /\ MaskAfter
    BY <1>1, <1>5 DEF IInv, Aligned
  <2>2. Full'
    BY <1>3, <2>1 DEF Full
  <2>3. MaskAfter' /\ at'.out <= req'.max
    BY <1>1, <1>2, <1>3, <1>4, <2>1 DEF MaskAfter
  <2> QED  BY <1>4, <2>2, <2>3 DEF Aligned
<1> QED  BY <1>1, <1>2, <1>3, <1>4, <1>5, ServingStep

\* Another pass, for the last token.
LEMMA DecodeNextInv ==
    ASSUME IInv, DecodeNext
    PROVE  IInv'
<1>1. at.do = "decode" /\ at.do \in Serving \ {"prefill"} /\ at.out > 0 /\ at.out < req.max
  BY DEF DecodeNext, Serving
<1>2. at \in Places /\ at.out \in Nat /\ mask \in Nat /\ kv \in [LayerIds -> Nat]
      /\ req.prompt \in Nat /\ req.max \in Int /\ 1 \in 1..Len(stack)
      /\ 0 \in LayerIds /\ LayerIds \subseteq Nat
  BY <1>1, ServingFacts DEF IInv, Serves, Places
<1>3. /\ Pass(1, kv[0]) /\ mask' = mask + 1 /\ kv[0] \in Nat
      /\ RuntimeStays /\ UNCHANGED <<slot, kv, req>>
  BY <1>2 DEF DecodeNext, RuntimeStays, runtime
<1>4. /\ at' \in Places /\ at'.do = "attend" /\ at'.pos = 1 /\ at'.new = 1
      /\ at'.columns = kv[0] + 1 /\ at'.out = at.out
  BY <1>2, <1>3, PassPlace
<1>5. ASSUME WellBuilt PROVE Aligned'
  <2>1. Full /\ MaskAfter
    BY <1>1, <1>5 DEF IInv, Aligned
  <2>2. at'.columns = mask'
    BY <1>2, <1>3, <1>4, <2>1 DEF Full
  <2>3. Held(at.pos - 1)'
    <3>1. \A l \in LayerIds : kv'[l] = mask' - at'.new /\ ~(l < at'.pos - 1)
      BY <1>2, <1>3, <1>4, <2>1 DEF Full
    <3> QED  BY <3>1 DEF Held
  <2>4. MaskInPass'
    BY <1>1, <1>2, <1>3, <1>4, <2>1 DEF MaskInPass, MaskAfter
  <2> QED  BY <1>4, <2>2, <2>3, <2>4 DEF Aligned
<1>6. mask' \in Nat
  BY <1>2, <1>3
<1> QED  BY <1>1, <1>2, <1>3, <1>4, <1>5, <1>6, ServingStep DEF Serving

\* No token is missing.
LEMMA DecodeEndsInv ==
    ASSUME IInv, DecodeEnds
    PROVE  IInv'
<1>1. at.do = "decode" /\ at.do \in Serving \ {"prefill"} /\ at.out >= req.max
      /\ Decodable(req)
  BY DEF DecodeEnds, Serving
<1>2. at \in Places /\ at.out \in Nat /\ mask \in Nat /\ kv \in [LayerIds -> Nat]
      /\ req.prompt \in Nat /\ req.max \in Int
  BY <1>1, ServingFacts DEF IInv, Serves, Places
<1>3. RuntimeStays /\ UNCHANGED <<slot, kv, mask, req>>
  BY DEF DecodeEnds, RuntimeStays, runtime, context
<1>4. at' \in Places /\ at'.do = "return" /\ at'.out = at.out
  BY <1>2, SetDo DEF DecodeEnds, To, Serving
<1>5. ASSUME WellBuilt PROVE Aligned'
  <2>1. Full /\ MaskAfter /\ (at.out > 0 => at.out <= req.max)
    BY <1>1, <1>5 DEF IInv, Aligned
  <2>2. Full'
    BY <1>3, <2>1 DEF Full
  <2>3. MaskAfter'
    BY <1>3, <1>4, <2>1 DEF MaskAfter
  <2>4. at'.out = req'.max
    BY <1>1, <1>2, <1>3, <1>4, <2>1 DEF Decodable
  <2> QED  BY <1>4, <2>2, <2>3, <2>4 DEF Aligned
<1> QED  BY <1>1, <1>2, <1>3, <1>4, <1>5, ServingStep DEF Serving

-----------------------------------------------------------------------------
\* One step per action.
LEMMA EngineStep == IInv /\ [ENext]_evars => IInv'
<1> SUFFICES ASSUME IInv, [ENext]_evars PROVE IInv'
  OBVIOUS
<1>1. CASE UNCHANGED evars
  BY <1>1 DEF evars, IInv, Types, Built, Serves, WellBuilt, Aligned, SlotFormat, StackEndsWith,
              MaskInPass, MaskAfter, Held, Full, FormatsAround
<1>2. ASSUME NEW P \in Preloads, PreloadExperts(P) PROVE IInv'
  BY <1>2, PreloadInv
<1>3. ASSUME NEW r \in Requests, Generate(r) PROVE IInv'
  BY <1>3, GenerateInv
<1>4. CASE InitializeRuntime
  BY <1>4, InitializeRuntimeInv
<1>5. CASE BuildIndex \/ BuildEmbedding \/ BuildLayer \/ BuildNorm \/ BuildHead \/ BuildFails
  BY <1>5, BuildIndexInv, BuildEmbeddingInv, BuildLayerInv, BuildNormInv, BuildHeadInv,
     BuildFailsInv
<1>6. CASE Prefill \/ PrefillRefused
  BY <1>6, PrefillInv, RefusedInv
<1>7. ASSUME NEW experts \in SUBSET Keys, AttendTo(experts) PROVE IInv'
  BY <1>7, AttendToInv
<1>8. CASE AttendFails
  BY <1>8, AttendFailsInv
<1>9. ASSUME NEW k \in Keys, RunExpert(k) \/ ExpertFails(k) PROVE IInv'
  BY <1>9, RunExpertInv, ExpertFailsInv
<1>10. CASE Logits
  BY <1>10, LogitsInv
<1>11. CASE DecodeRefused \/ DecodeFirst \/ DecodeNext \/ DecodeEnds \/ Return
  BY <1>11, RefusedInv, DecodeFirstInv, DecodeNextInv, DecodeEndsInv
<1> QED
  BY <1>1, <1>2, <1>3, <1>4, <1>5, <1>6, <1>7, <1>8, <1>9, <1>10, <1>11 DEF ENext, Proceed

\* What holds at each step of a call, always.
LEMMA Engine == ESpec => []IInv
BY EngineInit, EngineStep, PTL DEF ESpec

(* However often the build fails and is retried, nothing runs on a runtime *)
(* that is not complete.                                                   *)
THEOREM RuntimeComplete == ESpec => []InitializedComplete
<1>1. IInv => InitializedComplete
  <2> SUFFICES ASSUME IInv, initialized \/ at.do \in {"attend", "experts"}
               PROVE  /\ loader.loaded
                      /\ parts = AllParts
                      /\ \A l \in LayerIds : stack[Len(stack) - NumLayers + 1 + l] = l
    BY DEF InitializedComplete, AllParts
  <2>1. initialized
    BY DEF IInv, Built, Serving
  <2>2. loader.loaded /\ parts = AllParts
    BY <2>1 DEF IInv, Types, Built, AllParts
  <2>3. StackEndsWith(NumLayers)
    BY <2>1 DEF IInv, Built
  <2> QED  BY <2>2, <2>3 DEF StackEndsWith, LayerIds
<1> QED  BY <1>1, Engine, PTL

(* Over any requests, answered, refused or failed midway, the mask, the    *)
(* cache of each layer and the causal mask go together.                    *)
THEOREM ContextStaysAligned == ESpec => []ContextAligned
<1>1. IInv => ContextAligned
  <2> SUFFICES ASSUME IInv, at.do = "attend", WellBuilt
               PROVE  /\ at.columns = mask
                      /\ \A l \in LayerIds :
                            kv[l] = IF l + 1 < at.pos THEN mask ELSE mask - at.new
    BY DEF ContextAligned
  <2>1. at.columns = mask /\ Held(at.pos - 1)
    BY DEF IInv, Aligned
  <2>2. at.pos \in Nat /\ LayerIds \subseteq Nat
    BY AttendFacts, ServingFacts DEF Serving
  <2>3. \A l \in LayerIds : l + 1 < at.pos <=> l < at.pos - 1
    BY <2>2
  <2> QED  BY <2>1, <2>3 DEF Held
<1> QED  BY <1>1, Engine, PTL

(* An answer has the tokens that were asked for, and the cache holds all   *)
(* of them but the last.                                                   *)
THEOREM TokensAreAccounted == ESpec => []TokensAccounted
<1>1. IInv => TokensAccounted
  BY DEF IInv, Aligned, Full, MaskAfter, TokensAccounted
<1> QED  BY <1>1, Engine, PTL

(* With stores of one format, any number of them, every expert that can be *)
(* loaded can be staged, whatever was served before.                       *)
THEOREM UniformStoresServe == ESpec => []UniformStoreServes
<1>1. IInv => UniformStoreServes
  <2> SUFFICES ASSUME IInv, disk # <<>>, NEW k \in Keys, Turn(k), Format(k) # "error",
                      \/ FormatsAround \subseteq {"plain", "truncated", "absent"}
                      \/ FormatsAround \subseteq {"nested", "truncated", "absent"}
               PROVE  Stageable(slot, Format(k))
    BY DEF UniformStoreServes
  <2>1. loader.loaded
    BY DEF Turn, IInv, Built, Serving
  <2>2. Format(k) \in FormatsAround \ {"truncated", "absent"}
    BY <2>1, FormatIsAround
  <2>3. slot = "blank" \/ (slot \in FormatsAround /\ slot \in {"plain", "nested"})
    BY DEF IInv, Types, SlotFormat
  <2> QED  BY <2>2, <2>3 DEF Stageable
<1> QED  BY <1>1, Engine, PTL

-----------------------------------------------------------------------------
(* A stack that failed builds have lengthened begins with layer 0, and the *)
(* last copy of the model in it begins with layer 0 again.  The second of  *)
(* the two finds more keys than the causal mask has columns, unless it is  *)
(* one column: the pass of a prompt of one token.                          *)
LastCopy == Len(stack) - NumLayers + 1

FirstLayer == stack # <<>> => stack[1] = 0

\* What a pass over such a stack finds, layer by layer, and what it leaves.
Doubled ==
    /\ at.do \in {"attend", "experts"} =>
          /\ at.new > 0
          /\ at.out = 0 => at.columns = req.prompt
          /\ at.out > 0 => at.columns > 1
    /\ at.do = "attend" =>
          /\ kv[0] + at.new >= at.columns
          /\ at.pos > 1 => kv[0] >= at.columns
          /\ at.pos > LastCopy => at.columns = 1
    /\ at.do = "experts" => kv[0] >= at.columns /\ (at.pos >= LastCopy => at.columns = 1)
    /\ at.do = "logits" => at.out = 0
    /\ at.do \in {"decode", "return"} => at.out <= 1
    /\ at.do \in {"logits", "decode", "return"} => kv[0] > 0 /\ req.prompt = 1
    /\ at.do = "return" => req.max <= 1

StackInv == FirstLayer /\ (~WellBuilt => Doubled)

\* Where no pass is under way and none is over, nothing is said.
LEMMA BetweenPasses ==
    ASSUME at'.do \notin {"attend", "experts", "logits", "decode", "return"}
    PROVE  Doubled'
BY DEF Doubled

\* A longer stack has a second layer 0, where its last copy of the model begins.
LEMMA SecondFirstLayer ==
    ASSUME IInv, FirstLayer, ~WellBuilt, initialized
    PROVE  /\ LastCopy \in Nat /\ LastCopy > 1 /\ LastCopy <= Len(stack)
           /\ stack[1] = 0 /\ stack[LastCopy] = 0
<1>1. NumLayers \in Nat \ {0} /\ LayerIds = 0..(NumLayers - 1)
  BY ModelAssumption DEF LayerIds
<1>2. stack \in Seq(LayerIds) /\ Len(stack) \in Nat
  BY DEF IInv, Types
<1>3. /\ Len(stack) >= NumLayers
      /\ \A l \in 0..(NumLayers - 1) : stack[Len(stack) - NumLayers + 1 + l] = l
  BY DEF IInv, Built, StackEndsWith
<1>4. Len(stack) # NumLayers
  <2>1. SUFFICES ASSUME Len(stack) = NumLayers PROVE WellBuilt
    OBVIOUS
  <2>2. ASSUME NEW i \in 1..NumLayers PROVE stack[i] = i - 1
    <3>1. i - 1 \in 0..(NumLayers - 1) /\ Len(stack) - NumLayers + 1 + (i - 1) = i
      BY <1>1, <2>1, <2>2
    <3> QED  BY <1>3, <3>1
  <2>3. DOMAIN stack = 1..NumLayers
    BY <1>2, <2>1
  <2> QED  BY <1>2, <2>2, <2>3 DEF WellBuilt
<1>5. stack[1] = 0
  BY <1>1, <1>2, <1>3 DEF FirstLayer
<1>6. stack[LastCopy] = 0
  <2>1. 0 \in 0..(NumLayers - 1) /\ Len(stack) - NumLayers + 1 + 0 = LastCopy
    BY <1>1, <1>2 DEF LastCopy
  <2> QED  BY <1>3, <2>1
<1> QED  BY <1>1, <1>2, <1>3, <1>4, <1>5, <1>6 DEF LastCopy

\* The calls, the build and the exceptions.
LEMMA StackOutsidePasses ==
    ASSUME IInv, StackInv,
           \/ \E P \in Preloads : PreloadExperts(P)
           \/ \E r \in Requests : Generate(r)
           \/ InitializeRuntime \/ BuildIndex \/ BuildEmbedding \/ BuildNorm \/ BuildHead
           \/ Raise /\ UNCHANGED stack
    PROVE  StackInv'
<1>1. stack' = stack
  BY DEF PreloadExperts, Generate, InitializeRuntime, BuildIndex, BuildEmbedding, BuildNorm,
         BuildHead, runtime
<1>2. FirstLayer'
  BY <1>1 DEF StackInv, FirstLayer
<1>3. at \in Places
  BY DEF IInv, Types
<1>4. at'.do \in {"idle", "prefill"} \cup Building
  <2>1. CASE \E P \in Preloads : PreloadExperts(P)
    BY <2>1 DEF PreloadExperts
  <2>2. CASE Raise
    BY <2>2, IdlePlace DEF Raise
  <2>3. ASSUME NEW step \in {"idle", "prefill"} \cup Building, To(step)
        PROVE  at'.do = step
    BY <1>3, <2>3, SetDo DEF To, Serving
  <2>4. \A step \in {"idle", "prefill"} \cup Building : To(step) => at'.do = step
    BY <2>3
  <2> QED
    BY <2>1, <2>2, <2>4 DEF Generate, InitializeRuntime, BuildIndex, BuildEmbedding, BuildNorm,
                            BuildHead, Building
<1> QED  BY <1>2, <1>4, BetweenPasses DEF StackInv, Building

\* Every build begins with layer 0.
LEMMA StackBuildLayer ==
    ASSUME IInv, StackInv, BuildLayer
    PROVE  StackInv'
<1>1. /\ at \in Places /\ at.pos \in Nat /\ StackEndsWith(at.pos) /\ stack \in Seq(LayerIds)
      /\ stack' = Append(stack, at.pos)
  BY DEF BuildLayer, IInv, Types, Built, Places
<1>2. FirstLayer'
  <2>1. CASE stack = <<>>
    <3>1. at.pos = 0
      BY <1>1, <2>1 DEF StackEndsWith
    <3> QED  BY <1>1, <2>1, <3>1 DEF FirstLayer
  <2>2. CASE stack # <<>>
    <3>1. stack'[1] = stack[1]
      BY <1>1, <2>2
    <3> QED  BY <2>2, <3>1 DEF FirstLayer, StackInv
  <2> QED  BY <2>1, <2>2
<1>3. at'.do \in {"norm", "layers"}
  <2>1. CASE at.pos + 1 = NumLayers
    <3>1. at' = [Idle EXCEPT !.do = "norm"]
      BY <2>1 DEF BuildLayer
    <3> QED  BY <3>1, SetDo, IdlePlace DEF Building
  <2>2. CASE at.pos + 1 # NumLayers
    <3>1. at' = [at EXCEPT !.pos = at.pos + 1] /\ at.do = "layers" /\ at.pos + 1 \in Nat
      BY <1>1, <2>2 DEF BuildLayer
    <3> QED  BY <1>1, <3>1, SetPos
  <2> QED  BY <2>1, <2>2
<1> QED  BY <1>2, <1>3, BetweenPasses DEF StackInv

\* A step of serving: the stack is as it was.
LEMMA StackServing ==
    ASSUME StackInv, UNCHANGED stack, ~WellBuilt => Doubled'
    PROVE  StackInv'
BY DEF StackInv, FirstLayer, WellBuilt

\* The first pass: a column per token of the prompt.
LEMMA StackPrefill ==
    ASSUME IInv, StackInv, Prefill
    PROVE  StackInv'
<1> DEFINE p == req.prompt
<1>1. at.do = "prefill" /\ at.do \in Serving /\ at.out = 0 /\ initialized
  BY DEF Prefill, Serving, IInv, Built
<1>2. at \in Places /\ p \in Nat /\ 0 \in LayerIds
  BY <1>1, ServingFacts
<1>3. Pass(p, 0) /\ kv' = [l \in LayerIds |-> 0] /\ p > 0 /\ stack' = stack /\ req' = req
  BY DEF Prefill, Fits, runtime
<1>4. /\ at'.do = "attend" /\ at'.pos = 1 /\ at'.new = p /\ at'.columns = p
      /\ at'.out = 0
  BY <1>1, <1>2, <1>3, PassPlace
<1>5. ASSUME ~WellBuilt PROVE Doubled'
  <2>1. LastCopy' > 1 /\ kv'[0] = 0 /\ req'.prompt = p
    BY <1>1, <1>2, <1>3, <1>5, SecondFirstLayer DEF StackInv, LastCopy
  <2> HIDE DEF p
  <2>2. LastCopy \in Nat /\ LastCopy' = LastCopy
    BY <1>1, <1>3, <1>5, SecondFirstLayer DEF StackInv, LastCopy
  <2> QED  BY <1>2, <1>3, <1>4, <2>1, <2>2 DEF Doubled
<1> QED  BY <1>3, <1>5, StackServing

\* The turn of a layer: the second layer 0 is served under one column only.
LEMMA StackAttendTo ==
    ASSUME IInv, StackInv, NEW experts \in SUBSET Keys, AttendTo(experts)
    PROVE  StackInv'
<1>1. at.do = "attend" /\ at.do \in Serving /\ initialized
  BY DEF AttendTo, Serving, IInv, Built
<1>2. /\ kv' = Extended /\ InPass("experts", at.pos, experts) /\ stack' = stack /\ req' = req
      /\ Attends(at.columns, Extended[stack[at.pos]])
  BY DEF AttendTo, runtime
<1>3. at \in Places /\ at.pos \in Nat /\ 0 \in LayerIds
  BY <1>1, ServingFacts DEF Places
<1>4. /\ at'.do = "experts" /\ at'.pos = at.pos /\ at'.new = at.new
      /\ at'.columns = at.columns /\ at'.out = at.out
  BY <1>2, <1>3, InPassPlace DEF Serving
<1>5. /\ at.pos \in 1..Len(stack) /\ stack[at.pos] \in LayerIds
      /\ kv \in [LayerIds -> Nat] /\ kv' \in [LayerIds -> Nat]
      /\ at.new \in Nat /\ at.columns \in Nat
  BY <1>1, <1>2, AttendFacts
<1>6. ASSUME ~WellBuilt PROVE Doubled'
  <2>1. /\ LastCopy \in Nat /\ LastCopy > 1 /\ stack[1] = 0 /\ stack[LastCopy] = 0
        /\ LastCopy' = LastCopy
    BY <1>1, <1>2, <1>6, SecondFirstLayer DEF StackInv, LastCopy
  <2>2. /\ at.new > 0 /\ (at.out = 0 => at.columns = req.prompt)
        /\ at.out > 0 => at.columns > 1
        /\ kv[0] + at.new >= at.columns
        /\ at.pos > 1 => kv[0] >= at.columns
        /\ at.pos > LastCopy => at.columns = 1
    BY <1>1, <1>6 DEF StackInv, Doubled
  <2>3. kv'[0] = IF stack[at.pos] = 0 THEN kv[0] + at.new ELSE kv[0]
    BY <1>2, <1>3, <1>5 DEF Extended
  <2>4. kv[0] \in Nat
    BY <1>3, <1>5
  <2>5. kv'[0] >= at.columns
    <3>1. CASE at.pos = 1
      BY <1>5, <2>1, <2>2, <2>3, <2>4, <3>1
    <3>2. CASE at.pos > 1
      BY <1>5, <2>2, <2>3, <2>4, <3>2
    <3> QED  BY <1>5, <3>1, <3>2
  <2>6. at.pos >= LastCopy => at.columns = 1
    <3>1. CASE at.pos = LastCopy
      <4>1. kv'[0] = kv[0] + at.new /\ kv[0] >= at.columns
        BY <2>1, <2>2, <2>3, <3>1
      <4>2. at.columns >= kv'[0] \/ at.columns = 1
        BY <1>2, <2>1, <3>1 DEF Attends
      <4> QED  BY <1>5, <2>2, <2>4, <4>1, <4>2
    <3>2. CASE at.pos # LastCopy
      BY <1>3, <2>1, <2>2, <3>2
    <3> QED  BY <3>1, <3>2
  <2> QED  BY <1>2, <1>4, <2>1, <2>2, <2>5, <2>6 DEF Doubled
<1> QED  BY <1>2, <1>6, StackServing

\* The experts of a layer, then the next layer, then the end of the pass.
LEMMA StackRunExpert ==
    ASSUME IInv, StackInv, NEW k \in Keys, RunExpert(k)
    PROVE  StackInv'
<1>1. at.do = "experts" /\ at.do \in Serving /\ initialized
  BY DEF RunExpert, Turn, Serving, IInv, Built
<1>2. at \in Places /\ at.pos \in Nat /\ at.todo \subseteq Keys /\ Len(stack) \in Nat
  BY <1>1, ServingFacts DEF Places
<1>3. UNCHANGED <<stack, kv, req>> /\ at.columns \in Nat /\ at.out \in Nat
  BY <1>2 DEF RunExpert, runtime, context, Places
<1>4. at.pos \in 1..Len(stack)
  BY <1>1 DEF IInv, Serves
<1>5. ASSUME ~WellBuilt PROVE Doubled'
  <2>1. /\ LastCopy \in Nat /\ LastCopy > 1 /\ LastCopy <= Len(stack) /\ LastCopy' = LastCopy
    BY <1>1, <1>3, <1>5, SecondFirstLayer DEF StackInv, LastCopy
  <2>2. /\ at.new > 0 /\ (at.out = 0 => at.columns = req.prompt)
        /\ at.out > 0 => at.columns > 1
        /\ kv[0] >= at.columns
        /\ at.pos >= LastCopy => at.columns = 1
    BY <1>1, <1>5 DEF StackInv, Doubled
  <2>3. kv[0] \in Nat /\ at.new \in Nat
    <3>1. kv \in [LayerIds -> Nat]
      BY <1>1 DEF IInv, Serves, Serving
    <3> QED  BY <1>1, <1>2, <3>1, ServingFacts DEF Places
  <2>4. CASE at.todo # {k} /\ InPass("experts", at.pos, at.todo \ {k})
    <3>1. /\ at'.do = "experts" /\ at'.pos = at.pos /\ at'.new = at.new
          /\ at'.columns = at.columns /\ at'.out = at.out
      BY <1>2, <2>4, InPassPlace DEF Serving
    <3> QED  BY <1>3, <2>1, <2>2, <3>1 DEF Doubled
  <2>5. CASE at.pos < Len(stack) /\ InPass("attend", at.pos + 1, {})
    <3>1. /\ at'.do = "attend" /\ at'.pos = at.pos + 1 /\ at'.new = at.new
          /\ at'.columns = at.columns /\ at'.out = at.out
      BY <1>2, <2>5, InPassPlace DEF Serving
    <3>2. at'.pos > LastCopy => at.pos >= LastCopy
      BY <1>2, <2>1, <3>1
    <3>3. kv[0] + at.new >= at.columns
      BY <1>3, <2>2, <2>3
    <3> QED  BY <1>3, <2>1, <2>2, <3>1, <3>2, <3>3 DEF Doubled
  <2>6. CASE at.pos = Len(stack) /\ InPass("logits", at.pos, {})
    <3>1. at'.do = "logits" /\ at'.out = at.out
      BY <1>2, <2>6, InPassPlace DEF Serving
    <3>2. at.columns = 1
      BY <2>1, <2>2, <2>6
    <3>3. at.out = 0 /\ req.prompt = 1 /\ kv[0] > 0
      BY <1>3, <2>2, <2>3, <3>2
    <3> QED  BY <1>3, <3>1, <3>3 DEF Doubled
  <2> QED  BY <2>4, <2>5, <2>6 DEF RunExpert
<1> QED  BY <1>3, <1>5, StackServing

\* After the pass of the prompt, at most one token comes out.
LEMMA StackLogits ==
    ASSUME IInv, StackInv, Logits
    PROVE  StackInv'
<1>1. at.do = "logits" /\ at \in Places /\ UNCHANGED <<stack, kv, req>>
  BY DEF Logits, IInv, Types, runtime, context
<1>2. ASSUME ~WellBuilt PROVE Doubled'
  <2>1. at.out = 0 /\ kv[0] > 0 /\ req.prompt = 1
    BY <1>1, <1>2 DEF StackInv, Doubled
  <2>2. at' = [at EXCEPT !.do = "decode", !.out = 0]
    BY <2>1 DEF Logits
  <2>3. at'.do = "decode" /\ at'.out = 0
    BY <1>1, <2>2 DEF Places
  <2> QED  BY <1>1, <2>1, <2>3 DEF Doubled
<1> QED  BY <1>1, <1>2, StackServing

\* The next pass begins with at least two columns.
LEMMA StackDecode ==
    ASSUME IInv, StackInv, DecodeFirst \/ DecodeNext \/ DecodeEnds
    PROVE  StackInv'
<1>1. at.do = "decode" /\ at.do \in Serving /\ initialized
  BY DEF DecodeFirst, DecodeNext, DecodeEnds, Serving, IInv, Built
<1>2. at \in Places /\ at.out \in Nat /\ 0 \in LayerIds /\ req.max \in Int
  BY <1>1, ServingFacts DEF Places
<1>3. UNCHANGED <<stack, kv, req>>
  BY DEF DecodeFirst, DecodeNext, DecodeEnds, runtime, context
<1>4. ASSUME ~WellBuilt PROVE Doubled'
  <2>1. at.out <= 1 /\ kv[0] > 0 /\ req.prompt = 1
    BY <1>1, <1>4 DEF StackInv, Doubled
  <2>2. kv[0] \in Nat
    <3>1. kv \in [LayerIds -> Nat]
      BY <1>1 DEF IInv, Serves, Serving
    <3> QED  BY <1>2, <3>1
  <2>3. CASE DecodeFirst
    <3>1. at'.do = "decode" /\ at'.out = 1
      BY <1>1, <1>2, <2>3, SetOut DEF DecodeFirst
    <3> QED  BY <1>3, <2>1, <3>1 DEF Doubled
  <2>4. CASE DecodeNext
    <3>1. /\ at'.do = "attend" /\ at'.pos = 1 /\ at'.new = 1 /\ at'.columns = kv[0] + 1
          /\ at'.out = at.out /\ at.out > 0
      BY <1>2, <2>2, <2>4, PassPlace DEF DecodeNext
    <3>2. LastCopy \in Nat /\ LastCopy > 1 /\ LastCopy' = LastCopy
      BY <1>1, <1>3, <1>4, SecondFirstLayer DEF StackInv, LastCopy
    <3>3. /\ kv[0] + 1 >= at'.columns /\ at'.columns > 1 /\ ~(at'.pos > LastCopy)
          /\ ~(at'.pos > 1) /\ at'.out # 0
      BY <1>2, <2>1, <2>2, <3>1, <3>2
    <3> QED  BY <1>3, <2>1, <3>1, <3>2, <3>3 DEF Doubled
  <2>5. CASE DecodeEnds
    <3>1. at'.do = "return" /\ at'.out = at.out
      BY <1>2, <2>5, SetDo DEF DecodeEnds, To, Serving
    <3>2. req.max <= 1
      BY <1>2, <2>1, <2>5 DEF DecodeEnds
    <3> QED  BY <1>3, <2>1, <3>1, <3>2 DEF Doubled
  <2> QED  BY <2>3, <2>4, <2>5
<1> QED  BY <1>3, <1>4, StackServing

\* One step per action.
LEMMA StackStep == IInv /\ StackInv /\ [ENext]_evars => StackInv'
<1> SUFFICES ASSUME IInv, StackInv, [ENext]_evars PROVE StackInv'
  OBVIOUS
<1>1. CASE UNCHANGED evars
  BY <1>1 DEF evars, StackInv, FirstLayer, WellBuilt, Doubled, LastCopy
<1>2. CASE (\E P \in Preloads : PreloadExperts(P)) \/ (\E r \in Requests : Generate(r))
  BY <1>2, StackOutsidePasses
<1>3. CASE InitializeRuntime \/ BuildIndex \/ BuildEmbedding \/ BuildNorm \/ BuildHead
  BY <1>3, StackOutsidePasses
<1>4. CASE BuildLayer
  BY <1>4, StackBuildLayer
<1>5. CASE BuildFails \/ PrefillRefused \/ AttendFails \/ DecodeRefused \/ Return
  <2>1. Raise /\ UNCHANGED stack
    BY <1>5 DEF BuildFails, PrefillRefused, AttendFails, DecodeRefused, Return, runtime
  <2> QED  BY <2>1, StackOutsidePasses
<1>6. ASSUME NEW k \in Keys, ExpertFails(k) PROVE StackInv'
  <2>1. Raise /\ UNCHANGED stack
    BY <1>6 DEF ExpertFails, runtime
  <2> QED  BY <2>1, StackOutsidePasses
<1>7. CASE Prefill
  BY <1>7, StackPrefill
<1>8. ASSUME NEW experts \in SUBSET Keys, AttendTo(experts) PROVE StackInv'
  BY <1>8, StackAttendTo
<1>9. ASSUME NEW k \in Keys, RunExpert(k) PROVE StackInv'
  BY <1>9, StackRunExpert
<1>10. CASE Logits \/ DecodeFirst \/ DecodeNext \/ DecodeEnds
  BY <1>10, StackLogits, StackDecode
<1> QED
  BY <1>1, <1>2, <1>3, <1>4, <1>5, <1>6, <1>7, <1>8, <1>9, <1>10 DEF ENext, Proceed

(* However many layers failed builds have left in the stack, the engine    *)
(* answers with it only where the mask broadcasts: a prompt of one token,  *)
(* and no pass beyond it.  Every other request raises.                     *)
THEOREM LongStacksRefuse == ESpec => []DoubledStackRefuses
<1>1. EInit => StackInv
  <2>1. EInit => FirstLayer
    BY DEF EInit, FirstLayer
  <2>2. EInit => Doubled
    BY IdlePlace DEF EInit, Doubled
  <2> QED  BY <2>1, <2>2 DEF StackInv
<1>2. StackInv => DoubledStackRefuses
  BY DEF StackInv, Doubled, DoubledStackRefuses
<1> QED  BY <1>1, <1>2, Engine, StackStep, PTL DEF ESpec
=============================================================================
