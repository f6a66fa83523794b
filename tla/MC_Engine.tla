------------------------------ MODULE MC_Engine ------------------------------
(***************************************************************************)
(* Two layers of two experts.  Stores: none, one, or two of which the      *)
(* first lacks an expert or holds it in another format.                    *)
(***************************************************************************)
EXTENDS InferenceEngine

All(format) == [k \in Keys |-> format]

With(format, k, other) == [All(format) EXCEPT ![k] = other]

MCDisks ==
    {<<>>, <<All("plain")>>, <<All("nested")>>}
    \cup {<<With("plain", <<1, 0>>, f)>> : f \in FileFormats}
    \cup {<<With("absent", <<0, 1>>, f), All("nested")>> : f \in FileFormats}

MCPreloads == {With("absent", <<0, 0>>, f) : f \in {"plain", "nested"}}

MCRequests ==
    [prompt : 0..2, max : 0..3, batch : {1}, masked : {TRUE}]
    \cup [prompt : {1}, max : {-1, 1}, batch : {1, 2}, masked : BOOLEAN]
=============================================================================
