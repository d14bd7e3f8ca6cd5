------------------------------ MODULE MCServer ------------------------------
(***************************************************************************)
(* Server on small instances: the calls the requests of a run may make.    *)
(***************************************************************************)
EXTENDS Server

MCDelays == {1}
MCTwoDelays == {1, 2}

ACall(op, model, ka) == [op |-> op, model |-> model, keepAlive |-> ka]

(* Models of one part, of two, and three of which one is kept; every kind   *)
(* of keep-alive.                                                           *)
ModelCalls ==
  {ACall("chat", "model", 2), ACall("tts", "kokoro", 1),
   ACall("tts", "custom_voice", 0), ACall("translation", "nllb", 1),
   ACall("translation", "nllb", None)}

(* Streams that compete with requests that do not stream. *)
StreamCalls == {ACall("stream", "model", 1), ACall("chat", "model", 0)}

ExclusionCalls == StreamCalls \cup {ACall("translation", "nllb", 1)}

(* A stream, a request of another runtime, and an unload at once. *)
MixedCalls ==
  {ACall("stream", "model", 1), ACall("stream", "model", 0),
   ACall("embedding", "model", 1)}

(* Translations of which half a model may be left. *)
TranslationCalls ==
  {ACall("translation", "nllb", 1), ACall("translation", "nllb", None)}

FallbackCalls == {ACall("translation", "nllb", 1), ACall("chat", "model", 1)}
=============================================================================
