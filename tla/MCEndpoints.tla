---------------------------- MODULE MCEndpoints ----------------------------
(***************************************************************************)
(* Endpoints on one good request of every kind and on each of them with    *)
(* one or two fields changed or missing.                                   *)
(***************************************************************************)
EXTENDS Endpoints, TLC

On(op, body) == [op |-> op, body |-> body]

With(r, f, v)  == [r EXCEPT !.body = (f :> v) @@ @]
Without(r, f)  == [r EXCEPT !.body = [g \in DOMAIN @ \ {f} |-> @[g]]]
Variants(r, f, values) == {With(r, f, v) : v \in values}

Chat == On("chat", [model |-> "local-llm", messages |-> <<"hello">>])
Embedding == On("embedding", [model |-> "local-embedding", input |-> <<"text">>])
Speech(model) == On("tts", [model |-> model, input |-> "text"])
Asr == On("asr", [model |-> "local-asr", file |-> "speech"])
Translation ==
  On("translation", [model |-> "local-nllb", text |-> "text",
                     source_language |-> "eng_Latn", target_language |-> "zho_Hans"])

Vivian == With(Speech("local-tts-quality"), "voice", "vivian")
Design == With(Speech("local-tts-voice-design"), "instruct", "calm")

(* Zero, minus one, one minute, no duration, and the edges of a float, from *)
(* inside and outside.                                                      *)
KeepAlives ==
  {Seconds(Zero), Seconds(Number(-1)), Duration(Number(1), "m"), NoDuration,
   Seconds(NaN), Duration(Infinity, "d"), Duration(Number(2), "d"), HugeInteger}

ChatRequests ==
  {Chat, With(Chat, "model", "qwen"), With(Chat, "messages", <<>>),
   Without(Chat, "messages"), With(With(Chat, "model", "none"), "messages", <<>>)}
    \cup Variants(Chat, "keep_alive", KeepAlives)

EmbeddingRequests ==
  {Embedding, With(Embedding, "input", <<>>), With(Embedding, "input", <<"">>),
   Without(Embedding, "model"), With(Embedding, "keep_alive", Seconds(Zero))}

SpeechRequests ==
  {Speech("local-tts"), Speech("local-tts-quality"), Vivian, Design,
   With(Vivian, "voice", "default"), With(Design, "instruct", " "),
   With(Design, "voice", "vivian"),
   Without(Design, "instruct"), Speech("none"),
   With(Without(Design, "instruct"), "keep_alive", NoDuration),
   With(Speech("none"), "keep_alive", HugeInteger),
   With(Speech("kokoro-82m"), "keep_alive", Seconds(Number(-1)))}
    \cup Variants(Speech("local-tts"), "input", {"", " "})
    \cup Variants(Speech("local-tts"), "response_format", {"MP3", "pdf", ""})
    \cup Variants(Vivian, "speed",
           {Zero, Number(-1), Number(2), NaN, Infinity, NegInf})

AsrRequests ==
  {Asr, With(Asr, "model", "whisper"), With(Asr, "file", ""), Without(Asr, "file"),
   With(With(Asr, "temperature", Number(-1)), "file", "")}
    \cup Variants(Asr, "response_format", {"text", "WAV", ""})
    \cup Variants(Asr, "temperature", {Zero, Number(-1), NaN})
    \cup Variants(Asr, "keep_alive", {Duration(Zero, "s"), NoDuration})

TranslationRequests ==
  {Translation, With(Translation, "model", "local-translation"),
   With(Translation, "text", " "), With(Translation, "source_language", "en"),
   With(Translation, "target_language", "zh"),
   With(Translation, "keep_alive", Duration(Number(1), "h")),
   With(Translation, "keep_alive", Seconds(Zero))}

MCRequests ==
  ChatRequests \cup EmbeddingRequests \cup SpeechRequests \cup AsrRequests
    \cup TranslationRequests

(* As shipped; NLLB set up, and one model for both kinds of Qwen3-TTS;      *)
(* other defaults; a keep-alive that is no duration, unknown backends;      *)
(* formats that are none.                                                   *)
MCEnvironments ==
  {<<>>,
   [tts_quality_model |-> "qwen-tts", tts_voice_design_model |-> "qwen-tts",
    translation_model_path |-> "models/nllb"],
   [model_keep_alive |-> Duration(Zero, "s"), tts_default_voice |-> "vivian",
    tts_response_format |-> "mp3", asr_response_format |-> "text"],
   [model_keep_alive |-> NoDuration, asr_backend |-> "other",
    translation_backend |-> "other"],
   [tts_response_format |-> "ogg", asr_response_format |-> "srt"]}
=============================================================================
