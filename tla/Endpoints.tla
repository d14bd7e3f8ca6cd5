------------------------------ MODULE Endpoints ------------------------------
(***************************************************************************)
(* The five inference endpoints, each from the body of a request to its    *)
(* answer: validation in the order of the code, the inference lock, the    *)
(* model runtime with every way its loading and its inference may fail,    *)
(* the exceptions the handler turns into answers and those it does not,    *)
(* the keep-alive, and what follows the release.  One request is served    *)
(* after the other; how requests interleave, and the streamed chat, are    *)
(* the matter of module Server.  Timers may fire between any two steps     *)
(* that do not hold the lock.                                              *)
(***************************************************************************)
EXTENDS KeepAlive, Sequences, FiniteSets

CONSTANTS
  Environments, \* which variables of config/model.env may be set, and how
  Requests,     \* the requests that may come, see Required
  MaxRequests   \* bound on the requests of a run

VARIABLES
  environment,     \* the variables the process was started with
  pc, req, left,   \* where the handler is, with which request; more to come
  answer,          \* the status and the error's param it will answer
  began,           \* did the request begin in its lifecycle
  using,           \* the runtime the worker uses for it
  spoken,          \* the backend that made the audio, and the voice
  memory,          \* memory[n]: what the fields of runtime object n refer to
  keepAlive, unloadAt, timer, \* the lifecycle of each runtime
  lockLost     \* has a request failed to release the inference lock

requestVars   == <<pc, req, left, answer, began, using, spoken>>
lifecycleVars == <<keepAlive, unloadAt, timer>>
vars == <<environment, requestVars, memory, lifecycleVars, lockLost>>

Runtimes == {"chat", "embedding", "tts", "asr", "translation"}

(* get_settings: the environment, or else the defaults.                     *)
Defaults ==
  [llm_model |-> "qwen", embedding_model |-> "qwen-embedding",
   tts_model |-> "kokoro-82m", tts_quality_model |-> "qwen-custom-voice",
   tts_voice_design_model |-> "qwen-voice-design",
   tts_default_voice |-> "zf_xiaoxiao", tts_response_format |-> "wav",
   asr_model |-> "whisper", asr_backend |-> "mlx-whisper",
   asr_response_format |-> "json",
   translation_model |-> "nllb", translation_backend |-> "ctranslate2",
   translation_model_path |-> "", model_keep_alive |-> FiveMinutes,
   api_llm_model |-> "local-llm", api_embedding_model |-> "local-embedding",
   api_tts_model |-> "local-tts", api_tts_quality_model |-> "local-tts-quality",
   api_tts_voice_design_model |-> "local-tts-voice-design",
   api_asr_model |-> "local-asr", api_translation_model |-> "local-nllb"]

settings ==
  [s \in DOMAIN Defaults |->
     IF s \in DOMAIN environment THEN environment[s] ELSE Defaults[s]]

(* A request is an endpoint and a body: the fields that are there, stream   *)
(* apart.                                                                   *)
Required ==
  [chat        |-> <<"model", "messages">>,
   embedding   |-> <<"model", "input">>,
   tts         |-> <<"model", "input">>,
   asr         |-> <<"file", "model">>,
   translation |-> <<"model", "source_language", "target_language", "text">>]

Field(r, f) == IF f \in DOMAIN r.body THEN r.body[f] ELSE None

(* What pydantic, or the form of a transcription, lets a field be; a null   *)
(* is a field that is not there.                                            *)
FieldType(op, f) ==
  IF f = "keep_alive" THEN KeepAliveValues
  ELSE IF f \in {"speed", "temperature"} THEN Floats
  ELSE IF f = "messages" \/ (f = "input" /\ op = "embedding") THEN Seq(STRING)
  ELSE STRING

ASSUME EndpointsAssumption ==
  /\ MaxRequests \in Nat
  /\ None \notin
       {"RuntimeError", "ValueError", "missing path", "waiting", "dead"}
  /\ None \notin STRING /\ None \notin Floats
  /\ \A e \in Environments :
       /\ DOMAIN e \subseteq DOMAIN Defaults
       /\ \A s \in DOMAIN e :
            e[s] \in IF s = "model_keep_alive" THEN KeepAliveValues ELSE STRING
  /\ \A r \in Requests :
       /\ r.op \in Runtimes
       /\ \A f \in DOMAIN r.body : r.body[f] \in FieldType(r.op, f)
-----------------------------------------------------------------------------
(* _resolve_tts_model: the model and the kind of backend a name stands for. *)
Resolve(model) ==
  IF model \in {settings.api_tts_model, settings.tts_model}
  THEN <<settings.tts_model, "kokoro">>
  ELSE IF model \in {settings.api_tts_quality_model, settings.tts_quality_model}
  THEN <<settings.tts_quality_model, "custom_voice">>
  ELSE IF model \in {settings.api_tts_voice_design_model,
                     settings.tts_voice_design_model}
  THEN <<settings.tts_voice_design_model, "voice_design">>
  ELSE None

Kind(r) ==
  LET resolved == Resolve(Field(r, "model"))
  IN IF resolved = None THEN None ELSE resolved[2]

Supported(r) ==
  LET model == Field(r, "model")
  IN \/ r.op = "chat"      /\ model = settings.api_llm_model
     \/ r.op = "embedding" /\ model = settings.api_embedding_model
     \/ r.op = "tts"       /\ Resolve(model) # None
     \/ r.op = "asr" /\ model \in {settings.api_asr_model, settings.asr_model}
     \/ r.op = "translation" /\ model \in
          {settings.api_translation_model, settings.translation_model,
           "local-translation"}

(* Python's "value or default", and str.lower on the names of formats.      *)
Or(value, default) == IF value \in {None, ""} THEN default ELSE value

LowerCase ==
  [WAV |-> "wav", MP3 |-> "mp3", OPUS |-> "opus", WEBM |-> "webm", AAC |-> "aac"]

Lower(format) ==
  IF format \in DOMAIN LowerCase THEN LowerCase[format] ELSE format

TtsFormat(r) ==
  Lower(Or(Field(r, "response_format"), settings.tts_response_format))
AsrFormat(r) == Or(Field(r, "response_format"), settings.asr_response_format)
Voice(r)     == Or(Field(r, "voice"), settings.tts_default_voice)
Instruct(r)  ==
  IF Field(r, "instruct") \in {"", " "} THEN None ELSE Field(r, "instruct")

TtsFormats == {"wav", "mp3", "opus", "webm", "aac"}
Languages  == {"eng_Latn", "zho_Hans"}  \* two of SUPPORTED_NLLB_LANGUAGE_CODES

(* What a handler objects to in a field.  The input of an embedding may be  *)
(* the empty text, but not an empty list; formats of a transcription are    *)
(* not lowered.                                                             *)
BadChat(r, f) == f = "messages" /\ Field(r, f) = <<>>

BadEmbedding(r, f) == f = "input" /\ Field(r, f) = <<>>

(* Mutant: a speed of zero passes.                                          *)
NegativeOnly(speed) == speed # None /\ Less(speed, Zero)

NotPositive(speed) == speed # None /\ AtMost(speed, Zero)

BadSpeech(r, f) ==
  \/ f = "input" /\ Field(r, f) \in {"", " "}
  \/ f = "response_format" /\ TtsFormat(r) \notin TtsFormats
  \/ f = "speed" /\ NotPositive(Field(r, f))
  \/ f = "instruct" /\ Kind(r) = "voice_design" /\ Instruct(r) = None

BadTranscription(r, f) ==
  \/ f = "response_format" /\ AsrFormat(r) \notin {"json", "text"}
  \/ f = "temperature" /\ Field(r, f) # None /\ Less(Field(r, f), Zero)
  \/ f = "file" /\ Field(r, f) = ""

BadTranslation(r, f) ==
  \/ f = "text" /\ Field(r, f) \in {"", " "}
  \/ f \in {"source_language", "target_language"} /\ Field(r, f) \notin Languages

Bad(r, f) ==
  \/ f = "model" /\ ~Supported(r)
  \/ f = "keep_alive" /\ ParseFails(Field(r, f), settings.model_keep_alive)
  \/ r.op = "chat"        /\ BadChat(r, f)
  \/ r.op = "embedding"   /\ BadEmbedding(r, f)
  \/ r.op = "tts"         /\ BadSpeech(r, f)
  \/ r.op = "asr"         /\ BadTranscription(r, f)
  \/ r.op = "translation" /\ BadTranslation(r, f)

(* The fields in the order a handler looks at them.                         *)
Checks ==
  [chat        |-> <<"model", "messages", "keep_alive">>,
   embedding   |-> <<"model", "input", "keep_alive">>,
   tts         |-> <<"model", "input", "response_format", "speed",
                     "keep_alive", "instruct">>,
   asr         |-> <<"model", "response_format", "temperature",
                     "keep_alive", "file">>,
   translation |-> <<"model", "text", "source_language", "target_language",
                     "keep_alive">>]

Missing(r) ==
  {i \in DOMAIN Required[r.op] : Required[r.op][i] \notin DOMAIN r.body}

Faulty(r) == {i \in DOMAIN Checks[r.op] : Bad(r, Checks[r.op][i])}

IsFirst(i, indices) == i \in indices /\ \A j \in indices : i <= j
-----------------------------------------------------------------------------
(* The runtimes.  _load fills the fields of whole; is_loaded asks for those *)
(* of needed.  The TTS provider holds one backend, by model and kind.       *)
Whole(n) ==
  CASE n = "chat"        -> {"model", "tokenizer"}
    [] n = "embedding"   -> {"generate", "model", "processor"}
    [] n = "tts"         -> {Resolve(Field(req, "model"))}
    [] n = "asr"         -> {"backend"}
    [] n = "translation" -> {"translator", "tokenizer"}

IsLoaded(n) ==
  IF n = "tts" THEN memory[n] # {} ELSE Whole(n) \ {"generate"} \subseteq memory[n]

(* Mutant: the TTS provider compares the model's name only.                 *)
ReadyByName(n) ==
  IF n = "tts" THEN \E b \in memory[n] : b[1] = Resolve(Field(req, "model"))[1]
               ELSE IsLoaded(n)

(* Mutant: one field is taken for all of them.                              *)
ReadyByAny(n) == IF n = "tts" THEN memory[n] = Whole(n) ELSE memory[n] # {}

Ready(n) == IF n = "tts" THEN memory[n] = Whole(n) ELSE IsLoaded(n)

(* What a library raises; a missing library is a RuntimeError of _load.     *)
Errors == {"RuntimeError", "ValueError"}

Outcome(fields, error) == [fields |-> fields, error |-> error]

(* How _load may end when there is something to load: the fields that are   *)
(* set afterwards, and what it raises.  Embedding may keep a function whose *)
(* model failed, TTS has dropped its backend, NLLB may keep a translator    *)
(* whose tokenizer failed.                                                  *)
Succeeds(n) == {Outcome(Whole(n), None)}

Raises(n, rests, errors) ==
  UNION {{Outcome(memory[n] \cup rest, e) : e \in errors} : rest \in rests}

LoadChat == Succeeds("chat") \cup Raises("chat", {{}}, Errors)

LoadEmbedding ==
  Succeeds("embedding") \cup Raises("embedding", {{}, {"generate"}}, Errors)

LoadTts == Succeeds("tts") \cup {Outcome({}, e) : e \in Errors}

LoadAsr ==
  IF settings.asr_backend # "mlx-whisper"
  THEN Raises("asr", {{}}, {"RuntimeError"})
  ELSE Succeeds("asr") \cup Raises("asr", {{}}, Errors)

LoadTranslation ==
  IF settings.translation_backend # "ctranslate2"
  THEN Raises("translation", {{}}, {"RuntimeError"})
  ELSE IF settings.translation_model_path = ""
  THEN Raises("translation", {{}}, {"RuntimeError", "missing path"})
  ELSE Succeeds("translation")
         \cup Raises("translation", {{}, {"translator"}}, Errors)

LoadOutcomes(n) ==
  IF Ready(n) THEN {Outcome(memory[n], None)}
  ELSE CASE n = "chat"        -> LoadChat
         [] n = "embedding"   -> LoadEmbedding
         [] n = "tts"         -> LoadTts
         [] n = "asr"         -> LoadAsr
         [] n = "translation" -> LoadTranslation

(* The voices of Qwen3-TTS.  "default" is the configured voice, which is    *)
(* one of Kokoro's as shipped; a designed voice is named that way too.      *)
QwenVoices == {"vivian", "serena"}  \* two of _SUPPORTED_VOICES

BackendVoice(r) ==
  IF Kind(r) = "voice_design" \/ Voice(r) = "default"
  THEN settings.tts_default_voice ELSE Voice(r)

BackendRefuses(r) ==
  /\ r.op = "tts"
  /\ \/ Kind(r) = "custom_voice" /\ BackendVoice(r) \notin QwenVoices
     \/ Kind(r) = "voice_design" /\ Instruct(r) = None
-----------------------------------------------------------------------------
Goto(where) == pc' = where
Reply(status, param) == answer' = [status |-> status, param |-> param]
Refuse(param) == Reply(400, param) /\ Goto("answered")

(* What is answered to a field at fault.                                    *)
Object(f) ==
  IF f = "keep_alive" /\ Overflows(Field(req, f), settings.model_keep_alive)
  THEN Reply(500, None) /\ Goto("answered") ELSE Refuse(f)

(* A transcription goes through its finally block, whatever its answer.     *)
Leave == Goto(IF req.op = "asr" THEN "unlink" ELSE "answered")

Init ==
  /\ environment \in Environments
  /\ pc = "idle" /\ req = None /\ left = MaxRequests
  /\ answer = None /\ began = FALSE /\ using = None /\ spoken = None
  /\ memory    = [n \in Runtimes |-> {}]
  /\ keepAlive = [n \in Runtimes |-> None]
  /\ unloadAt  = [n \in Runtimes |-> None]
  /\ timer     = [n \in Runtimes |-> None]
  /\ lockLost  = FALSE

Arrive ==
  /\ pc = "idle" /\ left > 0
  /\ left' = left - 1
  /\ req' \in Requests
  /\ Goto("validate")
  /\ answer' = None /\ began' = FALSE /\ using' = None /\ spoken' = None
  /\ UNCHANGED <<memory, lifecycleVars, lockLost>>

(* FastAPI's own validation comes first, then the handler's; the first      *)
(* fault is answered.  A transcription decodes its file and looks for a     *)
(* signal before it asks for the lock.                                      *)
Validate ==
  /\ pc = "validate"
  /\ \/ \E i \in Missing(req) :
          IsFirst(i, Missing(req)) /\ Refuse(Required[req.op][i])
     \/ /\ Missing(req) = {}
        /\ \E i \in Faulty(req) :
             IsFirst(i, Faulty(req)) /\ Object(Checks[req.op][i])
     \/ /\ Missing(req) = {} /\ Faulty(req) = {}
        /\ Goto(IF req.op = "asr" THEN "decode" ELSE "lock")
        /\ UNCHANGED answer
  /\ UNCHANGED <<req, left, began, using, spoken, memory, lifecycleVars, lockLost>>

(* The upload is written, decoded and listened to.  A ValueError is the     *)
(* file's fault; an OSError of a temporary file or of starting ffmpeg, or   *)
(* an EOFError of wave.open, is caught by nobody.                           *)
Decode ==
  /\ pc = "decode"
  /\ \/ Goto("lock") /\ UNCHANGED answer
     \/ Reply(400, "file") /\ Leave
     \/ Reply(500, None) /\ Leave
  /\ UNCHANGED <<req, left, began, using, spoken, memory, lifecycleVars, lockLost>>

(* Mutant: the handler begins before it knows whether it has the lock.      *)
BusyBegins ==
  /\ pc = "lock"
  /\ Reply(503, req.op) /\ Leave
  /\ unloadAt' = [unloadAt EXCEPT ![req.op] = None]
  /\ timer'    = [timer EXCEPT ![req.op] = None]
  /\ UNCHANGED <<req, left, began, using, spoken, memory, keepAlive, lockLost>>

(* The inference lock may be held by others for as long as the time-out,    *)
(* or for good.                                                             *)
Busy ==
  /\ pc = "lock"
  /\ Reply(503, req.op) /\ Leave
  /\ UNCHANGED <<req, left, began, using, spoken, memory, lifecycleVars, lockLost>>

(* The lock, begin_request, and the function given to the worker.           *)
Begin ==
  /\ pc = "lock" /\ ~lockLost
  /\ began' = TRUE /\ using' = req.op
  /\ unloadAt' = [unloadAt EXCEPT ![req.op] = None]
  /\ timer'    = [timer EXCEPT ![req.op] = None]
  /\ Goto("load")
  /\ UNCHANGED <<req, left, answer, spoken, memory, keepAlive, lockLost>>

(* Mutant: an exception of another kind is swallowed.                       *)
CatchSwallows(error) ==
  /\ Goto("finish") /\ UNCHANGED using
  /\ IF error = "ValueError" THEN Reply(400, None) ELSE UNCHANGED answer

(* What the handler makes of an exception.  Only a translation without a    *)
(* model path goes on, with the LLM; a ValueError is the request's fault in *)
(* speech and translation, but not one that the LLM raises in its place.    *)
Catch(error) ==
  IF error = "missing path"
  THEN Goto("load") /\ using' = "chat" /\ UNCHANGED answer
  ELSE /\ Goto("finish") /\ UNCHANGED using
       /\ IF error = "ValueError" /\ using = "tts"
          THEN Reply(400, IF Kind(req) = "voice_design"
                          THEN "instruct" ELSE "voice")
          ELSE IF error = "ValueError" /\ using = "translation"
          THEN Reply(400, None)
          ELSE Reply(500, None)

Load ==
  /\ pc = "load"
  /\ \E o \in LoadOutcomes(using) :
       /\ memory' = [memory EXCEPT ![using] = o.fields]
       /\ IF o.error = None THEN Goto("infer") /\ UNCHANGED <<answer, using>>
                            ELSE Catch(o.error)
  /\ UNCHANGED <<req, left, began, spoken, lifecycleVars, lockLost>>

Infer ==
  /\ pc = "infer"
  /\ \/ /\ ~BackendRefuses(req)
        /\ Reply(200, None) /\ Goto("finish")
        /\ spoken' = IF using = "tts"
                     THEN [backends |-> memory["tts"], voice |-> BackendVoice(req)]
                     ELSE None
        /\ UNCHANGED using
     \/ /\ \E e \in Errors : (BackendRefuses(req) => e = "ValueError") /\ Catch(e)
        /\ UNCHANGED spoken
  /\ UNCHANGED <<req, left, began, memory, lifecycleVars, lockLost>>

(* finish_request of the endpoint's own lifecycle, whatever runtime was     *)
(* used, and the release of the lock.  An unload at once may raise after it *)
(* has dropped the references: that is the answer then, and the release is  *)
(* skipped.                                                                 *)
Finish ==
  /\ pc = "finish"
  /\ LET n  == req.op
         ka == Parse(Field(req, "keep_alive"), settings.model_keep_alive)
         schedules == IsLoaded(n) /\ ka # None /\ ~UnloadsNow(ka)
         unloads   == IsLoaded(n) /\ UnloadsNow(ka)
         encodes   == n = "tts" /\ answer.status = 200 /\ TtsFormat(req) # "wav"
     IN /\ keepAlive' = [keepAlive EXCEPT ![n] = ka]
        /\ unloadAt'  = [unloadAt EXCEPT ![n] = IF schedules THEN ka ELSE None]
        /\ timer'     = [timer EXCEPT ![n] =
             IF ~schedules THEN None ELSE IF TooLong(ka) THEN "dead" ELSE "waiting"]
        /\ memory' = IF unloads THEN [memory EXCEPT ![n] = {}] ELSE memory
        /\ \/ /\ IF encodes THEN Goto("transcode") ELSE Leave
              /\ UNCHANGED <<answer, lockLost>>
           \/ unloads /\ Reply(500, None) /\ Leave /\ lockLost' = TRUE
  /\ UNCHANGED <<req, left, began, using, spoken>>

(* The finally block of a transcription.  An unlink that fails, unless the  *)
(* file is gone already, takes the place of whatever was to be answered.    *)
RemoveFiles ==
  /\ pc = "unlink"
  /\ UNCHANGED answer \/ Reply(500, None)
  /\ Goto("answered")
  /\ UNCHANGED <<req, left, began, using, spoken, memory, lifecycleVars, lockLost>>

(* _transcode_tts_audio makes a ValueError of a missing ffmpeg, and of one  *)
(* that fails, but not of another OSError.                                  *)
Transcode ==
  /\ pc = "transcode"
  /\ \/ UNCHANGED answer
     \/ Reply(400, "response_format")
     \/ Reply(500, None)
  /\ Goto("answered")
  /\ UNCHANGED <<req, left, began, using, spoken, memory, lifecycleVars, lockLost>>

Return ==
  /\ pc = "answered"
  /\ Goto("idle")
  /\ req' = None /\ answer' = None /\ began' = FALSE /\ using' = None /\ spoken' = None
  /\ UNCHANGED <<left, memory, lifecycleVars, lockLost>>

(* A timer thread that has the lock: _unload_if_idle.                       *)
Unload(n) ==
  /\ timer[n] = "waiting" /\ pc \notin {"load", "infer", "finish"} /\ ~lockLost
  /\ timer'    = [timer EXCEPT ![n] = None]
  /\ unloadAt' = [unloadAt EXCEPT ![n] = None]
  /\ memory'   = IF IsLoaded(n) THEN [memory EXCEPT ![n] = {}] ELSE memory
  /\ UNCHANGED <<requestVars, keepAlive, lockLost>>

RequestStep ==
  \/ Arrive \/ Validate \/ Decode \/ Busy \/ Begin \/ Load \/ Infer \/ Finish
  \/ Transcode \/ RemoveFiles \/ Return

Next ==
  /\ RequestStep \/ \E n \in Runtimes : Unload(n)
  /\ UNCHANGED environment

Spec == Init /\ [][Next]_vars
-----------------------------------------------------------------------------
Fields ==
  {"model", "messages", "input", "file", "text", "source_language",
   "target_language", "response_format", "speed", "temperature", "keep_alive",
   "voice", "instruct"}

Answers ==
  [status : {200, 400, 500, 503}, param : Fields \cup Runtimes \cup {None}]

(* Every variable has its type. *)
TypeOK ==
  /\ pc \in {"idle", "validate", "decode", "lock", "load", "infer", "finish",
             "transcode", "unlink", "answered"}
  /\ environment \in Environments /\ req \in Requests \cup {None}
  /\ left \in 0..MaxRequests
  /\ answer \in Answers \cup {None}
  /\ pc \in {"finish", "transcode", "unlink", "answered"} => answer \in Answers
  /\ using \in Runtimes \cup {None}
  /\ \A n \in Runtimes \ {"tts"} :
       memory[n] \subseteq {"model", "tokenizer", "generate", "processor",
                           "backend", "translator"}
  /\ timer \in [Runtimes -> {None, "waiting", "dead"}]
  /\ lockLost \in BOOLEAN

(* What the documentation lets a client send, field by field.  NaN, which   *)
(* is neither positive nor not, is let through; a request without a         *)
(* keep-alive, or a format, is at fault for a configured one that is none.  *)
Acceptable(r) ==
  LET Needed(f, good) == f \in DOMAIN r.body /\ r.body[f] \in good
      keep == Effective(Field(r, "keep_alive"), settings.model_keep_alive)
  IN /\ Needed("model", {m \in {Field(r, "model")} : Supported(r)})
     /\ keep.type \in {"number", "duration"}
     /\ r.op = "chat"      => Needed("messages", Seq(STRING) \ {<<>>})
     /\ r.op = "embedding" => Needed("input", Seq(STRING) \ {<<>>})
     /\ r.op = "tts" =>
          /\ Needed("input", STRING \ {"", " "})
          /\ Or(Field(r, "response_format"), settings.tts_response_format)
               \in TtsFormats \cup DOMAIN LowerCase
          /\ "speed" \in DOMAIN r.body =>
               Less(Zero, r.body.speed) \/ r.body.speed = NaN
          /\ Kind(r) = "voice_design" =>
               Needed("instruct", STRING \ {"", " "})
     /\ r.op = "asr" =>
          /\ Needed("file", STRING \ {""})
          /\ AsrFormat(r) \in {"json", "text"}
          /\ "temperature" \in DOMAIN r.body =>
               AtMost(Zero, r.body.temperature) \/ r.body.temperature = NaN
     /\ r.op = "translation" =>
          /\ Needed("text", STRING \ {"", " "})
          /\ Needed("source_language", Languages) /\ Needed("target_language", Languages)

(* A request is answered as it deserves.  If a field is at fault, with a    *)
(* 400 before anything begins.  Else with a 400 only where the request may  *)
(* still be to blame - the voice, the file, the encoding; with a 503 only   *)
(* before it began; with a 200 only after an inference, and never again     *)
(* once the lock is lost.  Nothing fails with a 500 before it began but an  *)
(* acceptable transcription, which has files to handle, and a keep-alive    *)
(* that no float can hold.                                                  *)
AnswersFit ==
  pc = "answered" =>
    /\ ~Acceptable(req) => answer.status \in {400, 500} /\ ~began
    /\ answer.status = 503 => ~began
    /\ answer.status = 200 => began /\ ~lockLost
    /\ answer.status = 500 =>
         \/ began
         \/ req.op = "asr" /\ Acceptable(req)
         \/ Overflows(Field(req, "keep_alive"), settings.model_keep_alive)
    /\ answer.status = 400 /\ Acceptable(req) =>
         \/ req.op = "asr" /\ answer.param = "file" /\ ~began
         \/ req.op = "tts" /\ answer.param \in {"voice", "instruct", "response_format"}
         \/ req.op = "translation" /\ answer.param = None /\ using = "translation"

(* Speech is made by the model the request named, as the kind of backend    *)
(* the name stands for, whatever was in memory before, and in the voice it  *)
(* asked for; a voice the model does not have is never replaced by another. *)
SpokenAsAsked ==
  pc = "answered" /\ req.op = "tts" /\ answer.status = 200 =>
    /\ spoken.backends = {Resolve(Field(req, "model"))}
    /\ Kind(req) # "voice_design" /\ Field(req, "voice") \notin {None, "", "default"}
         => spoken.voice = Field(req, "voice")
    /\ Kind(req) = "custom_voice" => spoken.voice \in QwenVoices

(* The asserts after _load hold: whatever an earlier load left behind when  *)
(* it failed, an inference finds every field of its runtime set.            *)
LoadedWhenUsed == pc = "infer" => Whole(using) \subseteq memory[using]

(* A request's own keep-alive decides, not the configured one and not that  *)
(* of an earlier request: zero has unloaded the model, a negative number    *)
(* keeps it without a timer, and any other schedules it - with a timer that *)
(* will never fire exactly if no thread can wait that long.                 *)
KeepAliveHonoured ==
  pc = "answered" /\ began =>
    LET n     == req.op
        asked == Effective(Field(req, "keep_alive"), settings.model_keep_alive)
    IN /\ asked.amount = Zero => memory[n] = {} \/ ~IsLoaded(n)
       /\ Less(asked.amount, Zero) => timer[n] = None /\ unloadAt[n] = None
       /\ IsLoaded(n) /\ ~Less(asked.amount, Zero) =>
            /\ unloadAt[n] # None /\ timer[n] # None
            /\ timer[n] = "dead" <=> Less(Number(TimeoutMax), unloadAt[n])

(* Nothing of a runtime changes but by its own timer, or by an acceptable   *)
(* request that has begun: its own runtime's, or the memory of the LLM for  *)
(* a translation without a model path.  A refused request, or one answered  *)
(* with 503, does not so much as postpone an unload.                        *)
OnlyServedRequestsTouch ==
  [][\A n \in Runtimes :
       <<memory[n], keepAlive[n], unloadAt[n]>>' # <<memory[n], keepAlive[n], unloadAt[n]>>
         => \/ timer[n] = "waiting" /\ UNCHANGED requestVars
            \/ Acceptable(req) /\ began' /\ n = req.op
            \/ /\ req.op = "translation" /\ using = "chat" /\ n = "chat"
               /\ settings.translation_model_path = ""
               /\ UNCHANGED <<keepAlive[n], unloadAt[n]>>]_vars
=============================================================================
