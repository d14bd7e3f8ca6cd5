--------------------------- MODULE EndpointsProofs ---------------------------
(***************************************************************************)
(* What the runtimes hold when they are used, and what is answered, for    *)
(* every set of requests and environments.  The first half is about what   *)
(* earlier requests leave behind: a load that failed half-way, a TTS       *)
(* backend of another kind.  The second is about the request in hand: that *)
(* the checks in their order let exactly the acceptable ones through, that *)
(* every exception comes out as the answer it deserves, and that the       *)
(* keep-alive of a served request, and of no other, decides what becomes   *)
(* of its model.                                                           *)
(***************************************************************************)
EXTENDS Endpoints, TLAPS

(* What the fields of the runtimes may ever refer to: all of them, nothing, *)
(* or what a failed load has left.                                          *)
Shapes(n) ==
  CASE n = "chat"        -> {{}, {"model", "tokenizer"}}
    [] n = "embedding"   -> {{}, {"generate"}, {"generate", "model", "processor"}}
    [] n = "asr"         -> {{}, {"backend"}}
    [] n = "translation" -> {{}, {"translator"}, {"translator", "tokenizer"}}

MemoryShape ==
  /\ memory = [n \in Runtimes |-> memory[n]]
  /\ \A n \in Runtimes \ {"tts"} : memory[n] \in Shapes(n)

(* The worker uses the runtime of the endpoint, or the LLM in the place of  *)
(* NLLB; when the inference starts it is whole, and TTS holds the backend   *)
(* of this request and no other.                                            *)
InUse ==
  /\ pc # "idle" => req \in Requests
  /\ pc \in {"load", "infer"} =>
       using = req.op \/ (using = "chat" /\ req.op = "translation")
  /\ pc = "infer" => Whole(using) \subseteq memory[using]
  /\ pc = "infer" /\ using = "tts" => memory["tts"] = Whole("tts")

(* What was said stays what was asked for until the answer has gone.        *)
Said ==
  pc \in {"finish", "transcode", "unlink", "answered"} /\ req.op = "tts"
    /\ answer.status = 200 =>
      /\ spoken = [backends |-> Whole("tts"), voice |-> BackendVoice(req)]
      /\ ~BackendRefuses(req)

UseInv == MemoryShape /\ InUse /\ Said
-----------------------------------------------------------------------------
LEMMA WholeRuntimes ==
  /\ Whole("chat") = {"model", "tokenizer"}
  /\ Whole("embedding") = {"generate", "model", "processor"}
  /\ Whole("tts") = {Resolve(Field(req, "model"))}
  /\ Whole("asr") = {"backend"}
  /\ Whole("translation") = {"translator", "tokenizer"}
BY DEF Whole

LEMMA NoneIsNoValue ==
  /\ None \notin STRING /\ None \notin Floats
  /\ None \notin {"RuntimeError", "ValueError", "missing path", "waiting", "dead"}
BY EndpointsAssumption DEF EndpointsAssumption

(* No library raises None.                                                  *)
LEMMA ErrorsAreErrors == None \notin Errors \cup {"missing path"}
BY NoneIsNoValue DEF Errors

LEMMA ShapesOfRuntimes ==
  /\ Shapes("chat") = {{}, {"model", "tokenizer"}}
  /\ Shapes("embedding") = {{}, {"generate"}, {"generate", "model", "processor"}}
  /\ Shapes("asr") = {{}, {"backend"}}
  /\ Shapes("translation") = {{}, {"translator"}, {"translator", "tokenizer"}}
BY DEF Shapes

(* A load raises nothing and leaves the runtime whole, or leaves what the   *)
(* next load can start from.                                                *)
Good(n, o) ==
  /\ o.error \in Errors \cup {"missing path", None}
  /\ o.error = "missing path" => n = "translation"
  /\ n # "tts" => o.fields \in Shapes(n)
  /\ o.error = None =>
       Whole(n) \subseteq o.fields /\ (n = "tts" => o.fields = Whole(n))

LEMMA SuccessIsGood ==
  ASSUME NEW n \in Runtimes, NEW o \in Succeeds(n)
  PROVE  Good(n, o)
<1>1. o.fields = Whole(n) /\ o.error = None
  BY DEF Succeeds, Outcome
<1>2. n # "tts" => Whole(n) \in Shapes(n)
  BY WholeRuntimes, ShapesOfRuntimes DEF Runtimes
<1> QED BY <1>1, <1>2, ErrorsAreErrors DEF Good

LEMMA FailureIsGood ==
  ASSUME MemoryShape, NEW n \in Runtimes, n # "tts",
         NEW rests, NEW errors, NEW o \in Raises(n, rests, errors),
         \/ rests = {{}}
         \/ n = "embedding" /\ rests = {{}, {"generate"}}
         \/ n = "translation" /\ rests = {{}, {"translator"}},
         \/ errors \subseteq Errors
         \/ n = "translation" /\ errors \subseteq Errors \cup {"missing path"}
  PROVE  Good(n, o)
<1>1. PICK rest \in rests, e \in errors : o = Outcome(memory[n] \cup rest, e)
  <2> DEFINE Leaving(rest) == {Outcome(memory[n] \cup rest, e) : e \in errors}
  <2>1. o \in UNION {Leaving(rest) : rest \in rests}
    BY DEF Raises
  <2>2. PICK rest \in rests : o \in Leaving(rest)
    <3>1. PICK outs \in {Leaving(rest) : rest \in rests} : o \in outs
      BY <2>1
    <3> QED BY <3>1
  <2> QED BY <2>2
<1>2. o.fields = memory[n] \cup rest /\ o.error = e
  BY <1>1 DEF Outcome
<1>3. memory[n] \in Shapes(n)
  BY DEF MemoryShape
<1>4. memory[n] \cup rest \in Shapes(n)
  <2>1. CASE rest = {}
    <3>1. memory[n] \cup rest = memory[n]
      BY <2>1
    <3> QED BY <1>3, <3>1
  <2>2. CASE n = "embedding" /\ rest = {"generate"}
    BY <1>3, <2>2, ShapesOfRuntimes
  <2>3. CASE n = "translation" /\ rest = {"translator"}
    <3>1. memory[n] \in {{}, {"translator"}, {"translator", "tokenizer"}}
      BY <1>3, <2>3, ShapesOfRuntimes
    <3>2. memory[n] \cup rest \in {{"translator"}, {"translator", "tokenizer"}}
      <4>1. CASE memory[n] = {}
        BY <2>3, <4>1
      <4>2. CASE memory[n] = {"translator"}
        BY <2>3, <4>2
      <4>3. CASE memory[n] = {"translator", "tokenizer"}
        BY <2>3, <4>3
      <4> QED BY <3>1, <4>1, <4>2, <4>3
    <3> QED BY <2>3, <3>2, ShapesOfRuntimes
  <2> QED BY <1>1, <2>1, <2>2, <2>3
<1> QED BY <1>1, <1>2, <1>4, ErrorsAreErrors DEF Good, Errors

LEMMA LoadIsGood ==
  ASSUME MemoryShape, NEW n \in Runtimes, NEW o \in LoadOutcomes(n)
  PROVE  Good(n, o)
<1>1. CASE Ready(n)
  <2>1. o = Outcome(memory[n], None)
    BY <1>1 DEF LoadOutcomes
  <2>2. o.fields = memory[n] /\ o.error = None
    BY <2>1 DEF Outcome
  <2>3. CASE n = "tts"
    BY <1>1, <2>2, <2>3, ErrorsAreErrors DEF Ready, Good
  <2>4. CASE n # "tts"
    <3>1. Whole(n) \ {"generate"} \subseteq memory[n] /\ memory[n] \in Shapes(n)
      BY <1>1, <2>4 DEF Ready, IsLoaded, MemoryShape
    <3>2. Whole(n) \subseteq memory[n]
      BY <2>4, <3>1, WholeRuntimes, ShapesOfRuntimes DEF Runtimes
    <3> QED BY <2>2, <2>4, <3>1, <3>2, ErrorsAreErrors DEF Good
  <2> QED BY <2>3, <2>4
<1>2. CASE ~Ready(n)
  <2>1. {"RuntimeError"} \subseteq Errors
        /\ {"RuntimeError", "missing path"} \subseteq Errors \cup {"missing path"}
    BY DEF Errors
  <2>2. CASE n = "chat"
    BY <1>2, <2>2, SuccessIsGood, FailureIsGood DEF LoadOutcomes, LoadChat
  <2>3. CASE n = "embedding"
    BY <1>2, <2>3, SuccessIsGood, FailureIsGood
    DEF LoadOutcomes, LoadEmbedding
  <2>4. CASE n = "tts"
    <3>1. o \in Succeeds("tts") \/ \E e \in Errors : o = Outcome({}, e)
      BY <1>2, <2>4 DEF LoadOutcomes, LoadTts
    <3>2. ASSUME NEW e \in Errors, o = Outcome({}, e)
          PROVE  Good(n, o)
      BY <2>4, <3>2, ErrorsAreErrors DEF Good, Outcome, Errors
    <3> QED BY <2>4, <3>1, <3>2, SuccessIsGood
  <2>5. CASE n = "asr"
    BY <1>2, <2>1, <2>5, SuccessIsGood, FailureIsGood DEF LoadOutcomes, LoadAsr
  <2>6. CASE n = "translation"
    BY <1>2, <2>1, <2>6, SuccessIsGood, FailureIsGood
    DEF LoadOutcomes, LoadTranslation
  <2> QED BY <2>2, <2>3, <2>4, <2>5, <2>6 DEF Runtimes
<1> QED BY <1>1, <1>2
-----------------------------------------------------------------------------
LEMMA InitUse == Init => UseInv
BY ShapesOfRuntimes
DEF Init, UseInv, MemoryShape, InUse, Said, Runtimes, Shapes

(* While request and environment stay, so does what they ask for.           *)
LEMMA SameRequest ==
  ASSUME UNCHANGED <<req, environment>>
  PROVE  /\ \A n : Whole(n)' = Whole(n)
         /\ BackendVoice(req)' = BackendVoice(req)
         /\ BackendRefuses(req)' <=> BackendRefuses(req)
         /\ Kind(req)' = Kind(req)
<1>1. \A model : Resolve(model)' = Resolve(model)
  BY DEF Resolve, settings
<1>2. Kind(req)' = Kind(req) /\ Field(req, "model")' = Field(req, "model")
  BY <1>1 DEF Kind, Field
<1>3. \A n : Whole(n)' = Whole(n)
  BY <1>1, <1>2 DEF Whole
<1>4. BackendVoice(req)' = BackendVoice(req)
  BY <1>2 DEF BackendVoice, Voice, Or, Field, settings
<1>5. BackendRefuses(req)' <=> BackendRefuses(req)
  BY <1>2, <1>4 DEF BackendRefuses, Instruct, Field
<1> QED BY <1>2, <1>3, <1>4, <1>5

LEMMA QuietSteps ==
  ASSUME UseInv, UNCHANGED environment,
         \/ Arrive \/ Validate \/ Decode \/ Busy \/ Begin
         \/ Transcode \/ RemoveFiles \/ Return
  PROVE  UseInv'
<1> USE DEF Goto, Reply, lifecycleVars
<1>1. MemoryShape'
  BY DEF UseInv, MemoryShape, Arrive, Validate, Decode, Busy, Begin, Transcode,
         RemoveFiles, Return
<1>2. CASE Arrive \/ Return
  BY <1>1, <1>2 DEF UseInv, InUse, Said, Arrive, Return
<1>3. CASE Validate \/ Decode \/ Busy
  <2>1. answer'.status \in {400, 500, 503} \/ pc' \in {"decode", "lock"}
    BY <1>3 DEF Validate, Object, Decode, Busy, Refuse
  <2>2. pc' \notin {"idle", "load", "infer"} /\ req' = req /\ pc # "idle"
    BY <1>3 DEF Validate, Object, Decode, Busy, Refuse, Leave
  <2> QED BY <1>1, <2>1, <2>2 DEF UseInv, InUse, Said
<1>4. CASE Begin
  BY <1>1, <1>4 DEF UseInv, InUse, Said, Begin
<1>5. CASE Transcode
  <2>1. UNCHANGED <<req, spoken>> /\ pc = "transcode" /\ pc' = "answered"
    BY <1>5 DEF Transcode
  <2>2. answer' = answer \/ answer'.status \in {400, 500}
    BY <1>5 DEF Transcode
  <2> QED BY <1>1, <2>1, <2>2, SameRequest DEF UseInv, InUse, Said
<1>6. CASE RemoveFiles
  <2>1. UNCHANGED <<req, spoken>> /\ pc = "unlink" /\ pc' = "answered"
    BY <1>6 DEF RemoveFiles
  <2>2. answer' = answer \/ answer'.status = 500
    BY <1>6 DEF RemoveFiles
  <2> QED BY <1>1, <2>1, <2>2, SameRequest DEF UseInv, InUse, Said
<1> QED BY <1>2, <1>3, <1>4, <1>5, <1>6

(* An exception is answered, but for the missing path.                      *)
LEMMA CatchAnswers ==
  ASSUME NEW e, e # "missing path", Catch(e)
  PROVE  pc' = "finish" /\ answer'.status \in {400, 500}
<1>1. pc' = "finish"
  BY DEF Catch, Goto
<1>2. \/ \E param : Reply(400, param)
      \/ Reply(500, None)
  <2>1. CASE e = "ValueError" /\ using = "tts"
    BY <2>1 DEF Catch
  <2>2. CASE e = "ValueError" /\ using = "translation"
    BY <2>2 DEF Catch
  <2>3. CASE ~(e = "ValueError" /\ using \in {"tts", "translation"})
    BY <2>3 DEF Catch
  <2> QED BY <2>1, <2>2, <2>3
<1>3. ASSUME NEW param, Reply(400, param) PROVE answer'.status = 400
  BY <1>3 DEF Reply
<1>4. ASSUME Reply(500, None) PROVE answer'.status = 500
  BY <1>4 DEF Reply
<1>5. answer'.status = 400 \/ answer'.status = 500
  BY <1>2, <1>3, <1>4
<1> QED BY <1>1, <1>5

(* The load: whatever it started from, a runtime is used when it is whole.  *)
LEMMA LoadStep ==
  ASSUME UseInv, UNCHANGED environment, Load
  PROVE  UseInv'
<1>1. using \in Runtimes /\ req \in Requests /\ req.op \in Runtimes
  BY EndpointsAssumption
  DEF Load, UseInv, InUse, Runtimes, EndpointsAssumption
<1>2. PICK o \in LoadOutcomes(using) :
        /\ memory' = [memory EXCEPT ![using] = o.fields]
        /\ IF o.error = None THEN Goto("infer") /\ UNCHANGED <<answer, using>>
                             ELSE Catch(o.error)
  BY DEF Load
<1>3. Good(using, o)
  BY <1>1, <1>2, LoadIsGood DEF UseInv
<1>4. memory'[using] = o.fields
  BY <1>1, <1>2 DEF UseInv, MemoryShape
<1>5. MemoryShape'
  BY <1>1, <1>2, <1>3, <1>4 DEF UseInv, MemoryShape, Good
<1>6. UNCHANGED <<req, spoken>> /\ pc = "load"
  BY DEF Load
<1>7. CASE o.error = None
  BY <1>1, <1>2, <1>3, <1>4, <1>5, <1>6, <1>7, SameRequest
  DEF UseInv, InUse, Said, Good, Goto
<1>8. CASE o.error # None
  <2>1. \/ pc' = "load" /\ using' = "chat" /\ o.error = "missing path"
        \/ pc' = "finish" /\ answer'.status \in {400, 500}
    <3>1. CASE o.error = "missing path"
      BY <1>2, <1>8, <3>1 DEF Catch, Goto
    <3>2. CASE o.error # "missing path"
      BY <1>2, <1>8, <3>2, CatchAnswers
    <3> QED BY <3>1, <3>2
  <2>2. o.error = "missing path" => req.op = "translation"
    BY <1>3, <1>6 DEF UseInv, InUse, Good
  <2>3. Said'
    <3>1. CASE pc' = "load"
      BY <3>1 DEF Said
    <3>2. CASE answer'.status \in {400, 500}
      <4>1. answer'.status # 200
        BY <3>2
      <4> QED BY <4>1 DEF Said
    <3> QED BY <2>1, <3>1, <3>2
  <2>4. InUse'
    BY <1>6, <2>1, <2>2 DEF UseInv, InUse
  <2> QED BY <1>5, <2>3, <2>4 DEF UseInv
<1> QED BY <1>7, <1>8

(* The inference: speech comes from the backend in memory.                  *)
LEMMA InferStep ==
  ASSUME UseInv, UNCHANGED environment, Infer
  PROVE  UseInv'
<1>1. /\ UNCHANGED <<req, memory>> /\ pc = "infer" /\ req \in Requests
      /\ MemoryShape'
  BY DEF Infer, UseInv, InUse, MemoryShape
<1>2. CASE /\ ~BackendRefuses(req) /\ Reply(200, None) /\ Goto("finish")
           /\ spoken' = IF using = "tts"
                        THEN [backends |-> memory["tts"], voice |-> BackendVoice(req)]
                        ELSE None
  <2>1. pc' = "finish"
    BY <1>2 DEF Goto
  <2>2. ASSUME req.op = "tts"
        PROVE  /\ spoken' = [backends |-> Whole("tts"), voice |-> BackendVoice(req)]
               /\ ~BackendRefuses(req)
    <3>1. using = "tts" /\ memory["tts"] = Whole("tts")
      BY <1>1, <2>2 DEF UseInv, InUse
    <3> QED BY <1>2, <3>1
  <2> QED BY <1>1, <2>1, <2>2, SameRequest DEF UseInv, InUse, Said
<1>3. ASSUME NEW e \in Errors, Catch(e)
      PROVE  UseInv'
  <2>1. e # "missing path"
    BY DEF Errors
  <2>2. pc' = "finish" /\ answer'.status \in {400, 500}
    BY <1>3, <2>1, CatchAnswers
  <2> QED BY <1>1, <2>2 DEF UseInv, InUse, Said
<1> QED BY <1>2, <1>3 DEF Infer

LEMMA EmptyMemory ==
  ASSUME MemoryShape, NEW n \in Runtimes,
         memory' = [memory EXCEPT ![n] = {}] \/ memory' = memory
  PROVE  MemoryShape'
<1>1. \A m \in Runtimes : memory'[m] = memory[m] \/ memory'[m] = {}
  BY DEF MemoryShape
<1>2. \A m \in Runtimes \ {"tts"} : {} \in Shapes(m)
  BY ShapesOfRuntimes DEF Runtimes
<1>3. memory' = [m \in Runtimes |-> memory'[m]]
  BY DEF MemoryShape
<1> QED BY <1>1, <1>2, <1>3 DEF MemoryShape

LEMMA FinishStep ==
  ASSUME UseInv, UNCHANGED environment, Finish
  PROVE  UseInv'
<1>1. /\ UNCHANGED <<req, spoken>> /\ pc = "finish"
      /\ answer' = answer \/ answer'.status = 500
      /\ pc' \in {"transcode", "unlink", "answered"}
      /\ req \in Requests /\ req.op \in Runtimes
  <2>1. UNCHANGED answer \/ Reply(500, None)
    BY DEF Finish
  <2>2. Goto("transcode") \/ Leave
    BY DEF Finish
  <2>3. pc' \in {"transcode", "unlink", "answered"}
    BY <2>2 DEF Leave, Goto
  <2>4. answer' = answer \/ answer'.status = 500
    BY <2>1 DEF Reply
  <2>5. UNCHANGED <<req, spoken>> /\ pc = "finish" /\ req \in Requests
    BY DEF Finish, UseInv, InUse
  <2> QED BY <2>3, <2>4, <2>5, EndpointsAssumption DEF EndpointsAssumption
<1>2. memory' = [memory EXCEPT ![req.op] = {}] \/ memory' = memory
  BY DEF Finish
<1>3. MemoryShape'
  BY <1>1, <1>2, EmptyMemory DEF UseInv
<1> QED BY <1>1, <1>3, SameRequest DEF UseInv, InUse, Said

LEMMA UnloadStep ==
  ASSUME UseInv, UNCHANGED environment, NEW n \in Runtimes, Unload(n)
  PROVE  UseInv'
<1>1. UNCHANGED <<req, answer, spoken, pc, using>> /\ pc \notin {"load", "infer"}
  BY DEF Unload, requestVars
<1>2. memory' = [memory EXCEPT ![n] = {}] \/ memory' = memory
  BY DEF Unload
<1>3. MemoryShape'
  BY <1>2, EmptyMemory DEF UseInv
<1> QED BY <1>1, <1>3, SameRequest DEF UseInv, InUse, Said

LEMMA UseStep == UseInv /\ [Next]_vars => UseInv'
<1> SUFFICES ASSUME UseInv, [Next]_vars PROVE UseInv'
  OBVIOUS
<1>1. CASE Next
  BY <1>1, QuietSteps, LoadStep, InferStep, FinishStep, UnloadStep
  DEF Next, RequestStep
<1>2. CASE UNCHANGED vars
  <2>1. UNCHANGED <<environment, req, answer, spoken, pc, using, memory>>
    BY <1>2 DEF vars, requestVars
  <2> QED BY <2>1, SameRequest DEF UseInv, MemoryShape, InUse, Said
<1> QED BY <1>1, <1>2

(* The inductive invariant about what the runtimes hold and what was said.  *)
THEOREM UseInvariant == Spec => []UseInv
BY InitUse, UseStep, PTL DEF Spec

(* No inference meets a field that is not set: the asserts after _load      *)
(* hold, whatever loads have failed before.                                 *)
THEOREM UsedWhenLoaded == Spec => []LoadedWhenUsed
<1>1. UseInv => LoadedWhenUsed
  BY DEF UseInv, InUse, LoadedWhenUsed
<1> QED BY <1>1, UseInvariant, PTL

(* Speech comes from the model and the kind of backend that was named, and  *)
(* in the voice that was named, for every configuration of the models.      *)
THEOREM SpeechIsAsAsked == Spec => []SpokenAsAsked
<1>1. UseInv => SpokenAsAsked
  <2> SUFFICES ASSUME UseInv, pc = "answered", req.op = "tts", answer.status = 200
               PROVE
                 /\ spoken.backends = {Resolve(Field(req, "model"))}
                 /\ /\ Kind(req) # "voice_design"
                    /\ Field(req, "voice") \notin {None, "", "default"}
                    => spoken.voice = Field(req, "voice")
                 /\ Kind(req) = "custom_voice" => spoken.voice \in QwenVoices
    BY DEF SpokenAsAsked
  <2>1. /\ spoken.backends = Whole("tts") /\ spoken.voice = BackendVoice(req)
        /\ ~BackendRefuses(req)
    BY DEF UseInv, Said
  <2>2. Whole("tts") = {Resolve(Field(req, "model"))}
    BY WholeRuntimes
  <2>3. /\ Kind(req) # "voice_design"
        /\ Field(req, "voice") \notin {None, "", "default"}
        => BackendVoice(req) = Field(req, "voice")
    BY DEF BackendVoice, Voice, Or
  <2>4. Kind(req) = "custom_voice" => BackendVoice(req) \in QwenVoices
    BY <2>1 DEF BackendRefuses
  <2> QED BY <2>1, <2>2, <2>3, <2>4
<1> QED BY <1>1, UseInvariant, PTL
-----------------------------------------------------------------------------
(* The order of floats against zero, NaN included.                          *)
LEMMA FloatOrder ==
  ASSUME NEW x \in Floats
  PROVE  /\ AtMost(x, Zero) <=> ~(Less(Zero, x) \/ x = NaN)
         /\ Less(x, Zero) <=> ~(AtMost(Zero, x) \/ x = NaN)
         /\ AtMost(x, Zero) <=> Less(x, Zero) \/ x = Zero
         /\ x = Zero => ~Less(x, Zero)
<1>1. CASE x \in {Infinity, NegInf, NaN}
  BY <1>1 DEF Infinity, NegInf, NaN, Zero, Number, Less, AtMost
<1>2. CASE x \in [kind : {"finite"}, value : Int]
  BY <1>2 DEF Infinity, NegInf, NaN, Zero, Number, Less, AtMost
<1> QED BY <1>1, <1>2 DEF Floats

LEMMA WithUnit ==
  ASSUME NEW text, text.amount.kind = "finite" /\ text.unit # ""
  PROVE  ParseDuration(text) = Number(text.amount.value * Multiplier[text.unit])
BY DEF ParseDuration

LEMMA FiniteFloat ==
  ASSUME NEW f \in Floats, f.kind = "finite"
  PROVE  \E x \in Int : f = Number(x) /\ f.value = x
<1>1. f \notin {Infinity, NegInf, NaN}
  BY DEF Infinity, NegInf, NaN
<1>2. f \in [kind : {"finite"}, value : Int]
  BY <1>1 DEF Floats
<1>3. f = [kind |-> "finite", value |-> f.value] /\ f.value \in Int
  BY <1>2
<1> QED BY <1>3 DEF Number

(* The unit of a duration changes neither the sign of the amount nor what   *)
(* is infinite or NaN.                                                      *)
LEMMA UnitsKeepSigns ==
  ASSUME NEW text \in KeepAliveValues
  PROVE  /\ ParseDuration(text) \in Floats
         /\ Less(ParseDuration(text), Zero) <=> Less(text.amount, Zero)
         /\ ParseDuration(text) = Zero <=> text.amount = Zero
<1>1. DOMAIN Multiplier = {"s", "m", "h", "d"}
  BY DEF Multiplier
<1>2. Zero \in Floats
  BY DEF Zero, Number, Floats
<1>3. text.amount \in Floats /\ text.unit \in {"", "s", "m", "h", "d"}
  <2>1. CASE text = NoDuration
    BY <1>2, <2>1 DEF NoDuration
  <2>2. CASE text = HugeInteger
    BY <1>2, <2>2 DEF HugeInteger
  <2>3. CASE text \in [type : {"number"}, amount : Floats, unit : {""}]
    BY <2>3
  <2>4. CASE text \in [type : {"duration"}, amount : Floats,
                       unit : DOMAIN Multiplier \cup {""}]
    BY <1>1, <2>4
  <2> QED BY <2>1, <2>2, <2>3, <2>4 DEF KeepAliveValues
<1>4. CASE ~(text.amount.kind = "finite" /\ text.unit # "")
  BY <1>3, <1>4 DEF ParseDuration
<1>5. CASE text.amount.kind = "finite" /\ text.unit # ""
  <2>1. ParseDuration(text) = Number(text.amount.value * Multiplier[text.unit])
    BY <1>5, WithUnit
  <2>2. PICK x \in Int : text.amount = Number(x) /\ text.amount.value = x
    BY <1>3, <1>5, FiniteFloat
  <2>3. PICK k \in {1, 60, 3600, 86400} : Multiplier[text.unit] = k
    <3>1. text.unit \in {"s", "m", "h", "d"}
      BY <1>3, <1>5
    <3>2. /\ Multiplier["s"] = 1 /\ Multiplier["m"] = 60
          /\ Multiplier["h"] = 3600 /\ Multiplier["d"] = 86400
      BY DEF Multiplier
    <3> QED BY <3>1, <3>2
  <2>4. ParseDuration(text) = Number(x * k)
    BY <2>1, <2>2, <2>3
  <2>5. x * k \in Int /\ (x * k < 0 <=> x < 0) /\ (x * k = 0 <=> x = 0)
    BY <2>3
  <2>6. \A y \in Int : /\ Number(y) \in Floats
                       /\ Less(Number(y), Zero) <=> y < 0
                       /\ Number(y) = Zero <=> y = 0
    BY DEF Number, Zero, Less, NaN, NegInf, Infinity, Floats
  <2> QED BY <2>2, <2>4, <2>5, <2>6
<1> QED BY <1>4, <1>5

(* What parse_keep_alive makes of a value: nothing for a negative one, and  *)
(* what unloads at once is zero.                                            *)
LEMMA ParsedKeepAlive ==
  ASSUME NEW value, NEW default, Effective(value, default) \in KeepAliveValues
  PROVE  LET asked == Effective(value, default)
             ka    == Parse(value, default)
         IN /\ ka \in Floats \cup {None}
            /\ ka = None <=> Less(asked.amount, Zero)
            /\ UnloadsNow(ka) <=> asked.amount = Zero
<1> DEFINE asked   == Effective(value, default)
           seconds == ParseDuration(asked)
<1>1. /\ seconds \in Floats
      /\ Less(seconds, Zero) <=> Less(asked.amount, Zero)
      /\ seconds = Zero <=> asked.amount = Zero
  BY UnitsKeepSigns
<1>2. Parse(value, default) = IF Less(seconds, Zero) THEN None ELSE seconds
  BY DEF Parse
<1>3. /\ AtMost(seconds, Zero) <=> Less(seconds, Zero) \/ seconds = Zero
      /\ seconds = Zero => ~Less(seconds, Zero)
  BY <1>1, FloatOrder
<1> QED BY <1>1, <1>2, <1>3, NoneIsNoValue DEF UnloadsNow
-----------------------------------------------------------------------------
(* The lists of Required and Checks, as sets.                               *)
LEMMA NothingMissing ==
  ASSUME NEW r
  PROVE  /\ r.op = "chat" => (Missing(r) = {} <=> {"model", "messages"} \subseteq DOMAIN r.body)
         /\ r.op = "embedding" => (Missing(r) = {} <=> {"model", "input"} \subseteq DOMAIN r.body)
         /\ r.op = "tts" => (Missing(r) = {} <=> {"model", "input"} \subseteq DOMAIN r.body)
         /\ r.op = "asr" => (Missing(r) = {} <=> {"file", "model"} \subseteq DOMAIN r.body)
         /\ r.op = "translation" => (Missing(r) = {} <=>
              {"model", "source_language", "target_language", "text"} \subseteq DOMAIN r.body)
<1>1. /\ Required["chat"] = <<"model", "messages">>
      /\ Required["embedding"] = <<"model", "input">>
      /\ Required["tts"] = <<"model", "input">>
      /\ Required["asr"] = <<"file", "model">>
      /\ Required["translation"]
           = <<"model", "source_language", "target_language", "text">>
  BY DEF Required
<1> QED BY <1>1 DEF Missing

LEMMA NothingFaulty ==
  ASSUME NEW r
  PROVE  /\ r.op = "chat" =>
              (Faulty(r) = {} <=> \A f \in {"model", "messages", "keep_alive"} : ~Bad(r, f))
         /\ r.op = "embedding" =>
              (Faulty(r) = {} <=> \A f \in {"model", "input", "keep_alive"} : ~Bad(r, f))
         /\ r.op = "tts" =>
              (Faulty(r) = {} <=> \A f \in {"model", "input", "response_format", "speed",
                                            "keep_alive", "instruct"} : ~Bad(r, f))
         /\ r.op = "asr" =>
              (Faulty(r) = {} <=> \A f \in {"model", "response_format", "temperature",
                                            "keep_alive", "file"} : ~Bad(r, f))
         /\ r.op = "translation" =>
              (Faulty(r) = {} <=> \A f \in {"model", "text", "source_language",
                                            "target_language", "keep_alive"} : ~Bad(r, f))
<1>1. /\ Checks["chat"] = <<"model", "messages", "keep_alive">>
      /\ Checks["embedding"] = <<"model", "input", "keep_alive">>
      /\ Checks["tts"] = <<"model", "input", "response_format", "speed",
                           "keep_alive", "instruct">>
      /\ Checks["asr"] = <<"model", "response_format", "temperature",
                           "keep_alive", "file">>
      /\ Checks["translation"] = <<"model", "text", "source_language",
                                   "target_language", "keep_alive">>
  BY DEF Checks
<1> QED BY <1>1 DEF Faulty

LEMMA FormatsInAnyCase ==
  ASSUME NEW format
  PROVE  Lower(format) \in TtsFormats <=> format \in TtsFormats \cup DOMAIN LowerCase
<1>1. /\ DOMAIN LowerCase = {"WAV", "MP3", "OPUS", "WEBM", "AAC"}
      /\ \A f \in DOMAIN LowerCase : LowerCase[f] \in TtsFormats
  BY DEF LowerCase, TtsFormats
<1> QED BY <1>1 DEF Lower

(* The keep-alive of a request, or the configured one, is a value that      *)
(* parse_keep_alive knows.                                                  *)
LEMMA KeepAliveIsValue ==
  ASSUME environment \in Environments, NEW r \in Requests
  PROVE  LET asked == Effective(Field(r, "keep_alive"), settings.model_keep_alive)
         IN asked \in KeepAliveValues
<1> DEFINE asked == Effective(Field(r, "keep_alive"), settings.model_keep_alive)
<1>1. settings.model_keep_alive \in KeepAliveValues
  <2>1. "model_keep_alive" \in DOMAIN Defaults
        /\ Defaults.model_keep_alive = FiveMinutes
    BY DEF Defaults
  <2>2. FiveMinutes \in KeepAliveValues
    <3>1. Number(5) \in Floats /\ "m" \in DOMAIN Multiplier
      BY DEF Number, Floats, Multiplier
    <3> QED BY <3>1 DEF FiveMinutes, Duration, KeepAliveValues
  <2>3. settings.model_keep_alive =
          IF "model_keep_alive" \in DOMAIN environment
          THEN environment["model_keep_alive"] ELSE Defaults["model_keep_alive"]
    BY <2>1 DEF settings
  <2>4. "model_keep_alive" \in DOMAIN environment =>
          environment["model_keep_alive"] \in KeepAliveValues
    BY EndpointsAssumption DEF EndpointsAssumption
  <2> QED BY <2>1, <2>2, <2>3, <2>4
<1>2. "keep_alive" \in DOMAIN r.body => r.body["keep_alive"] \in KeepAliveValues
  BY EndpointsAssumption DEF EndpointsAssumption, FieldType
<1> QED BY <1>1, <1>2 DEF Effective, Field
LEMMA JudgementOfSpeech ==
  ASSUME NEW r \in Requests, r.op = "tts", {"model", "input"} \subseteq DOMAIN r.body
  PROVE  /\ BadSpeech(r, "input") <=> r.body["input"] \notin STRING \ {"", " "}
         /\ BadSpeech(r, "response_format") <=>
              Or(Field(r, "response_format"), settings.tts_response_format)
                \notin TtsFormats \cup DOMAIN LowerCase
         /\ BadSpeech(r, "speed") <=>
              ~("speed" \in DOMAIN r.body =>
                  Less(Zero, r.body.speed) \/ r.body.speed = NaN)
         /\ BadSpeech(r, "instruct") <=>
              /\ Kind(r) = "voice_design"
              /\ ~("instruct" \in DOMAIN r.body
                     /\ r.body["instruct"] \in STRING \ {"", " "})
<1>1. /\ r.body["input"] \in STRING
      /\ "instruct" \in DOMAIN r.body => r.body["instruct"] \in STRING
      /\ "speed" \in DOMAIN r.body => r.body["speed"] \in Floats
  BY EndpointsAssumption DEF EndpointsAssumption, FieldType
<1>2. BadSpeech(r, "input") <=> r.body["input"] \notin STRING \ {"", " "}
  BY <1>1 DEF BadSpeech, Field
<1>3. BadSpeech(r, "response_format") <=> TtsFormat(r) \notin TtsFormats
  BY DEF BadSpeech
<1>4. BadSpeech(r, "speed") <=>
        ~("speed" \in DOMAIN r.body => Less(Zero, r.body.speed) \/ r.body.speed = NaN)
  <2>1. CASE "speed" \in DOMAIN r.body
    <3>1. r.body.speed # None
      BY <1>1, <2>1, NoneIsNoValue
    <3>2. AtMost(r.body.speed, Zero)
            <=> ~(Less(Zero, r.body.speed) \/ r.body.speed = NaN)
      BY <1>1, <2>1, FloatOrder
    <3> QED BY <2>1, <3>1, <3>2 DEF BadSpeech, NotPositive, Field
  <2>2. CASE "speed" \notin DOMAIN r.body
    BY <2>2 DEF BadSpeech, NotPositive, Field
  <2> QED BY <2>1, <2>2
<1>5. BadSpeech(r, "instruct") <=> Kind(r) = "voice_design" /\ Instruct(r) = None
  BY DEF BadSpeech
<1>6. Instruct(r) = None <=>
        ~("instruct" \in DOMAIN r.body /\ r.body["instruct"] \in STRING \ {"", " "})
  BY <1>1, NoneIsNoValue DEF Instruct, Field
<1> QED BY <1>2, <1>3, <1>4, <1>5, <1>6, FormatsInAnyCase DEF TtsFormat

LEMMA JudgementOfTranscription ==
  ASSUME NEW r \in Requests, r.op = "asr", {"model", "file"} \subseteq DOMAIN r.body
  PROVE  /\ BadTranscription(r, "file") <=> r.body["file"] \notin STRING \ {""}
         /\ BadTranscription(r, "response_format")
              <=> AsrFormat(r) \notin {"json", "text"}
         /\ BadTranscription(r, "temperature") <=>
              ~("temperature" \in DOMAIN r.body =>
                  AtMost(Zero, r.body.temperature) \/ r.body.temperature = NaN)
<1>1. /\ r.body["file"] \in STRING
      /\ "temperature" \in DOMAIN r.body => r.body["temperature"] \in Floats
  BY EndpointsAssumption DEF EndpointsAssumption, FieldType
<1>2. BadTranscription(r, "file") <=> r.body["file"] \notin STRING \ {""}
  BY <1>1 DEF BadTranscription, Field
<1>3. BadTranscription(r, "temperature") <=>
        ~("temperature" \in DOMAIN r.body =>
            AtMost(Zero, r.body.temperature) \/ r.body.temperature = NaN)
  <2>1. CASE "temperature" \in DOMAIN r.body
    <3>1. r.body.temperature # None
      BY <1>1, <2>1, NoneIsNoValue
    <3>2. Less(r.body.temperature, Zero)
            <=> ~(AtMost(Zero, r.body.temperature) \/ r.body.temperature = NaN)
      BY <1>1, <2>1, FloatOrder
    <3> QED BY <2>1, <3>1, <3>2 DEF BadTranscription, Field
  <2>2. CASE "temperature" \notin DOMAIN r.body
    BY <2>2 DEF BadTranscription, Field
  <2> QED BY <2>1, <2>2
<1>4. BadTranscription(r, "response_format") <=> AsrFormat(r) \notin {"json", "text"}
  BY DEF BadTranscription
<1> QED BY <1>2, <1>3, <1>4

(* The checks of the handlers find no fault exactly if the documentation    *)
(* lets the request be sent.                                                *)
LEMMA Judgement ==
  ASSUME environment \in Environments, NEW r \in Requests
  PROVE  Acceptable(r) <=> Missing(r) = {} /\ Faulty(r) = {}
<1> DEFINE asked == Effective(Field(r, "keep_alive"), settings.model_keep_alive)
           Parses == asked.type \in {"number", "duration"}
<1>1. ParseFails(Field(r, "keep_alive"), settings.model_keep_alive) <=> ~Parses
  BY DEF ParseFails
<1>2. r.op \in {"chat", "embedding", "tts", "asr", "translation"}
  BY EndpointsAssumption DEF EndpointsAssumption, Runtimes
<1>3. /\ Bad(r, "model") <=> ~Supported(r)
      /\ Bad(r, "keep_alive") <=> ~Parses
  BY <1>1, <1>2 DEF Bad, BadChat, BadEmbedding, BadSpeech, BadTranscription,
     BadTranslation
<1> HIDE DEF Parses
<1>4. CASE r.op = "chat"
  <2>1. Acceptable(r) <=>
          /\ "model" \in DOMAIN r.body /\ Supported(r) /\ Parses
          /\ "messages" \in DOMAIN r.body /\ r.body["messages"] \in Seq(STRING) \ {<<>>}
    BY <1>4 DEF Acceptable, Field, Parses
  <2>2. "messages" \in DOMAIN r.body => r.body["messages"] \in Seq(STRING)
    BY <1>4, EndpointsAssumption DEF EndpointsAssumption, FieldType
  <2>3. Bad(r, "messages") <=> Field(r, "messages") = <<>>
    BY <1>4 DEF Bad, BadChat
  <2> QED BY <1>3, <1>4, <2>1, <2>2, <2>3, NothingMissing, NothingFaulty DEF Field
<1>5. CASE r.op = "embedding"
  <2>1. Acceptable(r) <=>
          /\ "model" \in DOMAIN r.body /\ Supported(r) /\ Parses
          /\ "input" \in DOMAIN r.body /\ r.body["input"] \in Seq(STRING) \ {<<>>}
    BY <1>5 DEF Acceptable, Field, Parses
  <2>2. "input" \in DOMAIN r.body => r.body["input"] \in Seq(STRING)
    BY <1>5, EndpointsAssumption DEF EndpointsAssumption, FieldType
  <2>3. Bad(r, "input") <=> Field(r, "input") = <<>>
    BY <1>5 DEF Bad, BadEmbedding
  <2> QED BY <1>3, <1>5, <2>1, <2>2, <2>3, NothingMissing, NothingFaulty DEF Field
<1>6. CASE r.op = "tts"
  <2>1. \A f \in {"input", "response_format", "speed", "instruct"} :
          Bad(r, f) <=> BadSpeech(r, f)
    BY <1>6 DEF Bad
  <2>2. Acceptable(r) <=>
          /\ "model" \in DOMAIN r.body /\ Supported(r) /\ Parses
          /\ "input" \in DOMAIN r.body /\ r.body["input"] \in STRING \ {"", " "}
          /\ Or(Field(r, "response_format"), settings.tts_response_format)
               \in TtsFormats \cup DOMAIN LowerCase
          /\ "speed" \in DOMAIN r.body =>
               Less(Zero, r.body.speed) \/ r.body.speed = NaN
          /\ Kind(r) = "voice_design" =>
               "instruct" \in DOMAIN r.body /\ r.body["instruct"] \in STRING \ {"", " "}
    BY <1>6 DEF Acceptable, Field, Parses
  <2> QED BY <1>3, <1>6, <2>1, <2>2, JudgementOfSpeech, NothingMissing, NothingFaulty
<1>7. CASE r.op = "asr"
  <2>1. \A f \in {"file", "response_format", "temperature"} :
          Bad(r, f) <=> BadTranscription(r, f)
    BY <1>7 DEF Bad
  <2>2. Acceptable(r) <=>
          /\ "model" \in DOMAIN r.body /\ Supported(r) /\ Parses
          /\ "file" \in DOMAIN r.body /\ r.body["file"] \in STRING \ {""}
          /\ AsrFormat(r) \in {"json", "text"}
          /\ "temperature" \in DOMAIN r.body =>
               AtMost(Zero, r.body.temperature) \/ r.body.temperature = NaN
    BY <1>7 DEF Acceptable, Field, Parses
  <2> QED
    BY <1>3, <1>7, <2>1, <2>2, JudgementOfTranscription, NothingMissing, NothingFaulty
<1>8. CASE r.op = "translation"
  <2>1. Acceptable(r) <=>
          /\ "model" \in DOMAIN r.body /\ Supported(r) /\ Parses
          /\ "text" \in DOMAIN r.body /\ r.body["text"] \in STRING \ {"", " "}
          /\ "source_language" \in DOMAIN r.body
          /\ r.body["source_language"] \in Languages
          /\ "target_language" \in DOMAIN r.body
          /\ r.body["target_language"] \in Languages
    BY <1>8 DEF Acceptable, Field, Parses
  <2>2. "text" \in DOMAIN r.body => r.body["text"] \in STRING
    BY <1>8, EndpointsAssumption DEF EndpointsAssumption, FieldType
  <2>3. /\ Bad(r, "text") <=> Field(r, "text") \in {"", " "}
        /\ \A f \in {"source_language", "target_language"} :
             Bad(r, f) <=> Field(r, f) \notin Languages
    BY <1>8 DEF Bad, BadTranslation
  <2> QED BY <1>3, <1>8, <2>1, <2>2, <2>3, NothingMissing, NothingFaulty DEF Field
<1> QED BY <1>2, <1>4, <1>5, <1>6, <1>7, <1>8
-----------------------------------------------------------------------------
(* TypeOK, and the records of the lifecycles are functions of the runtimes. *)
TypeInv ==
  /\ TypeOK
  /\ pc \in {"load", "infer"} => using \in Runtimes
  /\ keepAlive = [n \in Runtimes |-> keepAlive[n]]
  /\ unloadAt  = [n \in Runtimes |-> unloadAt[n]]

(* After an inference: the answers that the worker's result can be given.   *)
FitsInference ==
  /\ answer.status \in {200, 400, 500}
  /\ answer.status = 400 =>
       \/ req.op = "tts" /\ answer.param \in {"voice", "instruct"}
       \/ req.op = "translation" /\ answer.param = None /\ using = "translation"

(* What a transcription may be answered, be it in its finally block or      *)
(* after it.                                                                *)
FitsTranscription ==
  /\ answer.status = 400 => answer.param = "file" /\ ~began
  /\ answer.status = 503 => ~began
  /\ answer.status = 200 => began /\ ~lockLost

(* From its validation on a request is acceptable; it has begun if and only *)
(* if it got the lock, which is not lost then, and goes on with the LLM if  *)
(* no path is configured.                                                   *)
Judged ==
  /\ pc \in {"validate", "decode", "lock"} => ~began
  /\ pc \in {"load", "infer", "finish", "transcode"} => began /\ ~lockLost
  /\ pc \in {"decode", "lock", "load", "infer", "finish", "transcode", "unlink"}
       => Acceptable(req)
  /\ pc = "decode" => req.op = "asr"
  /\ pc \in {"load", "infer"} /\ using # req.op
       => settings.translation_model_path = ""
  /\ pc = "finish" => FitsInference
  /\ pc = "transcode" => req.op = "tts" /\ answer.status = 200
  /\ pc = "unlink" => req.op = "asr" /\ FitsTranscription
  /\ AnswersFit

(* What finish_request has arranged holds while the answer is being made:   *)
(* a timer that fires meanwhile leaves nothing loaded.                      *)
Arranged(n, asked) ==
  /\ asked.amount = Zero => memory[n] = {} \/ ~IsLoaded(n)
  /\ Less(asked.amount, Zero) => timer[n] = None /\ unloadAt[n] = None
  /\ IsLoaded(n) /\ ~Less(asked.amount, Zero) =>
       /\ unloadAt[n] # None /\ timer[n] # None
       /\ timer[n] = "dead" <=> Less(Number(TimeoutMax), unloadAt[n])

Kept ==
  pc \in {"transcode", "unlink", "answered"} /\ began =>
    Arranged(req.op, Effective(Field(req, "keep_alive"), settings.model_keep_alive))

AnswerInv == UseInv /\ TypeInv /\ Judged /\ Kept

(* Its keep-alive is an integer that no float can hold.                     *)
BadOverflow(r) == Overflows(Field(r, "keep_alive"), settings.model_keep_alive)

LEMMA SameJudgement ==
  ASSUME UNCHANGED <<req, environment>>
  PROVE  /\ settings' = settings
         /\ Acceptable(req)' <=> Acceptable(req)
         /\ BadOverflow(req)' <=> BadOverflow(req)
         /\ Effective(Field(req, "keep_alive"), settings.model_keep_alive)'
              = Effective(Field(req, "keep_alive"), settings.model_keep_alive)
<1>1. settings' = settings
  BY DEF settings
<1>2. \A f : Field(req, f)' = Field(req, f)
  BY DEF Field
<1>3. Kind(req)' = Kind(req)
  BY SameRequest
<1>4. \A model : Resolve(model)' = Resolve(model)
  BY <1>1 DEF Resolve
<1>5. Supported(req)' <=> Supported(req)
  BY <1>1, <1>2, <1>4 DEF Supported
<1>6. AsrFormat(req)' = AsrFormat(req)
  BY <1>1, <1>2 DEF AsrFormat
<1>7. Effective(Field(req, "keep_alive"), settings.model_keep_alive)'
        = Effective(Field(req, "keep_alive"), settings.model_keep_alive)
  BY <1>1, <1>2 DEF Effective
<1>8. Acceptable(req)' <=> Acceptable(req)
  BY <1>1, <1>2, <1>3, <1>5, <1>6, <1>7 DEF Acceptable
<1> QED BY <1>1, <1>7, <1>8 DEF BadOverflow, Overflows

LEMMA InitAnswers == Init => AnswerInv
<1> SUFFICES ASSUME Init PROVE AnswerInv
  OBVIOUS
<1>1. /\ environment \in Environments /\ pc = "idle" /\ req = None
      /\ left = MaxRequests /\ answer = None /\ using = None
      /\ memory    = [n \in Runtimes |-> {}]
      /\ keepAlive = [n \in Runtimes |-> None]
      /\ unloadAt  = [n \in Runtimes |-> None]
      /\ timer     = [n \in Runtimes |-> None]
      /\ lockLost = FALSE
  BY DEF Init
<1>2. left \in 0..MaxRequests
  <2>1. MaxRequests \in Nat
    BY EndpointsAssumption DEF EndpointsAssumption
  <2> QED BY <1>1, <2>1
<1>3. TypeInv
  BY <1>1, <1>2 DEF TypeInv, TypeOK
<1>4. Judged /\ Kept
  BY <1>1 DEF Judged, AnswersFit, Kept
<1> QED BY <1>3, <1>4, InitUse DEF AnswerInv

LEMMA FieldsInMemory ==
  ASSUME NEW n \in Runtimes \ {"tts"}, NEW fields \in Shapes(n)
  PROVE  fields \subseteq {"model", "tokenizer", "generate", "processor",
                           "backend", "translator"}
<1>1. n \in {"chat", "embedding", "asr", "translation"}
  BY DEF Runtimes
<1>2. CASE n = "chat"
  BY <1>2, ShapesOfRuntimes
<1>3. CASE n = "embedding"
  BY <1>3, ShapesOfRuntimes
<1>4. CASE n = "asr"
  BY <1>4, ShapesOfRuntimes
<1>5. CASE n = "translation"
  BY <1>5, ShapesOfRuntimes
<1> QED BY <1>1, <1>2, <1>3, <1>4, <1>5

LEMMA RepliesAreAnswers ==
  ASSUME NEW status \in {200, 400, 500, 503},
         NEW param \in Fields \cup Runtimes \cup {None},
         Reply(status, param)
  PROVE  answer' \in Answers /\ answer'.status = status /\ answer'.param = param
BY DEF Reply, Answers

LEMMA ListsAreFields ==
  ASSUME NEW op \in Runtimes
  PROVE  /\ \A i \in DOMAIN Required[op] : Required[op][i] \in Fields
         /\ \A i \in DOMAIN Checks[op] : Checks[op][i] \in Fields
<1>1. CASE op = "chat"
  BY <1>1 DEF Required, Checks, Fields
<1>2. CASE op = "embedding"
  BY <1>2 DEF Required, Checks, Fields
<1>3. CASE op = "tts"
  BY <1>3 DEF Required, Checks, Fields
<1>4. CASE op = "asr"
  BY <1>4 DEF Required, Checks, Fields
<1>5. CASE op = "translation"
  BY <1>5 DEF Required, Checks, Fields
<1> QED BY <1>1, <1>2, <1>3, <1>4, <1>5 DEF Runtimes

(* The validation goes on exactly if the request is acceptable.             *)
LEMMA ValidateJudges ==
  ASSUME AnswerInv, Validate
  PROVE  \/ /\ pc' \in {"decode", "lock"} /\ answer' = answer
            /\ pc' = "decode" => req.op = "asr"
            /\ Acceptable(req)
         \/ /\ pc' = "answered" /\ answer' \in Answers
            /\ answer'.status = 400 \/ (answer'.status = 500 /\ BadOverflow(req))
            /\ ~Acceptable(req)
<1>1. /\ environment \in Environments /\ req \in Requests /\ req.op \in Runtimes
      /\ pc = "validate"
  BY EndpointsAssumption
  DEF Validate, AnswerInv, TypeInv, TypeOK, UseInv, InUse, EndpointsAssumption
<1>2. Acceptable(req) <=> Missing(req) = {} /\ Faulty(req) = {}
  BY <1>1, Judgement
<1>3. ASSUME NEW param \in Fields, Refuse(param)
      PROVE  pc' = "answered" /\ answer' \in Answers /\ answer'.status = 400
  BY <1>3, RepliesAreAnswers DEF Refuse, Goto
<1>4. ASSUME NEW i \in Missing(req), Refuse(Required[req.op][i])
      PROVE  /\ pc' = "answered" /\ answer' \in Answers /\ answer'.status = 400
             /\ ~Acceptable(req)
  <2>1. Required[req.op][i] \in Fields
    BY <1>1, ListsAreFields DEF Missing
  <2> QED BY <1>2, <1>3, <1>4, <2>1
<1>5. ASSUME NEW i \in Faulty(req), Object(Checks[req.op][i])
      PROVE  /\ pc' = "answered" /\ answer' \in Answers
             /\ answer'.status = 400 \/ (answer'.status = 500 /\ BadOverflow(req))
             /\ ~Acceptable(req)
  <2>1. Checks[req.op][i] \in Fields
    BY <1>1, ListsAreFields DEF Faulty
  <2>2. CASE Refuse(Checks[req.op][i])
    BY <1>2, <1>3, <1>5, <2>1, <2>2
  <2>3. CASE ~Refuse(Checks[req.op][i])
    <3>1. BadOverflow(req) /\ Reply(500, None) /\ Goto("answered")
      BY <1>5, <2>3 DEF Object, BadOverflow
    <3> QED BY <1>2, <1>5, <3>1, RepliesAreAnswers DEF Goto
  <2> QED BY <2>2, <2>3
<1>6. CASE /\ Missing(req) = {} /\ Faulty(req) = {}
           /\ Goto(IF req.op = "asr" THEN "decode" ELSE "lock")
           /\ UNCHANGED answer
  BY <1>2, <1>6 DEF Goto
<1> QED BY <1>4, <1>5, <1>6 DEF Validate

LEMMA OutcomeParts ==
  ASSUME NEW fields, NEW error
  PROVE  Outcome(fields, error).fields = fields /\ Outcome(fields, error).error = error
BY DEF Outcome

(* Only a translation without a model path misses it.                       *)
LEMMA MissingPath ==
  ASSUME MemoryShape, NEW n \in Runtimes, NEW o \in LoadOutcomes(n),
         o.error = "missing path"
  PROVE  settings.translation_model_path = ""
<1>1. o.error \notin Errors \cup {None}
  BY ErrorsAreErrors DEF Errors
<1>2. n = "translation" /\ ~Ready(n)
  <2>1. Good(n, o)
    BY LoadIsGood
  <2>2. n = "translation"
    BY <2>1 DEF Good
  <2>3. Ready(n) => o = Outcome(memory[n], None)
    BY DEF LoadOutcomes
  <2> QED BY <1>1, <2>2, <2>3, OutcomeParts
<1>3. o \in LoadTranslation
  BY <1>2 DEF LoadOutcomes
<1>4. ASSUME NEW rests, NEW errors, o \in Raises("translation", rests, errors)
      PROVE  o.error \in errors
  <2> DEFINE Leaving(rest) == {Outcome(memory["translation"] \cup rest, e) : e \in errors}
  <2>1. o \in UNION {Leaving(rest) : rest \in rests}
    BY <1>4 DEF Raises
  <2>2. PICK rest \in rests : o \in Leaving(rest)
    <3>1. PICK outs \in {Leaving(rest) : rest \in rests} : o \in outs
      BY <2>1
    <3> QED BY <3>1
  <2>3. PICK e \in errors : o = Outcome(memory["translation"] \cup rest, e)
    BY <2>2
  <2> QED BY <2>3, OutcomeParts
<1>5. o \notin Raises("translation", {{}}, {"RuntimeError"})
  BY <1>1, <1>4 DEF Errors
<1>6. o \notin Raises("translation", {{}, {"translator"}}, Errors)
  BY <1>1, <1>4
<1>7. o \notin Succeeds("translation")
  BY <1>1, OutcomeParts DEF Succeeds
<1> QED BY <1>3, <1>5, <1>6, <1>7 DEF LoadTranslation

(* What becomes of an exception.                                            *)
LEMMA CatchJudges ==
  ASSUME AnswerInv, pc \in {"load", "infer"}, UNCHANGED req, NEW e, Catch(e)
  PROVE  \/ /\ e = "missing path" /\ pc' = "load"
            /\ using' = "chat" /\ answer' = answer
         \/ /\ pc' = "finish" /\ using' = using
            /\ answer' \in Answers /\ FitsInference'
<1>1. using = req.op \/ (using = "chat" /\ req.op = "translation")
  BY DEF AnswerInv, UseInv, InUse
<1>2. CASE e = "missing path"
  BY <1>2 DEF Catch, Goto
<1>3. CASE e # "missing path"
  <2>1. pc' = "finish" /\ using' = using
    BY <1>3 DEF Catch, Goto
  <2>2. CASE e = "ValueError" /\ using = "tts"
    <3>1. PICK param \in {"voice", "instruct"} : Reply(400, param)
      BY <2>2 DEF Catch
    <3>2. answer' \in Answers /\ answer'.status = 400 /\ answer'.param = param
      BY <3>1, RepliesAreAnswers DEF Fields
    <3>3. req.op = "tts"
      BY <1>1, <2>2
    <3> QED BY <2>1, <3>2, <3>3 DEF FitsInference
  <2>3. CASE e = "ValueError" /\ using = "translation"
    <3>1. Reply(400, None)
      BY <2>3 DEF Catch
    <3>2. answer' \in Answers /\ answer'.status = 400 /\ answer'.param = None
      BY <3>1, RepliesAreAnswers
    <3>3. req.op = "translation"
      BY <1>1, <2>3
    <3> QED BY <2>1, <2>3, <3>2, <3>3 DEF FitsInference
  <2>4. CASE ~(e = "ValueError" /\ using \in {"tts", "translation"})
    <3>1. Reply(500, None)
      BY <1>3, <2>4 DEF Catch
    <3>2. answer' \in Answers /\ answer'.status = 500
      BY <3>1, RepliesAreAnswers
    <3> QED BY <2>1, <3>2 DEF FitsInference
  <2> QED BY <2>2, <2>3, <2>4
<1> QED BY <1>2, <1>3

(* Before the lock: the request is refused, or goes on as acceptable.       *)
LEMMA AdmissionStep ==
  ASSUME AnswerInv, UseInv', UNCHANGED environment,
         Arrive \/ Validate \/ Decode \/ Busy \/ Begin
  PROVE  AnswerInv'
<1>1. environment \in Environments /\ environment' \in Environments
  BY DEF AnswerInv, TypeInv, TypeOK
<1>2. \A n \in Runtimes \ {"tts"} :
        memory'[n] \subseteq {"model", "tokenizer", "generate", "processor",
                             "backend", "translator"}
  BY FieldsInMemory DEF UseInv, MemoryShape
<1>3. CASE Arrive
  <2>1. /\ pc' = "validate" /\ req' \in Requests /\ left' = left - 1 /\ left > 0
        /\ answer' = None /\ began' = FALSE /\ using' = None
        /\ UNCHANGED <<keepAlive, unloadAt, timer, lockLost>>
    BY <1>3 DEF Arrive, Goto, lifecycleVars
  <2>2. left' \in 0..MaxRequests
    <3>1. MaxRequests \in Nat
      BY EndpointsAssumption DEF EndpointsAssumption
    <3> QED BY <2>1, <3>1 DEF AnswerInv, TypeInv, TypeOK
  <2>3. TypeInv'
    BY <1>1, <1>2, <2>1, <2>2 DEF AnswerInv, TypeInv, TypeOK
  <2>4. Judged' /\ Kept'
    BY <2>1 DEF Judged, AnswersFit, Kept
  <2> QED BY <2>3, <2>4 DEF AnswerInv
<1>4. CASE Validate
  <2>1. /\ UNCHANGED <<req, left, began, using, keepAlive, unloadAt, timer, lockLost>>
        /\ pc = "validate" /\ ~began
    BY <1>4 DEF Validate, lifecycleVars, AnswerInv, Judged
  <2>2. \/ /\ pc' \in {"decode", "lock"} /\ answer' = answer
           /\ pc' = "decode" => req.op = "asr"
           /\ Acceptable(req)'
        \/ /\ pc' = "answered" /\ answer' \in Answers
           /\ answer'.status = 400 \/ (answer'.status = 500 /\ BadOverflow(req)')
           /\ ~Acceptable(req)'
    BY <1>4, <2>1, ValidateJudges, SameJudgement
  <2>3. TypeInv'
    BY <1>1, <1>2, <2>1, <2>2 DEF AnswerInv, TypeInv, TypeOK
  <2>4. AnswersFit'
    BY <2>1, <2>2 DEF AnswersFit, BadOverflow
  <2>5. Judged'
    BY <2>1, <2>2, <2>4 DEF Judged
  <2>6. Kept'
    BY <2>1 DEF Kept
  <2> QED BY <2>3, <2>5, <2>6 DEF AnswerInv
<1>5. CASE Decode
  <2>1. /\ UNCHANGED <<req, left, began, using, keepAlive, unloadAt, timer, lockLost>>
        /\ pc = "decode" /\ ~began /\ req.op = "asr" /\ Acceptable(req)'
    BY <1>5, SameJudgement DEF Decode, lifecycleVars, AnswerInv, Judged
  <2>2. \/ pc' = "lock" /\ answer' = answer
        \/ /\ pc' = "unlink" /\ answer' \in Answers
           /\ \/ answer'.status = 400 /\ answer'.param = "file"
              \/ answer'.status = 500
    <3>1. CASE Goto("lock") /\ UNCHANGED answer
      BY <3>1 DEF Goto
    <3>2. CASE Reply(400, "file") /\ Leave
      BY <2>1, <3>2, RepliesAreAnswers DEF Leave, Goto, Fields
    <3>3. CASE Reply(500, None) /\ Leave
      BY <2>1, <3>3, RepliesAreAnswers DEF Leave, Goto
    <3> QED BY <1>5, <3>1, <3>2, <3>3 DEF Decode
  <2>3. TypeInv'
    BY <1>1, <1>2, <2>1, <2>2 DEF AnswerInv, TypeInv, TypeOK
  <2>4. AnswersFit'
    BY <2>1, <2>2 DEF AnswersFit
  <2>5. Judged'
    <3>1. CASE pc' = "lock"
      BY <2>1, <2>4, <3>1 DEF Judged
    <3>2. CASE pc' = "unlink"
      <4>1. FitsTranscription'
        BY <2>1, <2>2, <3>2 DEF FitsTranscription
      <4> QED BY <2>1, <2>4, <3>2, <4>1 DEF Judged
    <3> QED BY <2>2, <3>1, <3>2
  <2>6. Kept'
    BY <2>1 DEF Kept
  <2> QED BY <2>3, <2>5, <2>6 DEF AnswerInv
<1>6. CASE Busy
  <2>1. /\ UNCHANGED <<req, left, began, using, keepAlive, unloadAt, timer, lockLost>>
        /\ pc = "lock" /\ ~began /\ Acceptable(req)' /\ req.op \in Runtimes
    BY <1>6, SameJudgement, EndpointsAssumption
    DEF Busy, lifecycleVars, AnswerInv, Judged, UseInv, InUse, EndpointsAssumption
  <2>2. /\ pc' = IF req.op = "asr" THEN "unlink" ELSE "answered"
        /\ answer' \in Answers /\ answer'.status = 503
    BY <1>6, <2>1, RepliesAreAnswers DEF Busy, Leave, Goto
  <2>3. TypeInv'
    BY <1>1, <1>2, <2>1, <2>2 DEF AnswerInv, TypeInv, TypeOK
  <2>4. AnswersFit'
    BY <2>1, <2>2 DEF AnswersFit
  <2>5. Judged'
    <3>1. CASE req.op = "asr"
      <4>1. FitsTranscription'
        BY <2>1, <2>2 DEF FitsTranscription
      <4> QED BY <2>1, <2>2, <2>4, <3>1, <4>1 DEF Judged
    <3>2. CASE req.op # "asr"
      BY <2>2, <2>4, <3>2 DEF Judged
    <3> QED BY <3>1, <3>2
  <2>6. Kept'
    BY <2>1 DEF Kept
  <2> QED BY <2>3, <2>5, <2>6 DEF AnswerInv
<1>7. CASE Begin
  <2>1. /\ UNCHANGED <<req, left, answer, keepAlive, lockLost>> /\ ~lockLost
        /\ pc = "lock" /\ pc' = "load" /\ began' = TRUE /\ using' = req.op
        /\ unloadAt' = [unloadAt EXCEPT ![req.op] = None]
        /\ timer'    = [timer EXCEPT ![req.op] = None]
        /\ Acceptable(req)' /\ req.op \in Runtimes
    BY <1>7, SameJudgement, EndpointsAssumption
    DEF Begin, Goto, AnswerInv, Judged, UseInv, InUse, EndpointsAssumption
  <2>2. TypeInv'
    BY <1>1, <1>2, <2>1 DEF AnswerInv, TypeInv, TypeOK
  <2>3. Judged' /\ Kept'
    BY <2>1 DEF Judged, AnswersFit, Kept
  <2> QED BY <2>2, <2>3 DEF AnswerInv
<1> QED BY <1>3, <1>4, <1>5, <1>6, <1>7

(* The worker: load, infer, and what becomes of their exceptions.           *)
LEMMA WorkerStep ==
  ASSUME AnswerInv, UseInv', UNCHANGED environment, Load \/ Infer
  PROVE  AnswerInv'
<1>1. /\ environment' \in Environments
      /\ UNCHANGED <<req, left, began, keepAlive, unloadAt, timer, lockLost>>
      /\ pc \in {"load", "infer"} /\ began /\ ~lockLost /\ Acceptable(req)
      /\ using \in Runtimes /\ req.op \in Runtimes
      /\ using # req.op => settings.translation_model_path = ""
      /\ using = req.op \/ (using = "chat" /\ req.op = "translation")
  BY EndpointsAssumption
  DEF AnswerInv, TypeInv, TypeOK, UseInv, InUse, Judged, Load, Infer,
      lifecycleVars, EndpointsAssumption
<1>2. \A n \in Runtimes \ {"tts"} :
        memory'[n] \subseteq {"model", "tokenizer", "generate", "processor",
                             "backend", "translator"}
  BY FieldsInMemory DEF UseInv, MemoryShape
<1>3. Acceptable(req)' /\ settings' = settings
  BY <1>1, SameJudgement
<1>4. ASSUME pc' \in {"load", "infer"}, UNCHANGED answer, using' \in Runtimes,
             using' # req.op => settings.translation_model_path = ""
      PROVE  AnswerInv'
  <2>1. TypeInv'
    BY <1>1, <1>2, <1>4 DEF AnswerInv, TypeInv, TypeOK
  <2>2. Judged'
    BY <1>1, <1>3, <1>4 DEF Judged, AnswersFit
  <2>3. Kept'
    BY <1>4 DEF Kept
  <2> QED BY <2>1, <2>2, <2>3 DEF AnswerInv
<1>5. ASSUME pc' = "finish", UNCHANGED using, answer' \in Answers, FitsInference'
      PROVE  AnswerInv'
  <2>1. TypeInv'
    BY <1>1, <1>2, <1>5 DEF AnswerInv, TypeInv, TypeOK
  <2>2. Judged'
    BY <1>1, <1>3, <1>5 DEF Judged, AnswersFit
  <2>3. Kept'
    BY <1>5 DEF Kept
  <2> QED BY <2>1, <2>2, <2>3 DEF AnswerInv
<1>6. ASSUME NEW e, Catch(e),
             e = "missing path" => settings.translation_model_path = ""
      PROVE  AnswerInv'
  <2>1. CASE e = "missing path" /\ pc' = "load" /\ using' = "chat" /\ answer' = answer
    BY <1>4, <1>6, <2>1 DEF Runtimes
  <2>2. CASE pc' = "finish" /\ using' = using /\ answer' \in Answers /\ FitsInference'
    BY <1>5, <2>2
  <2> QED BY <1>1, <1>6, <2>1, <2>2, CatchJudges
<1>7. CASE Load
  <2>1. PICK o \in LoadOutcomes(using) :
          IF o.error = None THEN Goto("infer") /\ UNCHANGED <<answer, using>>
                            ELSE Catch(o.error)
    BY <1>7 DEF Load
  <2>2. CASE o.error = None
    BY <1>1, <1>4, <2>1, <2>2 DEF Goto
  <2>3. CASE o.error # None
    <3>1. o.error = "missing path" => settings.translation_model_path = ""
      BY <1>1, MissingPath DEF AnswerInv, UseInv
    <3> QED BY <1>6, <2>1, <2>3, <3>1
  <2> QED BY <2>2, <2>3
<1>8. CASE Infer
  <2>1. CASE Reply(200, None) /\ Goto("finish") /\ UNCHANGED using
    <3>1. answer' \in Answers /\ answer'.status = 200
      BY <2>1, RepliesAreAnswers
    <3>2. FitsInference'
      BY <3>1 DEF FitsInference
    <3> QED BY <1>5, <2>1, <3>1, <3>2 DEF Goto
  <2>2. CASE \E e \in Errors : Catch(e)
    BY <1>6, <2>2 DEF Errors
  <2> QED BY <1>8, <2>1, <2>2 DEF Infer
<1> QED BY <1>7, <1>8

(* finish_request does what the keep-alive asks for.                        *)
LEMMA FinishArranges ==
  ASSUME AnswerInv, Finish, UNCHANGED environment
  PROVE  /\ Kept'
         /\ keepAlive' = [n \in Runtimes |-> keepAlive'[n]]
         /\ unloadAt'  = [n \in Runtimes |-> unloadAt'[n]]
         /\ timer' \in [Runtimes -> {None, "waiting", "dead"}]
<1> DEFINE n     == req.op
           asked == Effective(Field(req, "keep_alive"), settings.model_keep_alive)
           ka    == Parse(Field(req, "keep_alive"), settings.model_keep_alive)
           schedules == IsLoaded(n) /\ ka # None /\ ~UnloadsNow(ka)
<1>1. /\ environment \in Environments /\ req \in Requests /\ n \in Runtimes
      /\ req' = req
  BY EndpointsAssumption
  DEF Finish, AnswerInv, TypeInv, TypeOK, UseInv, InUse, EndpointsAssumption
<1>2. /\ keepAlive' = [keepAlive EXCEPT ![n] = ka]
      /\ unloadAt'  = [unloadAt EXCEPT ![n] = IF schedules THEN ka ELSE None]
      /\ timer'     = [timer EXCEPT ![n] =
           IF ~schedules THEN None ELSE IF TooLong(ka) THEN "dead" ELSE "waiting"]
      /\ memory' = IF IsLoaded(n) /\ UnloadsNow(ka)
                   THEN [memory EXCEPT ![n] = {}] ELSE memory
  BY DEF Finish
<1>3. /\ ka \in Floats \cup {None}
      /\ ka = None <=> Less(asked.amount, Zero)
      /\ UnloadsNow(ka) <=> asked.amount = Zero
  BY <1>1, KeepAliveIsValue, ParsedKeepAlive
<1>4. asked' = asked
  BY <1>1, SameJudgement
<1> HIDE DEF asked, ka, schedules
<1>5. /\ unloadAt'[n] = IF schedules THEN ka ELSE None
      /\ timer'[n] = IF ~schedules THEN None
                     ELSE IF TooLong(ka) THEN "dead" ELSE "waiting"
  BY <1>1, <1>2 DEF AnswerInv, TypeInv, TypeOK
<1>6. IsLoaded(n) /\ UnloadsNow(ka) => memory'[n] = {}
  BY <1>1, <1>2 DEF AnswerInv, UseInv, MemoryShape
<1>7. ~(IsLoaded(n) /\ UnloadsNow(ka)) => (IsLoaded(n)' <=> IsLoaded(n))
  BY <1>1, <1>2, SameRequest DEF IsLoaded
<1>8. memory'[n] = {} => ~IsLoaded(n)'
  BY <1>1, WholeRuntimes, SameRequest DEF IsLoaded, Runtimes
<1>9. Arranged(n, asked)'
  <2>1. asked.amount = Zero => memory'[n] = {} \/ ~IsLoaded(n)'
    BY <1>3, <1>6, <1>7
  <2>2. Less(asked.amount, Zero) => timer'[n] = None /\ unloadAt'[n] = None
    BY <1>3, <1>5 DEF schedules
  <2>3. ASSUME IsLoaded(n)', ~Less(asked.amount, Zero)
        PROVE  /\ unloadAt'[n] # None /\ timer'[n] # None
               /\ timer'[n] = "dead" <=> Less(Number(TimeoutMax), unloadAt'[n])
    <3>1. schedules /\ ka \in Floats
      BY <1>3, <1>6, <1>7, <1>8, <2>3 DEF schedules
    <3>2. unloadAt'[n] = ka /\ timer'[n] = IF TooLong(ka) THEN "dead" ELSE "waiting"
      BY <1>5, <3>1
    <3> QED BY <3>1, <3>2, NoneIsNoValue DEF TooLong
  <2> QED BY <1>1, <1>4, <2>1, <2>2, <2>3 DEF Arranged
<1>10. Kept'
  BY <1>9 DEF Kept, asked
<1> QED BY <1>1, <1>2, <1>10 DEF AnswerInv, TypeInv, TypeOK

(* The rest of a request, and the timers.                                   *)
LEMMA FinishAnswers ==
  ASSUME AnswerInv, UseInv', UNCHANGED environment, Finish
  PROVE  AnswerInv'
<1>1. /\ environment' \in Environments
      /\ UNCHANGED <<req, left, began, using>>
      /\ pc = "finish" /\ began /\ ~lockLost /\ Acceptable(req) /\ FitsInference
      /\ answer \in Answers
  BY DEF AnswerInv, TypeInv, TypeOK, Judged, Finish
<1>2. \/ /\ pc' = "transcode" /\ req.op = "tts" /\ answer.status = 200
         /\ answer' = answer /\ lockLost' = lockLost
      \/ /\ pc' = IF req.op = "asr" THEN "unlink" ELSE "answered"
         /\ \/ answer' = answer /\ lockLost' = lockLost
            \/ answer' \in Answers /\ answer'.status = 500 /\ lockLost' = TRUE
  <2>1. CASE /\ IF req.op = "tts" /\ answer.status = 200 /\ TtsFormat(req) # "wav"
                THEN Goto("transcode") ELSE Leave
             /\ UNCHANGED <<answer, lockLost>>
    BY <2>1 DEF Leave, Goto
  <2>2. CASE Reply(500, None) /\ Leave /\ lockLost' = TRUE
    <3>1. answer' \in Answers /\ answer'.status = 500
      BY <2>2, RepliesAreAnswers
    <3> QED BY <2>2, <3>1 DEF Leave, Goto
  <2> QED BY <2>1, <2>2 DEF Finish
<1>3. \A n \in Runtimes \ {"tts"} :
        memory'[n] \subseteq {"model", "tokenizer", "generate", "processor",
                             "backend", "translator"}
  BY FieldsInMemory DEF UseInv, MemoryShape
<1>4. TypeInv'
  BY <1>1, <1>2, <1>3, FinishArranges DEF AnswerInv, TypeInv, TypeOK
<1>5. Acceptable(req)'
  BY <1>1, SameJudgement
<1>6. AnswersFit'
  BY <1>1, <1>2, <1>5 DEF AnswersFit, FitsInference
<1>7. Judged'
  <2>1. CASE pc' = "transcode"
    BY <1>1, <1>2, <1>5, <1>6, <2>1 DEF Judged
  <2>2. CASE pc' = "answered"
    BY <1>6, <2>2 DEF Judged
  <2>3. CASE pc' = "unlink"
    <3>1. req.op = "asr"
      BY <1>2, <2>3
    <3>2. FitsTranscription'
      BY <1>1, <1>2, <3>1 DEF FitsInference, FitsTranscription
    <3> QED BY <1>1, <1>5, <1>6, <2>3, <3>1, <3>2 DEF Judged
  <2> QED BY <1>2, <2>1, <2>2, <2>3
<1> QED BY <1>4, <1>7, FinishArranges DEF AnswerInv

LEMMA AnswerStep ==
  ASSUME AnswerInv, UseInv', UNCHANGED environment,
         Transcode \/ RemoveFiles \/ Return
  PROVE  AnswerInv'
<1>1. /\ environment' \in Environments
      /\ UNCHANGED <<left, memory, keepAlive, unloadAt, timer, lockLost>>
  BY DEF AnswerInv, TypeInv, TypeOK, Transcode, RemoveFiles, Return, lifecycleVars
<1>2. CASE Transcode \/ RemoveFiles
  <2>1. /\ UNCHANGED <<req, began, using>> /\ pc' = "answered"
        /\ pc \in {"transcode", "unlink"} /\ Acceptable(req) /\ answer \in Answers
    BY <1>2 DEF AnswerInv, TypeInv, TypeOK, Judged, Transcode, RemoveFiles, Goto
  <2>2. \/ /\ req.op = "tts" /\ began /\ ~lockLost
           /\ answer.status = 200 /\ answer' = answer
        \/ /\ req.op = "tts" /\ began /\ answer' \in Answers
           /\ \/ answer'.status = 400 /\ answer'.param = "response_format"
              \/ answer'.status = 500
        \/ /\ req.op = "asr"
           /\ \/ FitsTranscription /\ answer' = answer
              \/ answer' \in Answers /\ answer'.status = 500
    <3>1. CASE Transcode
      <4>1. req.op = "tts" /\ began /\ ~lockLost /\ answer.status = 200
        BY <3>1 DEF Transcode, AnswerInv, Judged
      <4>2. CASE Reply(400, "response_format")
        BY <4>1, <4>2, RepliesAreAnswers DEF Fields
      <4>3. CASE Reply(500, None)
        BY <4>1, <4>3, RepliesAreAnswers
      <4> QED BY <3>1, <4>1, <4>2, <4>3 DEF Transcode
    <3>2. CASE RemoveFiles
      <4>1. req.op = "asr" /\ FitsTranscription
        BY <3>2 DEF RemoveFiles, AnswerInv, Judged
      <4>2. CASE Reply(500, None)
        BY <4>1, <4>2, RepliesAreAnswers
      <4> QED BY <3>2, <4>1, <4>2 DEF RemoveFiles
    <3> QED BY <1>2, <3>1, <3>2
  <2>3. TypeInv'
    <3>1. answer' \in Answers
      BY <2>1, <2>2
    <3> QED BY <1>1, <2>1, <3>1 DEF AnswerInv, TypeInv, TypeOK
  <2>4. Acceptable(req)'
    BY <2>1, SameJudgement
  <2>5. AnswersFit'
    BY <1>1, <2>1, <2>2, <2>4 DEF AnswersFit, FitsTranscription
  <2>6. Judged'
    BY <2>1, <2>5 DEF Judged
  <2>7. Kept'
    <3> SUFFICES ASSUME began
                 PROVE  Arranged(req.op, Effective(Field(req, "keep_alive"),
                                                   settings.model_keep_alive))'
      BY <2>1 DEF Kept
    <3>1. Arranged(req.op, Effective(Field(req, "keep_alive"), settings.model_keep_alive))
      BY <2>1 DEF AnswerInv, Kept
    <3>2. IsLoaded(req.op)' <=> IsLoaded(req.op)
      BY <1>1, <2>1, SameRequest DEF IsLoaded
    <3> QED BY <1>1, <2>1, <3>1, <3>2, SameJudgement DEF Arranged
  <2> QED BY <2>3, <2>6, <2>7 DEF AnswerInv
<1>3. CASE Return
  <2>1. pc' = "idle" /\ req' = None /\ answer' = None /\ began' = FALSE /\ using' = None
    BY <1>3 DEF Return, Goto
  <2>2. TypeInv'
    BY <1>1, <2>1 DEF AnswerInv, TypeInv, TypeOK
  <2>3. Judged' /\ Kept'
    BY <2>1 DEF Judged, AnswersFit, Kept
  <2> QED BY <2>2, <2>3 DEF AnswerInv
<1> QED BY <1>2, <1>3

LEMMA TimerStep ==
  ASSUME AnswerInv, UseInv', UNCHANGED environment, NEW m \in Runtimes, Unload(m)
  PROVE  AnswerInv'
<1>1. /\ environment' \in Environments
      /\ UNCHANGED <<pc, req, left, answer, began, using, keepAlive, lockLost>>
      /\ timer'    = [timer EXCEPT ![m] = None]
      /\ unloadAt' = [unloadAt EXCEPT ![m] = None]
      /\ memory'   = IF IsLoaded(m) THEN [memory EXCEPT ![m] = {}] ELSE memory
  BY DEF AnswerInv, TypeInv, TypeOK, Unload, requestVars
<1>2. \A n \in Runtimes \ {"tts"} :
        memory'[n] \subseteq {"model", "tokenizer", "generate", "processor",
                             "backend", "translator"}
  BY FieldsInMemory DEF UseInv, MemoryShape
<1>3. TypeInv'
  BY <1>1, <1>2 DEF AnswerInv, TypeInv, TypeOK
<1>4. /\ Acceptable(req)' <=> Acceptable(req)
      /\ BadOverflow(req)' <=> BadOverflow(req)
  BY <1>1, SameJudgement
<1>5. Judged'
  <2>1. settings' = settings
    BY <1>1, SameJudgement
  <2>2. AnswersFit'
    BY <1>1, <1>4 DEF AnswerInv, Judged, AnswersFit, BadOverflow
  <2>3. /\ FitsInference' <=> FitsInference
        /\ FitsTranscription' <=> FitsTranscription
    BY <1>1 DEF FitsInference, FitsTranscription
  <2> QED BY <1>1, <1>4, <2>1, <2>2, <2>3 DEF AnswerInv, Judged
<1>6. Kept'
  <2> DEFINE asked == Effective(Field(req, "keep_alive"), settings.model_keep_alive)
  <2>1. asked' = asked
    BY <1>1, SameJudgement
  <2> HIDE DEF asked
  <2>2. SUFFICES ASSUME pc \in {"transcode", "unlink", "answered"}, began
                 PROVE  Arranged(req.op, asked)'
    BY <1>1 DEF Kept, asked
  <2>3. Arranged(req.op, asked)
    BY <2>2 DEF AnswerInv, Kept, asked
  <2>4. req.op \in Runtimes
    BY <2>2, EndpointsAssumption DEF AnswerInv, UseInv, InUse, EndpointsAssumption
  <2>5. CASE req.op = m
    <3>1. timer'[m] = None /\ unloadAt'[m] = None
      BY <1>1 DEF AnswerInv, TypeInv, TypeOK
    <3>2. IsLoaded(m) => memory'[m] = {}
      BY <1>1 DEF AnswerInv, UseInv, MemoryShape
    <3>3. memory'[m] = {} => ~IsLoaded(m)'
      BY <1>1, WholeRuntimes, SameRequest DEF IsLoaded, Runtimes
    <3>4. ~IsLoaded(m) => ~IsLoaded(m)'
      BY <1>1, SameRequest DEF IsLoaded
    <3>5. ~IsLoaded(m)'
      BY <3>2, <3>3, <3>4
    <3> QED BY <1>1, <2>5, <3>1, <3>5 DEF Arranged
  <2>6. CASE req.op # m
    <3>1. /\ memory'[req.op] = memory[req.op] /\ timer'[req.op] = timer[req.op]
          /\ unloadAt'[req.op] = unloadAt[req.op]
      BY <1>1, <2>4, <2>6 DEF AnswerInv, TypeInv, TypeOK, UseInv, MemoryShape
    <3>2. IsLoaded(req.op)' <=> IsLoaded(req.op)
      BY <1>1, <3>1, SameRequest DEF IsLoaded
    <3> QED BY <1>1, <2>1, <2>3, <3>1, <3>2 DEF Arranged
  <2> QED BY <2>5, <2>6
<1> QED BY <1>3, <1>5, <1>6 DEF AnswerInv

LEMMA AnswerInvStep == AnswerInv /\ [Next]_vars => AnswerInv'
<1> SUFFICES ASSUME AnswerInv, [Next]_vars PROVE AnswerInv'
  OBVIOUS
<1>1. UseInv'
  BY UseStep DEF AnswerInv
<1>2. CASE Next
  BY <1>1, <1>2, AdmissionStep, WorkerStep, FinishAnswers, AnswerStep, TimerStep
  DEF Next, RequestStep
<1>3. CASE UNCHANGED vars
  <2>1. UNCHANGED <<environment, pc, req, left, answer, began, using, memory,
                    keepAlive, unloadAt, timer, lockLost>>
    BY <1>3 DEF vars, requestVars, lifecycleVars
  <2>2. TypeInv'
    BY <2>1 DEF AnswerInv, TypeInv, TypeOK
  <2>3. /\ Acceptable(req)' <=> Acceptable(req)
        /\ BadOverflow(req)' <=> BadOverflow(req)
    BY <2>1, SameJudgement
  <2>4. settings' = settings
    BY <2>1, SameJudgement
  <2>5. AnswersFit'
    BY <2>1, <2>3 DEF AnswerInv, Judged, AnswersFit, BadOverflow
  <2>6. /\ FitsInference' <=> FitsInference
        /\ FitsTranscription' <=> FitsTranscription
    BY <2>1 DEF FitsInference, FitsTranscription
  <2>7. Judged'
    BY <2>1, <2>3, <2>4, <2>5, <2>6 DEF AnswerInv, Judged
  <2>8. Kept'
    <3>1. IsLoaded(req.op)' <=> IsLoaded(req.op)
      BY <2>1, SameRequest DEF IsLoaded
    <3> QED BY <2>1, <3>1, SameJudgement DEF AnswerInv, Kept, Arranged
  <2> QED BY <1>1, <2>2, <2>7, <2>8 DEF AnswerInv
<1> QED BY <1>2, <1>3

(* The inductive invariant about answers and keep-alives.                   *)
THEOREM AnswerInvariant == Spec => []AnswerInv
BY InitAnswers, AnswerInvStep, PTL DEF Spec

(* Type correctness of the endpoints.                                       *)
THEOREM EndpointsTypes == Spec => []TypeOK
<1>1. AnswerInv => TypeOK
  BY DEF AnswerInv, TypeInv
<1> QED BY <1>1, AnswerInvariant, PTL

(* Every request is answered as it deserves, whatever its fields are, what  *)
(* the environment sets, which libraries and files fail and what earlier    *)
(* requests have left in memory: with a 400 before anything begins if a     *)
(* field is at fault, with text, audio or vectors only if they were made    *)
(* while the lock was its own, and with a 500 before it began only if it is *)
(* a transcription, or its keep-alive an integer that no float can hold.    *)
THEOREM EveryAnswerFits == Spec => []AnswersFit
<1>1. AnswerInv => AnswersFit
  BY DEF AnswerInv, Judged
<1> QED BY <1>1, AnswerInvariant, PTL

(* The request's own keep-alive decides what becomes of its runtime, for    *)
(* every number, infinity and NaN and every unit, and whatever timers fire  *)
(* while the answer is being made.                                          *)
THEOREM KeepAliveDecides == Spec => []KeepAliveHonoured
<1>1. AnswerInv => KeepAliveHonoured
  BY DEF AnswerInv, Kept, Arranged, KeepAliveHonoured
<1> QED BY <1>1, AnswerInvariant, PTL

(* A request that is refused, or answered with 503, changes nothing of any  *)
(* runtime; one that is served changes its own, or the memory of the LLM    *)
(* for a translation without a model path.                                  *)
THEOREM RefusalsTouchNothing == Spec => OnlyServedRequestsTouch
<1> DEFINE Runtime(n) == <<memory[n], keepAlive[n], unloadAt[n]>>
           Allowed(n) ==
             \/ timer[n] = "waiting" /\ UNCHANGED requestVars
             \/ Acceptable(req) /\ began' /\ n = req.op
             \/ /\ req.op = "translation" /\ using = "chat" /\ n = "chat"
                /\ settings.translation_model_path = ""
                /\ UNCHANGED <<keepAlive[n], unloadAt[n]>>
           Touch == \A n \in Runtimes : Runtime(n)' # Runtime(n) => Allowed(n)
<1>1. AnswerInv /\ [Next]_vars => [Touch]_vars
  <2> SUFFICES ASSUME AnswerInv, Next, NEW n \in Runtimes, Runtime(n)' # Runtime(n)
               PROVE  Allowed(n)
    OBVIOUS
  <2>1. /\ memory = [m \in Runtimes |-> memory[m]]
        /\ keepAlive = [m \in Runtimes |-> keepAlive[m]]
        /\ unloadAt = [m \in Runtimes |-> unloadAt[m]]
    BY DEF AnswerInv, UseInv, MemoryShape, TypeInv
  <2>2. CASE \/ Arrive \/ Validate \/ Decode \/ Busy
             \/ Transcode \/ RemoveFiles \/ Return
    BY <2>2 DEF Arrive, Validate, Decode, Busy, Transcode, RemoveFiles, Return,
                lifecycleVars
  <2>3. CASE Begin
    <3>1. Acceptable(req) /\ began'
      BY <2>3 DEF Begin, AnswerInv, Judged
    <3>2. n = req.op
      BY <2>1, <2>3 DEF Begin
    <3> QED BY <3>1, <3>2
  <2>4. CASE Load \/ Infer
    <3>1. Acceptable(req) /\ began' /\ n = using /\ UNCHANGED <<keepAlive, unloadAt>>
      BY <2>1, <2>4 DEF Load, Infer, lifecycleVars, AnswerInv, Judged
    <3>2. \/ using = req.op
          \/ /\ using = "chat" /\ req.op = "translation"
             /\ settings.translation_model_path = ""
      BY <2>4 DEF Load, Infer, AnswerInv, UseInv, InUse, Judged
    <3> QED BY <3>1, <3>2
  <2>5. CASE Finish
    <3>1. Acceptable(req) /\ began'
      BY <2>5 DEF Finish, AnswerInv, Judged
    <3>2. n = req.op
      BY <2>1, <2>5 DEF Finish
    <3> QED BY <3>1, <3>2
  <2>6. ASSUME NEW m \in Runtimes, Unload(m)
        PROVE  Allowed(n)
    <3>1. timer[m] = "waiting" /\ UNCHANGED requestVars
      BY <2>6 DEF Unload
    <3>2. n = m
      BY <2>1, <2>6 DEF Unload
    <3> QED BY <3>1, <3>2
  <2> QED BY <2>2, <2>3, <2>4, <2>5, <2>6 DEF Next, RequestStep
<1> QED BY <1>1, AnswerInvariant, PTL DEF Spec, OnlyServedRequestsTouch
=============================================================================
