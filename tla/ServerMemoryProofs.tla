-------------------------- MODULE ServerMemoryProofs --------------------------
(***************************************************************************)
(* What the memory of the runtimes has to do with their timers, for every  *)
(* set of requests, calls and runtimes: all variables of Server have their *)
(* types, TTS holds one model, and - when a model path for NLLB is         *)
(* configured, so that no translation falls back to the LLM - no model is  *)
(* unloaded before its keep-alive is over, and - when its tokenizer does   *)
(* not fail to load either - none stays without a timer that will unload   *)
(* it, and the server as a whole implements KeepAlivePolicy.               *)
(***************************************************************************)
EXTENDS ServerProofs, FiniteSetTheorems

(* A request cares for its runtime from begin_request to the end of its     *)
(* finish_request and of the unload that may follow.                        *)
Caring == {"created", "submit", "running", "fallback", "suspended", "ready",
           "pulling", "closing", "orphaned", "finish", "unload_now", "unloading"}

Cares(r, n) == pc[r] \in Caring /\ Of(r) = n

(* The requests: only streams have a generator, and only a missing path     *)
(* makes a translation fall back.                                           *)
Streams ==
  \A r \in Requests :
    pc[r] \in {"created", "suspended", "ready", "pulling", "closing", "orphaned"}
      => call[r].op = "stream"

Fallbacks ==
  \A r \in Requests :
    pc[r] = "fallback" => ~PathConfigured /\ "chat" \in Runtimes

(* The worker: its job is for its caller's own runtime, and it loads only   *)
(* during an inference.                                                     *)
JobRecord == [caller : Callers, kind : {"infer", "stream", "unload"},
              runtime : Runtimes, model : Parts \cup {"nllb", None}]

OwnRuntime(j) ==
  /\ j.kind = "stream" => j.runtime = "chat"
  /\ j.caller \in Requests /\ PathConfigured => j.runtime = Of(j.caller)
  /\ j.caller \in Requests /\ j.kind = "unload" => j.runtime = Of(j.caller)
  /\ j.caller \in TimerThreads => j.runtime = j.caller[1]
  /\ j.kind # "unload" => j.model \in ModelsOf(j.runtime)

Jobs == jobs # <<>> => Head1 \in JobRecord /\ OwnRuntime(Head1)

Loading(n) == jobs # <<>> /\ Head1.kind # "unload" /\ Head1.runtime = n /\ todo # None

Todo ==
  /\ jobs = <<>> \/ Head1.kind = "unload" => todo = None
  /\ todo # None =>
       \/ todo = <<>>
       \/ /\ Head1.runtime = "translation"
          /\ todo \in {<<"translator", "tokenizer">>, <<"tokenizer">>}
       \/ /\ Head1.runtime # "translation"
          /\ \E m \in ModelsOf(Head1.runtime) : todo = <<m>>

(* The memory: types; the one TTS model; and NLLB, whole or not at all,     *)
(* except between its two parts.                                            *)
MemoryType ==
  /\ memory \in [Runtimes -> SUBSET Parts]
  /\ asked \in [Runtimes -> LC!KeepAlives]
  /\ sinceUse \in [Runtimes -> 0..Max(Delays)]

OneTts ==
  "tts" \in Runtimes =>
    /\ memory["tts"] = {} \/ \E m \in Parts : memory["tts"] = {m}
    /\ Loading("tts") /\ todo # <<>> => memory["tts"] = {}

Whole == {"translator", "tokenizer"}

WholeNllb ==
  "translation" \in Runtimes /\ "tokenizer" \notin FailingParts =>
    IF ~Loading("translation") THEN memory["translation"] \in {{}, Whole}
    ELSE \/ todo = <<>> /\ memory["translation"] = Whole
         \/ todo = <<"tokenizer">> /\ memory["translation"] = {"translator"}
         \/ todo = <<"translator", "tokenizer">> /\ memory["translation"] = {}

(* The timers: one that is pending was asked for, has a model to unload,    *)
(* whose last use lies far enough back by the time it fires, and nobody     *)
(* cares for the runtime; one that unloads is of the current generation,    *)
(* and the last use lies that far back already.                             *)
Unloads(n, g) == thread[n][g].pc \in {"unload", "unloading"}

Due(n) ==
  LC!Pending(n, generation[n]) =>
    /\ asked[n] \in Delays /\ memory[n] # {}
    /\ \A r \in Requests : ~Cares(r, n)
    /\ IF thread[n][generation[n]].pc = "waiting"
       THEN sinceUse[n] + thread[n][generation[n]].left >= asked[n]
       ELSE sinceUse[n] >= asked[n]

Expired(n) ==
  \A g \in LC!Generations :
    Unloads(n, g) =>
      g = generation[n] /\ asked[n] \in Delays /\ sinceUse[n] >= asked[n]

NotEarly == PathConfigured => \A n \in Runtimes : Due(n) /\ Expired(n)

(* A model that may leave has a pending timer, is being unloaded, or has    *)
(* somebody who cares.                                                      *)
Kept(n) ==
  memory[n] # {} /\ asked[n] # None =>
    \/ LC!Pending(n, generation[n])
    \/ \E g \in LC!Generations : Unloads(n, g)
    \/ \E r \in Requests : Cares(r, n)

NotNever ==
  PathConfigured /\ "tokenizer" \notin FailingParts =>
    \A n \in Runtimes : Kept(n)

MemoryInv ==
  /\ LockInv /\ Streams /\ Fallbacks /\ Jobs /\ Todo
  /\ MemoryType /\ OneTts /\ WholeNllb /\ NotEarly /\ NotNever
-----------------------------------------------------------------------------
(* The longest keep-alive, and the calls.                                   *)
LEMMA Longest ==
  /\ Max(Delays) \in Delays /\ Delays \subseteq Nat \ {0}
  /\ \A d \in Delays : d <= Max(Delays)
<1>1. /\ Delays \subseteq Nat \ {0}
      /\ \E longest \in Delays : \A d \in Delays : d <= longest
  BY ServerAssumption DEF ServerAssumption, LC!LifecycleAssumption
<1> QED BY <1>1 DEF Max

LEMMA CallNames ==
  ASSUME LockInv, NEW r \in Requests, pc[r] # "idle"
  PROVE  /\ Of(r) \in Runtimes /\ call[r].keepAlive \in LC!KeepAlives
         /\ call[r].model \in ModelsOf(Of(r))
         /\ call[r].model \in Parts \cup {"nllb", None}
         /\ call[r].op = "stream" => Of(r) = "chat"
<1>1. call[r] \in Calls /\ call[r] \in Call /\ Calls \subseteq Call
  BY ServerAssumption DEF LockInv, LockType, ServerAssumption
<1>2. call[r].op = "stream" => "chat" \in Runtimes
  BY <1>1, ServerAssumption DEF ServerAssumption
<1> QED BY <1>1, <1>2 DEF Of, RuntimeOf, Call, ModelsOf, Parts, TtsModels

(* Who holds the lock is alone.                                             *)
LEMMA Alone ==
  ASSUME LockInv, NEW r \in Requests, RequestHolds(r)
  PROVE  /\ \A n \in Runtimes, g \in LC!Generations : ~Unloads(n, g)
         /\ \A q \in Requests : q # r => ~RequestHolds(q)
<1>1. r \in Holders
  BY DEF Holders
<1>2. ASSUME NEW n \in Runtimes, NEW g \in LC!Generations, Unloads(n, g)
      PROVE  FALSE
  <2>1. <<n, g>> \in TimerThreads /\ <<n, g>> \in Holders
    BY <1>2 DEF Holders, TimerHolds, TimerThreads, Unloads
  <2> QED BY <1>1, <2>1, NamesDiffer DEF LockInv, Exclusive
<1>3. ASSUME NEW q \in Requests, q # r, RequestHolds(q)
      PROVE  FALSE
  BY <1>1, <1>3 DEF Holders, LockInv, Exclusive
<1> QED BY <1>2, <1>3

LEMMA TimerAlone ==
  ASSUME LockInv, NEW n \in Runtimes, NEW g \in LC!Generations,
         TimerHolds(<<n, g>>)
  PROVE  /\ \A r \in Requests : ~RequestHolds(r)
         /\ \A m \in Runtimes, k \in LC!Generations :
              Unloads(m, k) => m = n /\ k = g
<1>1. <<n, g>> \in TimerThreads /\ <<n, g>> \in Holders
  BY DEF Holders, TimerThreads
<1>2. ASSUME NEW r \in Requests, RequestHolds(r) PROVE FALSE
  BY <1>1, <1>2, NamesDiffer DEF LockInv, Exclusive, Holders
<1>3. ASSUME NEW m \in Runtimes, NEW k \in LC!Generations, Unloads(m, k)
      PROVE  m = n /\ k = g
  <2>1. <<m, k>> \in Holders
    BY <1>3 DEF Holders, TimerHolds, TimerThreads, Unloads
  <2>2. <<m, k>> = <<n, g>>
    BY <1>1, <2>1 DEF LockInv, Exclusive
  <2> QED BY <2>2
<1> QED BY <1>2, <1>3

LEMMA CaringHolds ==
  ASSUME NEW r \in Requests, pc[r] \in Caring
  PROVE  RequestHolds(r) /\ pc[r] # "idle"
BY DEF Caring, RequestHolds

(* Nothing loads while there is no job, or an unload.                       *)
LEMMA NothingLoads ==
  ASSUME MemoryInv, jobs = <<>> \/ Head1.kind = "unload", NEW n
  PROVE  todo = None /\ ~Loading(n)
BY DEF MemoryInv, Todo, Loading

(* A runtime that is not loaded has no part of a model.                     *)
LEMMA NotLoadedIsEmpty ==
  ASSUME MemoryInv, NEW n \in Runtimes, "tokenizer" \notin FailingParts,
         jobs = <<>>, ~IsLoaded(n)
  PROVE  memory[n] = {}
BY NothingLoads DEF MemoryInv, WholeNllb, IsLoaded, Whole
-----------------------------------------------------------------------------
(* What a step leaves alone: a runtime, ...                                 *)
LEMMA RuntimeFrame ==
  ASSUME NEW n \in Runtimes, thread'[n] = thread[n],
         generation'[n] = generation[n], memory'[n] = memory[n],
         asked'[n] = asked[n], sinceUse'[n] = sinceUse[n],
         \A r \in Requests : Cares(r, n)' <=> Cares(r, n)
  PROVE  /\ Due(n)' <=> Due(n)
         /\ Expired(n)' <=> Expired(n)
         /\ Kept(n)' <=> Kept(n)
<1>1. /\ LC!Pending(n, generation[n])' <=> LC!Pending(n, generation[n])
      /\ \A g : Unloads(n, g)' <=> Unloads(n, g)
  BY DEF LC!Pending, Unloads
<1> QED BY <1>1 DEF Due, Expired, Kept

LEMMA IdleFrame ==
  ASSUME MemoryInv, UNCHANGED <<generation, thread, memory, asked, sinceUse>>,
         \A r \in Requests, n \in Runtimes : Cares(r, n)' <=> Cares(r, n)
  PROVE  MemoryType' /\ NotEarly' /\ NotNever'
<1>1. ASSUME NEW n \in Runtimes
      PROVE  /\ Due(n)' <=> Due(n)
             /\ Expired(n)' <=> Expired(n)
             /\ Kept(n)' <=> Kept(n)
  BY RuntimeFrame
<1> QED BY <1>1 DEF MemoryInv, MemoryType, NotEarly, NotNever

(* ... the worker and what it has loaded, ...                               *)
LEMMA JobFrame ==
  ASSUME MemoryInv, UNCHANGED <<memory, jobs, todo>>,
         \A r \in Requests : pc[r] # "idle" => call'[r] = call[r]
  PROVE  Jobs' /\ Todo' /\ OneTts' /\ WholeNllb'
<1>1. Head1' = Head1
  BY DEF Head1
<1>2. \A n : Loading(n)' <=> Loading(n)
  BY <1>1 DEF Loading
<1>3. Jobs'
  <2> SUFFICES ASSUME jobs # <<>> PROVE Head1 \in JobRecord /\ OwnRuntime(Head1)'
    BY <1>1 DEF Jobs
  <2>1. Head1 \in JobRecord /\ OwnRuntime(Head1)
    BY DEF MemoryInv, Jobs
  <2>2. Head1.caller \in Requests => Of(Head1.caller)' = Of(Head1.caller)
    <3>1. Head1.caller \in Requests => pc[Head1.caller] # "idle"
      BY HeadJob, NamesDiffer DEF MemoryInv, Waits
    <3> QED BY <1>1, <3>1 DEF Of
  <2> QED BY <1>1, <2>1, <2>2 DEF OwnRuntime
<1> QED BY <1>1, <1>2, <1>3 DEF MemoryInv, Todo, OneTts, WholeNllb

(* ... and, when a job is handed over, what is loaded.                      *)
LEMMA SubmitFrame ==
  ASSUME MemoryInv, jobs = <<>>, NEW j, Submit(j), j \in JobRecord,
         OwnRuntime(j)', UNCHANGED <<memory, todo>>
  PROVE  Jobs' /\ Todo' /\ OneTts' /\ WholeNllb'
<1>1. jobs' = <<j>> /\ Head1' = j
  BY DEF Submit, Head1
<1>2. todo' = None /\ \A n : ~Loading(n) /\ ~Loading(n)'
  BY NothingLoads DEF Loading
<1>3. Jobs'
  BY <1>1 DEF Jobs, OwnRuntime
<1> QED BY <1>2, <1>3 DEF MemoryInv, Todo, OneTts, WholeNllb
-----------------------------------------------------------------------------
LEMMA InitMemory == Init => MemoryInv
<1> SUFFICES ASSUME Init PROVE MemoryInv
  OBVIOUS
<1> USE DEF Init, LC!Init
<1>1. LockInv
  BY InitLock
<1>2. Streams /\ Fallbacks /\ Jobs /\ Todo
  BY DEF Streams, Fallbacks, Jobs, Todo
<1>3. MemoryType
  <2>1. \A m \in Nat : 0 \in 0..m
    OBVIOUS
  <2>2. Max(Delays) \in Nat
    BY Longest
  <2>3. 0 \in 0..Max(Delays)
    BY <2>1, <2>2
  <2> QED BY <2>3 DEF MemoryType, LC!KeepAlives
<1>4. OneTts /\ WholeNllb
  BY DEF OneTts, WholeNllb, Loading
<1>5. ASSUME NEW n \in Runtimes PROVE Due(n) /\ Expired(n) /\ Kept(n)
  BY LifecycleConstants
  DEF Due, Expired, Kept, LC!Pending, Unloads, LC!NoThread, LC!Generations
<1> QED BY <1>1, <1>2, <1>3, <1>4, <1>5 DEF MemoryInv, NotEarly, NotNever
-----------------------------------------------------------------------------
(* A request moves on and hands nothing over: it cares for its runtime      *)
(* exactly if it did before.                                                *)
Generators ==
  {"created", "suspended", "ready", "pulling", "closing", "orphaned"}

LEMMA RequestMoves ==
  ASSUME MemoryInv, LockInv', NEW r \in Requests, NEW where, Moves(r, where),
         pc[r] \in Caring <=> where \in Caring,
         where \in Generators => pc[r] \in Generators, where # "fallback",
         \A q \in Requests : pc[q] # "idle" => call'[q] = call[q],
         UNCHANGED <<generation, thread, memory, asked, sinceUse>>
  PROVE  Streams' /\ Fallbacks' /\ MemoryType' /\ NotEarly' /\ NotNever'
<1>1. /\ pc'[r] = where
      /\ \A q \in Requests : q # r => pc'[q] = pc[q]
  BY DEF MemoryInv, LockInv, LockType, Moves
<1>2. Streams' /\ Fallbacks'
  BY <1>1 DEF MemoryInv, Streams, Fallbacks, Generators
<1>3. ASSUME NEW q \in Requests, NEW n \in Runtimes
      PROVE  Cares(q, n)' <=> Cares(q, n)
  <2>1. pc[q] # "idle" => Of(q)' = Of(q)
    BY DEF Of
  <2>2. pc'[q] \in Caring <=> pc[q] \in Caring
    BY <1>1
  <2> QED BY <2>1, <2>2, CaringHolds DEF Cares
<1> QED BY <1>2, <1>3, IdleFrame

LEMMA HandlerSteps ==
  ASSUME MemoryInv, LockInv', NEW r \in Requests,
         \/ Arrive(r) \/ Reject(r) \/ Start(r) \/ AcquireLock(r)
         \/ AcquireTimeout(r) \/ Release(r) \/ Open(r) \/ Receive(r)
         \/ Read(r) \/ Disconnect(r) \/ Orphan(r) \/ Close(r)
  PROVE  MemoryInv'
<1> USE DEF At, Goto, Moves, workerVars, lifecycleVars, Caring, Generators
<1>1. UNCHANGED <<generation, thread, memory, asked, sinceUse, jobs, todo>>
  BY DEF Arrive, Reject, Start, AcquireLock, AcquireTimeout, Release, Open,
         Receive, Read, Disconnect, Orphan, Close
<1>2. \A q \in Requests : pc[q] # "idle" => call'[q] = call[q]
  BY DEF Arrive, Reject, Start, AcquireLock, AcquireTimeout, Release, Open,
         Receive, Read, Disconnect, Orphan, Close, MemoryInv, LockInv, LockType
<1>3. \E where : /\ Moves(r, where) /\ where # "fallback"
                 /\ pc[r] \in Caring <=> where \in Caring
                 /\ where \in Generators => pc[r] \in Generators
  BY DEF Arrive, Reject, Start, AcquireLock, AcquireTimeout, Release, Open,
         Receive, Read, Disconnect, Orphan, Close
<1>4. Streams' /\ Fallbacks' /\ MemoryType' /\ NotEarly' /\ NotNever'
  BY <1>1, <1>2, <1>3, RequestMoves
<1>5. Jobs' /\ Todo' /\ OneTts' /\ WholeNllb'
  BY <1>1, <1>2, JobFrame
<1> QED BY <1>4, <1>5 DEF MemoryInv

(* A request hands over its job.                                            *)
LEMMA SubmitSteps ==
  ASSUME MemoryInv, LockInv', NEW r \in Requests,
         RunJob(r) \/ Fallback(r) \/ UnloadNow(r) \/ Pull(r)
  PROVE  MemoryInv'
<1> USE DEF At, Goto, Moves, lifecycleVars, Caring, Generators
<1>1. /\ UNCHANGED <<generation, thread, memory, asked, sinceUse, todo, call>>
      /\ LockInv /\ RequestHolds(r) /\ pc[r] # "idle"
  BY DEF RunJob, Fallback, UnloadNow, Pull, MemoryInv, RequestHolds
<1>2. \E where : /\ Moves(r, where) /\ where # "fallback"
                 /\ pc[r] \in Caring <=> where \in Caring
                 /\ where \in Generators => pc[r] \in Generators
  BY DEF RunJob, Fallback, UnloadNow, Pull
<1>3. Streams' /\ Fallbacks' /\ MemoryType' /\ NotEarly' /\ NotNever'
  BY <1>1, <1>2, RequestMoves
<1>4. /\ Of(r)' = Of(r) /\ Of(r) \in Runtimes /\ call[r].model \in ModelsOf(Of(r))
      /\ call[r].model \in Parts \cup {"nllb", None}
      /\ r \in Callers /\ r \notin TimerThreads
  BY <1>1, CallNames, NamesDiffer DEF Of, Callers
<1>5. Jobs' /\ Todo' /\ OneTts' /\ WholeNllb'
  <2>1. CASE RunJob(r)
    <3>1. jobs = <<>>
      BY <1>1, <2>1, NoJob DEF RunJob
    <3>2. PICK j : j = Job(r, "infer", Of(r), call[r].model)
      OBVIOUS
    <3>3. j \in JobRecord /\ OwnRuntime(j)'
      BY <1>4, <3>2 DEF Job, JobRecord, OwnRuntime
    <3> QED BY <1>1, <2>1, <3>1, <3>2, <3>3, SubmitFrame DEF RunJob
  <2>2. CASE Fallback(r)
    <3>1. jobs = <<>>
      BY <1>1, <2>2, NoJob DEF Fallback
    <3>2. PICK j : j = Job(r, "infer", "chat", "model")
      OBVIOUS
    <3>3. ~PathConfigured /\ "chat" \in Runtimes
      BY <2>2 DEF Fallback, MemoryInv, Fallbacks
    <3>4. j \in JobRecord /\ OwnRuntime(j)'
      BY <1>4, <3>2, <3>3
      DEF Job, JobRecord, OwnRuntime, ModelsOf, Parts
    <3> QED BY <1>1, <2>2, <3>1, <3>2, <3>4, SubmitFrame DEF Fallback
  <2>3. CASE UnloadNow(r)
    <3>1. jobs = <<>>
      BY <1>1, <2>3, NoJob DEF UnloadNow
    <3>2. PICK j : j = Job(r, "unload", Of(r), None)
      OBVIOUS
    <3>3. j \in JobRecord /\ OwnRuntime(j)'
      BY <1>4, <3>2 DEF Job, JobRecord, OwnRuntime
    <3> QED BY <1>1, <2>3, <3>1, <3>2, <3>3, SubmitFrame DEF UnloadNow
  <2>4. CASE Pull(r) /\ queue[r] = None
    <3>1. jobs = <<>>
      BY <1>1, <2>4, NoJob, ServerAssumption DEF Pull, ServerAssumption
    <3>2. PICK j : j = Job(r, "stream", "chat", "model")
      OBVIOUS
    <3>3. call[r].op = "stream" /\ Of(r) = "chat"
      BY <1>1, <2>4, CallNames DEF Pull, MemoryInv, Streams
    <3>4. j \in JobRecord /\ OwnRuntime(j)'
      BY <1>4, <3>2, <3>3 DEF Job, JobRecord, OwnRuntime, ModelsOf, Parts
    <3> QED BY <1>1, <2>4, <3>1, <3>2, <3>4, SubmitFrame DEF Pull
  <2>5. CASE Pull(r) /\ queue[r] # None
    BY <1>1, <2>5, JobFrame DEF Pull
  <2> QED BY <2>1, <2>2, <2>3, <2>4, <2>5
<1> QED BY <1>3, <1>5 DEF MemoryInv

(* begin_request: the request cares, and no timer is pending.               *)
LEMMA BeginStep ==
  ASSUME MemoryInv, LockInv', NEW r \in Requests, Begin(r)
  PROVE  MemoryInv'
<1> PICK n : n = Of(r)
  OBVIOUS
<1> USE DEF At, Goto, workerVars
<1>1. /\ LockInv /\ RequestHolds(r) /\ pc[r] = "begin" /\ n \in Runtimes
      /\ UNCHANGED <<call, jobs, todo, memory, asked, sinceUse>>
      /\ \A q \in Requests : Of(q)' = Of(q)
  BY CallNames DEF Begin, MemoryInv, RequestHolds, Of
<1>2. /\ pc'[r] \in {"created", "submit"}
      /\ pc'[r] = "created" => call[r].op = "stream"
      /\ \A q \in Requests : q # r => pc'[q] = pc[q]
  BY DEF Begin, MemoryInv, LockInv, LockType
<1>3. /\ generation[n] \in Nat /\ generation[n] + 1 \in LC!Generations
      /\ generation' = [generation EXCEPT ![n] = @ + 1]
      /\ thread' = [thread EXCEPT ![n] = LC!CancelTimer(n)]
      /\ generation \in [Runtimes -> LC!Generations]
      /\ thread \in [Runtimes -> [LC!Generations -> ThreadRecord]]
  BY <1>1, LifecycleConstants
  DEF Begin, LC!BeginRequest, LockInv, LockType, Fresh, LC!Generations
<1>4. \A g \in LC!Generations :
        thread'[n][g] = thread[n][g] \/ thread'[n][g].pc = "none"
  BY <1>1, <1>3, CancelKeeps DEF LockInv
<1>5. Streams' /\ Fallbacks'
  BY <1>1, <1>2 DEF MemoryInv, Streams, Fallbacks
<1>6. Jobs' /\ Todo' /\ OneTts' /\ WholeNllb' /\ MemoryType'
  BY <1>1, JobFrame DEF MemoryInv, MemoryType
<1>7. Due(n)' /\ Expired(n)' /\ Kept(n)'
  <2>1. ~LC!Pending(n, generation[n])'
    <3>1. generation'[n] = generation[n] + 1 /\ generation[n] + 1 > generation[n]
      BY <1>1, <1>3
    <3>2. thread[n][generation[n] + 1].pc = "none"
      BY <1>1, <1>3, <3>1 DEF LockInv, Fresh, FreshGeneration
    <3> QED BY <1>3, <1>4, <3>1, <3>2 DEF LC!Pending
  <2>2. \A g \in LC!Generations : ~Unloads(n, g)'
    BY <1>1, <1>4, Alone DEF Unloads
  <2>3. Cares(r, n)'
    BY <1>1, <1>2 DEF Cares, Caring
  <2>4. n \in Runtimes
    BY <1>1
  <2> QED BY <2>1, <2>2, <2>3, <2>4 DEF Due, Expired, Kept
<1>8. ASSUME NEW m \in Runtimes, m # n
      PROVE  (Due(m)' <=> Due(m)) /\ (Expired(m)' <=> Expired(m)) /\ (Kept(m)' <=> Kept(m))
  <2>1. \A q \in Requests : Cares(q, m)' <=> Cares(q, m)
    BY <1>1, <1>2, <1>8 DEF Cares
  <2> QED BY <1>1, <1>3, <1>8, <2>1, RuntimeFrame
<1>9. NotEarly' /\ NotNever'
  <2>1. ASSUME NEW m \in Runtimes
        PROVE  /\ Due(m) /\ Expired(m) => Due(m)' /\ Expired(m)'
               /\ Kept(m) => Kept(m)'
    BY <1>7, <1>8
  <2> QED BY <2>1 DEF MemoryInv, NotEarly, NotNever
<1> QED BY <1>5, <1>6, <1>9 DEF MemoryInv

(* finish_request: a model that may leave is scheduled, or unloaded next.   *)
LEMMA FinishStep ==
  ASSUME MemoryInv, LockInv', NEW r \in Requests, Finish(r)
  PROVE  MemoryInv'
<1> PICK n : n = Of(r)
  OBVIOUS
<1> PICK ka : ka = call[r].keepAlive
  OBVIOUS
<1> USE DEF At, Goto
<1>1. /\ LockInv /\ RequestHolds(r) /\ pc[r] = "finish" /\ n \in Runtimes
      /\ ka \in LC!KeepAlives
      /\ UNCHANGED <<call, jobs, todo, memory, sinceUse>>
      /\ \A q \in Requests : Of(q)' = Of(q)
  BY CallNames DEF Finish, MemoryInv, RequestHolds, Of
<1>2. /\ pc'[r] = IF IsLoaded(n) /\ ka = 0 THEN "unload_now" ELSE "release"
      /\ \A q \in Requests : q # r => pc'[q] = pc[q] /\ pc[q] \notin Caring
  BY <1>1, Alone, CaringHolds
  DEF Finish, LC!UnloadsNow, MemoryInv, LockInv, LockType
<1>3. asked'[n] = ka /\ \A m \in Runtimes : m # n => asked'[m] = asked[m]
  BY <1>1 DEF Finish, MemoryInv, MemoryType
<1>4. MemoryType' /\ Streams' /\ Fallbacks'
  <2>1. asked' \in [Runtimes -> LC!KeepAlives]
    BY <1>1 DEF Finish, MemoryInv, MemoryType
  <2> QED BY <1>1, <1>2, <2>1 DEF MemoryInv, MemoryType, Streams, Fallbacks
<1>5. Jobs' /\ Todo' /\ OneTts' /\ WholeNllb'
  BY <1>1, JobFrame
<1>6. jobs = <<>>
  BY <1>1, NoJob
<1>7. /\ generation[n] \in Nat /\ generation[n] + 1 \in LC!Generations
      /\ generation' = [generation EXCEPT ![n] = @ + 1]
      /\ generation \in [Runtimes -> LC!Generations]
      /\ thread \in [Runtimes -> [LC!Generations -> ThreadRecord]]
      /\ thread[n][generation[n] + 1].pc = "none"
  <2>1. /\ generation[n] \in Nat /\ generation[n] + 1 \in LC!Generations
        /\ generation' = [generation EXCEPT ![n] = @ + 1]
        /\ generation \in [Runtimes -> LC!Generations]
        /\ thread \in [Runtimes -> [LC!Generations -> ThreadRecord]]
    BY <1>1, LifecycleConstants
    DEF Finish, LC!FinishRequest, LockInv, LockType, Fresh, LC!Generations
  <2>2. generation[n] + 1 > generation[n]
    BY <2>1
  <2> QED BY <1>1, <2>1, <2>2 DEF LockInv, Fresh, FreshGeneration
<1>8. /\ LC!CancelTimer(n) \in [LC!Generations -> ThreadRecord]
      /\ \A g \in LC!Generations :
           LC!CancelTimer(n)[g] = thread[n][g] \/ LC!CancelTimer(n)[g].pc = "none"
  BY <1>1, CancelKeeps DEF LockInv
<1>9. /\ Due(n)' /\ Expired(n)'
      /\ "tokenizer" \notin FailingParts => Kept(n)'
  <2>1. CASE IsLoaded(n) /\ ka \in Delays
    <3>1. thread' = [thread EXCEPT ![n] =
                       [LC!CancelTimer(n) EXCEPT ![generation[n] + 1] = LC!Waiting(ka)]]
      BY <2>1 DEF Finish, LC!FinishRequest, LC!ScheduleUnload
    <3>2. /\ generation'[n] = generation[n] + 1
          /\ thread'[n][generation'[n]] = [pc |-> "waiting", left |-> ka]
          /\ \A g \in LC!Generations : g # generation'[n] =>
               thread'[n][g] = thread[n][g] \/ thread'[n][g].pc = "none"
      BY <1>1, <1>7, <1>8, <3>1 DEF LC!Waiting
    <3>3. LC!Pending(n, generation[n])' /\ \A g \in LC!Generations : ~Unloads(n, g)'
      <4>1. \A g \in LC!Generations : ~Unloads(n, g)
        BY <1>1, Alone
      <4>2. thread'[n][generation'[n]].pc = "waiting"
        BY <3>2
      <4> QED BY <3>2, <4>1, <4>2 DEF LC!Pending, Unloads
    <3>4. memory'[n] # {}
      BY <1>1, <2>1 DEF IsLoaded
    <3>5. \A q \in Requests : ~Cares(q, n)'
      <4>1. ka # 0
        BY <2>1, Longest
      <4> QED BY <1>2, <4>1 DEF Cares, Caring
    <3>6. sinceUse'[n] + thread'[n][generation'[n]].left >= asked'[n]
      <4>1. sinceUse[n] \in Nat /\ ka \in Nat
        BY <1>1, <2>1, Longest DEF MemoryInv, MemoryType
      <4> QED BY <1>1, <1>3, <3>2, <4>1
    <3> QED BY <1>3, <2>1, <3>2, <3>3, <3>4, <3>5, <3>6 DEF Due, Expired, Kept
  <2>2. CASE ~(IsLoaded(n) /\ ka \in Delays)
    <3>1. thread' = [thread EXCEPT ![n] = LC!CancelTimer(n)]
      BY <2>2 DEF Finish, LC!FinishRequest
    <3>2. \A g \in LC!Generations :
            thread'[n][g] = thread[n][g] \/ thread'[n][g].pc = "none"
      BY <1>1, <1>7, <1>8, <3>1
    <3>3. ~LC!Pending(n, generation[n])' /\ \A g \in LC!Generations : ~Unloads(n, g)'
      BY <1>1, <1>7, <3>2, Alone DEF LC!Pending, Unloads
    <3>4. ASSUME "tokenizer" \notin FailingParts PROVE Kept(n)'
      <4>1. CASE ~IsLoaded(n)
        BY <1>1, <1>6, <3>4, <4>1, NotLoadedIsEmpty DEF Kept
      <4>2. CASE IsLoaded(n) /\ ka = 0
        BY <1>1, <1>2, <4>2 DEF Kept, Cares, Caring
      <4>3. CASE ka = None
        BY <1>3, <4>3 DEF Kept
      <4> QED BY <1>1, <2>2, <4>1, <4>2, <4>3 DEF LC!KeepAlives
    <3> QED BY <3>3, <3>4 DEF Due, Expired
  <2> QED BY <2>1, <2>2
<1>10. ASSUME NEW m \in Runtimes, m # n
       PROVE  (Due(m)' <=> Due(m)) /\ (Expired(m)' <=> Expired(m)) /\ (Kept(m)' <=> Kept(m))
  <2>1. \A q \in Requests : Cares(q, m)' <=> Cares(q, m)
    BY <1>1, <1>2, <1>10 DEF Cares
  <2>2. thread'[m] = thread[m] /\ generation'[m] = generation[m]
    BY <1>7, <1>10 DEF Finish, LC!FinishRequest, LC!ScheduleUnload
  <2> QED BY <1>1, <1>3, <1>10, <2>1, <2>2, RuntimeFrame
<1>11. NotEarly' /\ NotNever'
  <2>1. ASSUME NEW m \in Runtimes
        PROVE  /\ Due(m) /\ Expired(m) => Due(m)' /\ Expired(m)'
               /\ "tokenizer" \notin FailingParts /\ Kept(m) => Kept(m)'
    BY <1>9, <1>10
  <2> QED BY <2>1 DEF MemoryInv, NotEarly, NotNever
<1> QED BY <1>4, <1>5, <1>11 DEF MemoryInv
-----------------------------------------------------------------------------
(* A step that changes one runtime leaves the others as they are.           *)
LEMMA OneRuntime ==
  ASSUME MemoryInv, NEW n \in Runtimes,
         \A m \in Runtimes : m # n =>
           /\ thread'[m] = thread[m] /\ generation'[m] = generation[m]
           /\ memory'[m] = memory[m] /\ asked'[m] = asked[m]
           /\ sinceUse'[m] = sinceUse[m]
           /\ \A r \in Requests : Cares(r, m)' <=> Cares(r, m),
         PathConfigured => Due(n)' /\ Expired(n)',
         PathConfigured /\ "tokenizer" \notin FailingParts => Kept(n)'
  PROVE  NotEarly' /\ NotNever'
<1>1. ASSUME NEW m \in Runtimes, m # n
      PROVE  /\ Due(m)' <=> Due(m)
             /\ Expired(m)' <=> Expired(m)
             /\ Kept(m)' <=> Kept(m)
  BY <1>1, RuntimeFrame
<1>2. ASSUME PathConfigured, NEW m \in Runtimes
      PROVE  /\ Due(m)' /\ Expired(m)'
             /\ "tokenizer" \notin FailingParts => Kept(m)'
  BY <1>1, <1>2 DEF MemoryInv, NotEarly, NotNever
<1> QED BY <1>2 DEF NotEarly, NotNever

(* While somebody cares for a runtime, no timer of it is pending or at      *)
(* work, so that its memory may change.                                     *)
LEMMA NoTimerOfCared ==
  ASSUME MemoryInv, PathConfigured, NEW r \in Requests, NEW n \in Runtimes,
         Cares(r, n)
  PROVE  /\ ~LC!Pending(n, generation[n])
         /\ \A g \in LC!Generations : ~Unloads(n, g)
<1>1. Due(n) /\ LockInv /\ RequestHolds(r)
  BY CaringHolds DEF MemoryInv, NotEarly, Cares
<1> QED BY <1>1, Alone DEF Due

LEMMA BusyFrame ==
  ASSUME MemoryInv, NEW r \in Requests, NEW n \in Runtimes,
         PathConfigured => Cares(r, n),
         UNCHANGED <<generation, thread>>,
         \A m \in Runtimes : m # n =>
           /\ memory'[m] = memory[m] /\ asked'[m] = asked[m]
           /\ sinceUse'[m] = sinceUse[m],
         \A q \in Requests, m \in Runtimes : Cares(q, m)' <=> Cares(q, m)
  PROVE  NotEarly' /\ NotNever'
<1>1. ASSUME PathConfigured
      PROVE  Due(n)' /\ Expired(n)' /\ Kept(n)'
  <2>1. Cares(r, n)'
    BY <1>1
  <2>2. ~LC!Pending(n, generation[n])' /\ \A g \in LC!Generations : ~Unloads(n, g)'
    BY <1>1, NoTimerOfCared DEF LC!Pending, Unloads
  <2> QED BY <2>1, <2>2 DEF Due, Expired, Kept
<1> QED BY <1>1, OneRuntime

(* The caller of the worker's job cares for the runtime it is for.          *)
LEMMA HeadJobRuntime ==
  ASSUME MemoryInv, jobs # <<>>
  PROVE  /\ LockInv /\ jobs = <<Head1>> /\ Waits(Head1) /\ Tail(jobs) = <<>>
         /\ Head1.runtime \in Runtimes /\ OwnRuntime(Head1)
         /\ Head1.caller \in Requests \cup TimerThreads
         /\ Head1.caller \in Requests /\ PathConfigured =>
              Cares(Head1.caller, Head1.runtime)
         /\ Head1.kind # "unload" =>
              /\ Head1.caller \in Requests /\ pc[Head1.caller] # "idle"
              /\ Head1.model \in ModelsOf(Head1.runtime)
<1>1. LockInv /\ jobs = <<Head1>> /\ Waits(Head1) /\ Tail(jobs) = <<>>
  BY HeadJob DEF MemoryInv
<1>2. Head1 \in JobRecord /\ OwnRuntime(Head1)
  BY DEF MemoryInv, Jobs
<1>3. Head1.caller \in Requests => pc[Head1.caller] \in Caring
  BY <1>1, NamesDiffer DEF Waits, Caring
<1> QED BY <1>1, <1>2, <1>3
        DEF JobRecord, Callers, TimerThreads, OwnRuntime, Cares, Waits
-----------------------------------------------------------------------------
LEMMA StartJobStep ==
  ASSUME MemoryInv, LockInv', StartJob
  PROVE  MemoryInv'
<1> PICK n : n = Head1.runtime
  OBVIOUS
<1> PICK m : m = Head1.model
  OBVIOUS
<1> PICK r : r = Head1.caller
  OBVIOUS
<1>1. /\ jobs # <<>> /\ todo = None /\ Head1.kind # "unload"
      /\ UNCHANGED <<generation, thread, call, asked, sinceUse>>
  BY DEF StartJob, lifecycleVars
<1>2. /\ n \in Runtimes /\ m \in ModelsOf(n) /\ r \in Requests
      /\ LockInv /\ jobs = <<Head1>> /\ Tail(jobs) = <<>> /\ Waits(Head1)
      /\ PathConfigured => Cares(r, n)
  BY <1>1, HeadJobRuntime
<1>3. \A k : ~Loading(k)
  BY <1>1 DEF Loading
<1>4. CASE /\ Ready(n, m) /\ todo' = <<>> /\ UNCHANGED <<memory, jobs, pc>>
  <2>1. Streams' /\ Fallbacks' /\ MemoryType' /\ NotEarly' /\ NotNever'
    <3>1. \A q \in Requests, k \in Runtimes : Cares(q, k)' <=> Cares(q, k)
      BY <1>1, <1>4 DEF Cares, Of
    <3> QED BY <1>1, <1>4, <3>1, IdleFrame DEF MemoryInv, Streams, Fallbacks
  <2>2. Head1' = Head1
    BY <1>4 DEF Head1
  <2>3. Jobs' /\ Todo' /\ OneTts'
    BY <1>1, <1>4, <2>2
    DEF MemoryInv, Jobs, OwnRuntime, Of, Todo, OneTts
  <2>4. WholeNllb'
    <3>1. CASE n = "translation"
      BY <1>1, <1>3, <1>4, <2>2, <3>1
      DEF MemoryInv, WholeNllb, Loading, Ready, IsLoaded, Whole
    <3>2. CASE n # "translation"
      BY <1>1, <1>3, <1>4, <2>2, <3>2 DEF MemoryInv, WholeNllb, Loading
    <3> QED BY <3>1, <3>2
  <2> QED BY <2>1, <2>3, <2>4 DEF MemoryInv
<1>5. CASE /\ n = "translation" /\ ~PathConfigured /\ jobs' = Tail(jobs)
           /\ Goto(r, "fallback") /\ UNCHANGED <<memory, todo>>
  <2>1. "chat" \in Runtimes
    BY <1>2, <1>5, ServerAssumption DEF ServerAssumption
  <2>2. /\ jobs' = <<>> /\ todo' = None /\ pc'[r] = "fallback"
        /\ \A q \in Requests : q # r => pc'[q] = pc[q]
    BY <1>1, <1>2, <1>5 DEF Goto, LockInv, LockType
  <2>3. Streams' /\ Fallbacks'
    BY <1>1, <1>5, <2>1, <2>2 DEF MemoryInv, Streams, Fallbacks
  <2>4. Jobs' /\ Todo' /\ OneTts' /\ WholeNllb'
    BY <1>1, <1>3, <1>5, <2>2
    DEF MemoryInv, Jobs, Todo, OneTts, WholeNllb, Loading
  <2>5. MemoryType' /\ NotEarly' /\ NotNever'
    BY <1>1, <1>5 DEF MemoryInv, MemoryType, NotEarly, NotNever
  <2> QED BY <2>3, <2>4, <2>5 DEF MemoryInv
<1>6. CASE /\ ~Ready(n, m) /\ todo' = LoadOrder(n, m)
           /\ memory' = IF n = "tts" THEN [memory EXCEPT ![n] = {}] ELSE memory
           /\ UNCHANGED <<jobs, pc>>
  <2>1. /\ MemoryType' /\ \A k \in Runtimes : k # n => memory'[k] = memory[k]
        /\ memory'[n] = IF n = "tts" THEN {} ELSE memory[n]
    BY <1>1, <1>2, <1>6 DEF MemoryInv, MemoryType
  <2>2. \A q \in Requests, k \in Runtimes : Cares(q, k)' <=> Cares(q, k)
    BY <1>1, <1>6 DEF Cares, Of
  <2>3. NotEarly' /\ NotNever'
    BY <1>1, <1>2, <2>1, <2>2, BusyFrame
  <2>4. Head1' = Head1
    BY <1>6 DEF Head1
  <2>5. Streams' /\ Fallbacks' /\ Jobs'
    BY <1>1, <1>6, <2>4
    DEF MemoryInv, Streams, Fallbacks, Jobs, OwnRuntime, Of
  <2>6. Todo'
    BY <1>1, <1>2, <1>6, <2>4 DEF Todo, LoadOrder
  <2>7. OneTts'
    <3>1. CASE n = "tts"
      BY <2>1, <3>1 DEF OneTts
    <3>2. CASE n # "tts"
      BY <1>1, <2>1, <2>4, <3>2 DEF MemoryInv, OneTts, Loading
    <3> QED BY <3>1, <3>2
  <2>8. WholeNllb'
    <3>1. CASE n = "translation"
      BY <1>1, <1>2, <1>3, <1>6, <2>1, <2>4, <3>1
      DEF MemoryInv, WholeNllb, Loading, Ready, IsLoaded, Whole, LoadOrder
    <3>2. CASE n # "translation"
      BY <1>1, <1>3, <2>1, <2>4, <3>2 DEF MemoryInv, WholeNllb, Loading
    <3> QED BY <3>1, <3>2
  <2> QED BY <2>1, <2>3, <2>5, <2>6, <2>7, <2>8 DEF MemoryInv
<1> QED BY <1>4, <1>5, <1>6 DEF StartJob

LEMMA LoadPartStep ==
  ASSUME MemoryInv, LockInv', LoadPart
  PROVE  MemoryInv'
<1> PICK n : n = Head1.runtime
  OBVIOUS
<1> PICK r : r = Head1.caller
  OBVIOUS
<1>1. /\ todo # None /\ todo # <<>>
      /\ UNCHANGED <<generation, thread, call, pc, jobs, asked, sinceUse>>
      /\ memory' = [memory EXCEPT ![n] = @ \cup {Head(todo)}]
      /\ todo' = Tail(todo)
  BY DEF LoadPart, lifecycleVars, requestVars
<1>2. jobs # <<>> /\ Head1.kind # "unload" /\ Head1' = Head1
  BY <1>1 DEF MemoryInv, Todo, Head1
<1>3. n \in Runtimes /\ r \in Requests /\ (PathConfigured => Cares(r, n))
  BY <1>2, HeadJobRuntime
<1>4. /\ \A k \in Runtimes : k # n => memory'[k] = memory[k]
      /\ memory'[n] = memory[n] \cup {Head(todo)}
  BY <1>1, <1>3 DEF MemoryInv, MemoryType
<1>5. \/ /\ n = "translation" /\ todo = <<"translator", "tokenizer">>
         /\ Head(todo) = "translator" /\ todo' = <<"tokenizer">>
      \/ /\ n = "translation" /\ todo = <<"tokenizer">>
         /\ Head(todo) = "tokenizer" /\ todo' = <<>>
      \/ /\ n # "translation" /\ todo' = <<>>
         /\ Head(todo) \in ModelsOf(n)
  <2>1. CASE n = "translation"
    <3>1. todo \in {<<"translator", "tokenizer">>, <<"tokenizer">>}
      BY <1>1, <1>2, <2>1 DEF MemoryInv, Todo
    <3>2. CASE todo = <<"translator", "tokenizer">>
      <4>1. Tail(<<"translator", "tokenizer">>) = <<"tokenizer">>
        OBVIOUS
      <4>2. Head(<<"translator", "tokenizer">>) = "translator"
        OBVIOUS
      <4> QED BY <1>1, <2>1, <3>2, <4>1, <4>2
    <3>3. CASE todo = <<"tokenizer">>
      BY <1>1, <2>1, <3>3
    <3> QED BY <3>1, <3>2, <3>3
  <2>2. CASE n # "translation"
    <3>1. PICK m \in ModelsOf(n) : todo = <<m>>
      BY <1>1, <1>2, <2>2 DEF MemoryInv, Todo
    <3> QED BY <1>1, <2>2, <3>1
  <2> QED BY <2>1, <2>2
<1>6. Head(todo) \in Parts /\ todo' # None
  <2>1. Head(todo) \in Parts
    BY <1>5 DEF ModelsOf, Parts, TtsModels
  <2>2. <<>> \in Seq(Parts) /\ <<"tokenizer">> \in Seq(Parts) /\ None \notin Seq(Parts)
    BY ServerAssumption DEF ServerAssumption, Parts
  <2> QED BY <1>5, <2>1, <2>2
<1>7. MemoryType'
  BY <1>1, <1>3, <1>6 DEF MemoryInv, MemoryType
<1>8. NotEarly' /\ NotNever'
  <2>1. \A q \in Requests, k \in Runtimes : Cares(q, k)' <=> Cares(q, k)
    BY <1>1 DEF Cares, Of
  <2> QED BY <1>1, <1>3, <1>4, <2>1, BusyFrame
<1>9. Streams' /\ Fallbacks' /\ Jobs'
  BY <1>1, <1>2 DEF MemoryInv, Streams, Fallbacks, Jobs, OwnRuntime, Of
<1>10. Todo'
  BY <1>1, <1>2, <1>5 DEF Todo
<1>11. OneTts'
  <2>1. CASE n = "tts"
    <3>1. memory["tts"] = {} /\ todo' = <<>>
      BY <1>1, <1>2, <1>3, <1>5, <2>1 DEF MemoryInv, OneTts, Loading
    <3> QED BY <1>4, <1>6, <2>1, <3>1 DEF OneTts
  <2>2. CASE n # "tts"
    BY <1>2, <1>4, <2>2 DEF MemoryInv, OneTts, Loading
  <2> QED BY <2>1, <2>2
<1>12. WholeNllb'
  <2>1. CASE n = "translation"
    BY <1>1, <1>2, <1>4, <1>5, <1>6, <2>1 DEF MemoryInv, WholeNllb, Loading, Whole
  <2>2. CASE n # "translation"
    BY <1>2, <1>4, <2>2 DEF MemoryInv, WholeNllb, Loading
  <2> QED BY <2>1, <2>2
<1> QED BY <1>7, <1>8, <1>9, <1>10, <1>11, <1>12 DEF MemoryInv

(* A job that is no unload ends: the runtime has been used just now.        *)
LEMMA EndJobStep ==
  ASSUME MemoryInv, LockInv', jobs # <<>>, todo # None, Head1.kind # "unload",
         todo # <<>> => Head(todo) \in FailingParts,
         NEW where, EndJob(where), where \in Caring, where # "fallback",
         where \in Generators => pc[Head1.caller] \in Generators,
         UNCHANGED <<lifecycleVars, memory, call>>
  PROVE  MemoryInv'
<1> PICK n : n = Head1.runtime
  OBVIOUS
<1> PICK r : r = Head1.caller
  OBVIOUS
<1>1. /\ n \in Runtimes /\ r \in Requests /\ (PathConfigured => Cares(r, n))
      /\ LockInv /\ jobs' = <<>> /\ todo' = None /\ pc[r] # "idle"
      /\ pc[r] \in Caring
  BY HeadJobRuntime, NamesDiffer DEF EndJob, Waits, Caring
<1>2. pc'[r] = where /\ \A q \in Requests : q # r => pc'[q] = pc[q]
  BY <1>1 DEF EndJob, Goto, LockInv, LockType
<1>3. Streams' /\ Fallbacks'
  BY <1>2 DEF MemoryInv, Streams, Fallbacks, Generators
<1>4. /\ asked' = [asked EXCEPT ![n] = call[r].keepAlive]
      /\ sinceUse' = [sinceUse EXCEPT ![n] = 0]
      /\ \A m \in Runtimes : m # n =>
           asked'[m] = asked[m] /\ sinceUse'[m] = sinceUse[m]
  BY DEF EndJob, MemoryInv, MemoryType
<1>5. MemoryType'
  <2>1. call[r].keepAlive \in LC!KeepAlives
    BY <1>1, CallNames
  <2>2. Max(Delays) \in Nat
    BY Longest
  <2>3. 0 \in 0..Max(Delays)
    BY <2>2
  <2> QED BY <1>1, <1>4, <2>1, <2>3 DEF MemoryInv, MemoryType
<1>6. NotEarly' /\ NotNever'
  <2>1. \A q \in Requests, m \in Runtimes : Cares(q, m)' <=> Cares(q, m)
    BY <1>1, <1>2 DEF Cares, Of
  <2>2. UNCHANGED <<generation, thread, memory>>
    BY DEF lifecycleVars
  <2> QED BY <1>1, <1>4, <2>1, <2>2, BusyFrame
<1>7. Jobs' /\ Todo'
  BY <1>1 DEF Jobs, Todo
<1>8. OneTts'
  BY <1>1 DEF MemoryInv, OneTts, Loading
<1>9. WholeNllb'
  <2>1. SUFFICES ASSUME "translation" \in Runtimes, "tokenizer" \notin FailingParts
                 PROVE  memory["translation"] \in {{}, Whole}
    BY <1>1 DEF WholeNllb, Loading
  <2>2. todo # <<"tokenizer">>
    BY <2>1
  <2> QED BY <2>1, <2>2 DEF MemoryInv, WholeNllb
<1> QED BY <1>3, <1>5, <1>6, <1>7, <1>8, <1>9 DEF MemoryInv

LEMMA JobSteps ==
  ASSUME MemoryInv, LockInv', EndInference \/ EndStream \/ StopStream
  PROVE  MemoryInv'
<1>1. CASE EndInference
  BY <1>1, EndJobStep DEF EndInference, Caring, Generators
<1>2. CASE EndStream
  <2>1. pc[Head1.caller] \in Generators
    BY <1>2, HeadJobRuntime DEF EndStream, Waits, Generators
  <2> QED BY <1>2, <2>1, EndJobStep DEF EndStream, Caring, Generators
<1>3. CASE StopStream
  BY <1>3, EndJobStep DEF StopStream, StopSet, At, Caring, Generators
<1> QED BY <1>1, <1>2, <1>3

LEMMA PutChunkStep ==
  ASSUME MemoryInv, LockInv', PutChunk
  PROVE  MemoryInv'
<1>1. UNCHANGED <<generation, thread, memory, asked, sinceUse, jobs, todo, pc, call>>
  BY DEF PutChunk, lifecycleVars, workerVars
<1>2. \A q \in Requests, m \in Runtimes : Cares(q, m)' <=> Cares(q, m)
  BY <1>1 DEF Cares, Of
<1>3. Streams' /\ Fallbacks'
  BY <1>1 DEF MemoryInv, Streams, Fallbacks
<1> QED BY <1>1, <1>2, <1>3, IdleFrame, JobFrame DEF MemoryInv
-----------------------------------------------------------------------------
(* An unload ends: the runtime has no memory that could be forgotten.       *)
LEMMA UnloadForStep ==
  ASSUME MemoryInv, LockInv', NEW r \in Requests, UnloadFor(r)
  PROVE  MemoryInv'
<1> PICK n : n = Head1.runtime
  OBVIOUS
<1>1. /\ jobs # <<>> /\ Head1.kind = "unload" /\ Head1.caller = r
      /\ UNCHANGED <<generation, thread, call, todo, asked, sinceUse>>
      /\ memory' = [memory EXCEPT ![n] = {}] /\ jobs' = Tail(jobs)
  BY DEF UnloadFor, lifecycleVars
<1>2. /\ n \in Runtimes /\ n = Of(r) /\ jobs' = <<>> /\ pc[r] = "unloading"
      /\ LockInv /\ r \notin TimerThreads
  BY <1>1, HeadJobRuntime, NamesDiffer DEF OwnRuntime, Waits
<1>3. todo' = None
  BY <1>1, NothingLoads
<1>4. /\ pc'[r] \in {"release", "lost"}
      /\ \A q \in Requests : q # r => pc'[q] = pc[q]
  BY <1>1 DEF UnloadFor, Goto, MemoryInv, LockInv, LockType
<1>5. /\ memory'[n] = {} /\ \A m \in Runtimes : m # n => memory'[m] = memory[m]
      /\ MemoryType'
  BY <1>1, <1>2 DEF MemoryInv, MemoryType
<1>6. Streams' /\ Fallbacks' /\ Jobs' /\ Todo'
  BY <1>1, <1>2, <1>3, <1>4 DEF MemoryInv, Streams, Fallbacks, Jobs, Todo
<1>7. OneTts' /\ WholeNllb'
  <2>1. \A k : ~Loading(k) /\ ~Loading(k)'
    BY <1>1, <1>2 DEF Loading
  <2> QED BY <1>5, <2>1 DEF MemoryInv, OneTts, WholeNllb
<1>8. NotEarly' /\ NotNever'
  <2>1. \A m \in Runtimes : m # n =>
          \A q \in Requests : Cares(q, m)' <=> Cares(q, m)
    BY <1>1, <1>2, <1>4 DEF Cares, Of
  <2>2. Kept(n)'
    BY <1>5 DEF Kept
  <2>3. ASSUME PathConfigured PROVE Due(n)' /\ Expired(n)'
    <3>1. Cares(r, n)
      BY <1>2 DEF Cares, Caring
    <3>2. ~LC!Pending(n, generation[n])' /\ \A g \in LC!Generations : ~Unloads(n, g)'
      BY <1>1, <1>2, <2>3, <3>1, NoTimerOfCared DEF LC!Pending, Unloads
    <3> QED BY <3>2 DEF Due, Expired
  <2> QED BY <1>1, <1>2, <1>5, <2>1, <2>2, <2>3, OneRuntime
<1> QED BY <1>5, <1>6, <1>7, <1>8 DEF MemoryInv

(* Thread g of runtime n is where it is put, and all others are where they  *)
(* were.                                                                    *)
LEMMA ThreadMoves ==
  ASSUME LockInv, NEW n \in Runtimes, NEW g \in LC!Generations, NEW x,
         thread' = [thread EXCEPT ![n][g] = x]
  PROVE  /\ thread'[n][g] = x
         /\ \A k \in LC!Generations : k # g => thread'[n][k] = thread[n][k]
         /\ \A m \in Runtimes : m # n => thread'[m] = thread[m]
BY DEF LockInv, LockType

LEMMA UnloadForTimerMemory ==
  ASSUME MemoryInv, LockInv', NEW n \in Runtimes, NEW g \in LC!Generations,
         UnloadForTimer(n, g)
  PROVE  MemoryInv'
<1> PICK x : x = [pc |-> "release", left |-> 0]
  OBVIOUS
<1>1. /\ jobs # <<>> /\ Head1.kind = "unload"
      /\ UNCHANGED <<generation, call, pc, todo, asked, sinceUse>>
      /\ memory' = [memory EXCEPT ![n] = {}] /\ jobs' = Tail(jobs)
      /\ thread[n][g].pc = "unloading"
      /\ thread' = [thread EXCEPT ![n][g] = x]
  BY DEF UnloadForTimer, requestVars, LC!EndUnload, LC!At, LC!Goto
<1>2. jobs' = <<>> /\ LockInv
  BY <1>1, HeadJobRuntime
<1>3. todo' = None
  BY <1>1, NothingLoads
<1>4. /\ memory'[n] = {} /\ \A m \in Runtimes : m # n => memory'[m] = memory[m]
      /\ MemoryType'
  BY <1>1 DEF MemoryInv, MemoryType
<1>5. Streams' /\ Fallbacks' /\ Jobs' /\ Todo'
  BY <1>1, <1>2, <1>3 DEF MemoryInv, Streams, Fallbacks, Jobs, Todo
<1>6. OneTts' /\ WholeNllb'
  <2>1. \A k : ~Loading(k) /\ ~Loading(k)'
    BY <1>1, <1>2 DEF Loading
  <2> QED BY <1>4, <2>1 DEF MemoryInv, OneTts, WholeNllb
<1>7. NotEarly' /\ NotNever'
  <2>1. \A m \in Runtimes, q \in Requests : Cares(q, m)' <=> Cares(q, m)
    BY <1>1 DEF Cares, Of
  <2>2. Kept(n)'
    BY <1>4 DEF Kept
  <2>3. ASSUME PathConfigured PROVE Due(n)' /\ Expired(n)'
    <3>1. /\ TimerHolds(<<n, g>>) /\ Unloads(n, g)
      BY <1>1 DEF TimerHolds, Unloads
    <3>2. g = generation[n]
      BY <2>3, <3>1 DEF MemoryInv, NotEarly, Expired
    <3>3. /\ thread'[n][g].pc = "release"
          /\ \A k \in LC!Generations : k # g => thread'[n][k] = thread[n][k]
      <4>1. x.pc = "release"
        OBVIOUS
      <4>2. thread'[n][g] = x
        BY <1>1, <1>2 DEF LockInv, LockType
      <4>3. \A k \in LC!Generations : k # g => thread'[n][k] = thread[n][k]
        BY <1>1, <1>2, ThreadMoves
      <4> QED BY <4>1, <4>2, <4>3
    <3>4. \A k \in LC!Generations : ~Unloads(n, k)'
      BY <1>2, <3>1, <3>3, TimerAlone DEF Unloads
    <3>5. ~LC!Pending(n, generation[n])'
      BY <1>1, <3>2, <3>3 DEF LC!Pending
    <3> QED BY <3>4, <3>5 DEF Due, Expired
  <2>4. \A m \in Runtimes : m # n => thread'[m] = thread[m]
    BY <1>1, <1>2, ThreadMoves
  <2> QED BY <1>1, <1>4, <2>1, <2>2, <2>3, <2>4, OneRuntime
<1> QED BY <1>4, <1>5, <1>6, <1>7 DEF MemoryInv
-----------------------------------------------------------------------------
(* A step of timer thread g of runtime n to x, which touches no memory: it  *)
(* may stop being pending only if it is out of date, starts to unload or    *)
(* finds nothing to unload.                                                 *)
LEMMA TimerMoves ==
  ASSUME MemoryInv, NEW n \in Runtimes, NEW g \in LC!Generations,
         NEW x \in ThreadRecord, thread' = [thread EXCEPT ![n][g] = x],
         UNCHANGED <<generation, memory, asked, sinceUse, call, pc>>,
         NEW old, old = thread[n][g].pc,
         thread[n][g].pc = "waiting" => thread[n][g].left = 0,
         \/ old = "waiting" /\ x.pc = "fired"
         \/ old = "fired" /\ x.pc \in {"retry", "locked"}
         \/ old = "retry" /\ g # generation[n] /\ x.pc = "none"
         \/ old = "retry" /\ g = generation[n] /\ x.pc = "waiting"
         \/ old = "locked" /\ g # generation[n] /\ x.pc = "release"
         \/ old = "locked" /\ g = generation[n] /\ x.pc = "unload"
         \/ old = "unload" /\ x.pc = "unloading"
         \/ /\ old = "unload" /\ x.pc = "release"
            /\ "tokenizer" \notin FailingParts => memory[n] = {}
         \/ old = "release" /\ x.pc = "none"
  PROVE  Streams' /\ Fallbacks' /\ MemoryType' /\ NotEarly' /\ NotNever'
<1>1. Streams' /\ Fallbacks' /\ MemoryType'
  BY DEF MemoryInv, Streams, Fallbacks, MemoryType
<1>2. \A m \in Runtimes, q \in Requests : Cares(q, m)' <=> Cares(q, m)
  BY DEF Cares, Of
<1>3. /\ thread'[n][g] = x
      /\ \A k \in LC!Generations : k # g => thread'[n][k] = thread[n][k]
      /\ \A m \in Runtimes : m # n => thread'[m] = thread[m]
      /\ generation[n] \in LC!Generations
  <2>1. LockInv /\ generation[n] \in LC!Generations
    BY DEF MemoryInv, LockInv, Fresh
  <2> QED BY <2>1, ThreadMoves
<1>4. \A k \in LC!Generations : k # g => (Unloads(n, k)' <=> Unloads(n, k))
  BY <1>3 DEF Unloads
<1>5. /\ Unloads(n, g)' <=> x.pc \in {"unload", "unloading"}
      /\ Unloads(n, g) <=> old \in {"unload", "unloading"}
  BY <1>3 DEF Unloads
<1>6. CASE g # generation[n]
  <2>1. thread'[n][generation[n]] = thread[n][generation[n]]
    BY <1>3, <1>6
  <2>2. Due(n)' <=> Due(n)
    BY <1>2, <2>1 DEF Due, LC!Pending
  <2>3. Expired(n) => Expired(n)'
    BY <1>4, <1>5, <1>6 DEF Expired
  <2>4. Expired(n) /\ Kept(n) => Kept(n)'
    BY <1>2, <1>4, <1>6, <2>1 DEF Expired, Kept, LC!Pending
  <2> QED BY <1>1, <1>2, <1>3, <2>2, <2>3, <2>4, OneRuntime
          DEF MemoryInv, NotEarly, NotNever
<1>7. CASE g = generation[n]
  <2>1. /\ LC!Pending(n, generation[n])' <=>
             x.pc \in {"waiting", "fired", "retry", "locked"}
        /\ LC!Pending(n, generation[n]) <=>
             old \in {"waiting", "fired", "retry", "locked"}
    BY <1>3, <1>7 DEF LC!Pending
  <2>2. ASSUME PathConfigured PROVE Due(n)' /\ Expired(n)'
    <3>1. Due(n) /\ Expired(n)
      BY <2>2 DEF MemoryInv, NotEarly
    <3>2. LC!Pending(n, generation[n]) => sinceUse[n] >= asked[n]
      <4>1. asked[n] \in Delays => asked[n] \in Nat
        BY Longest
      <4>2. sinceUse[n] \in Nat
        BY Longest DEF MemoryInv, MemoryType
      <4> QED BY <1>7, <3>1, <4>1, <4>2 DEF Due
    <3>3. Due(n)'
      <4>1. ASSUME LC!Pending(n, generation[n])'
            PROVE  /\ asked[n] \in Delays /\ memory[n] # {}
                   /\ \A r \in Requests : ~Cares(r, n)
                   /\ sinceUse[n] >= asked[n]
        BY <2>1, <3>1, <3>2, <4>1 DEF Due
      <4>2. LC!Pending(n, generation[n])' => sinceUse[n] + x.left >= asked[n]
        <5>1. sinceUse[n] \in Nat /\ (asked[n] \in Delays => asked[n] \in Nat)
          BY Longest DEF MemoryInv, MemoryType
        <5>2. x.left \in Nat
          BY DEF ThreadRecord
        <5> QED BY <4>1, <5>1, <5>2
      <4> QED BY <1>2, <1>3, <1>7, <4>1, <4>2 DEF Due
    <3>4. Expired(n)'
      <4>1. Unloads(n, g)' => asked[n] \in Delays /\ sinceUse[n] >= asked[n]
        BY <1>5, <2>1, <3>1, <3>2 DEF Due, Expired
      <4> QED BY <1>4, <1>7, <3>1, <4>1 DEF Expired
    <3> QED BY <3>3, <3>4
  <2>3. "tokenizer" \notin FailingParts /\ Kept(n) => Kept(n)'
    <3> SUFFICES ASSUME "tokenizer" \notin FailingParts, Kept(n),
                        memory[n] # {}, asked[n] # None
                 PROVE  Kept(n)'
      BY DEF Kept
    <3>1. CASE LC!Pending(n, generation[n])
      <4>1. LC!Pending(n, generation[n])' \/ Unloads(n, g)'
        BY <1>5, <1>7, <2>1, <3>1
      <4> QED BY <4>1 DEF Kept
    <3>2. CASE Unloads(n, g)
      BY <1>5, <3>2 DEF Kept
    <3>3. ASSUME NEW k \in LC!Generations, k # g, Unloads(n, k)
          PROVE  Kept(n)'
      BY <1>4, <3>3 DEF Kept
    <3>4. ASSUME NEW q \in Requests, Cares(q, n)
          PROVE  Kept(n)'
      BY <1>2, <3>4 DEF Kept
    <3> QED BY <3>1, <3>2, <3>3, <3>4 DEF Kept
  <2> QED BY <1>1, <1>2, <1>3, <2>2, <2>3, OneRuntime
          DEF MemoryInv, NotNever
<1> QED BY <1>6, <1>7

LEMMA QuietTimer ==
  ASSUME MemoryInv, LockInv', NEW n \in Runtimes, NEW g \in LC!Generations,
         \/ TimerFire(n, g) \/ TimerTryLock(n, g)
         \/ TimerCheck(n, g) \/ TimerRelease(n, g)
  PROVE  MemoryInv'
<1>1. /\ UNCHANGED <<generation, memory, asked, sinceUse, call, pc>>
      /\ UNCHANGED <<jobs, todo>>
  BY DEF TimerFire, TimerTryLock, TimerCheck, TimerRelease, LC!Fire,
         LC!LockBusy, LC!LockTaken, LC!RescheduleIfCurrent,
         LC!CheckGeneration, LC!ReleaseLock, workerVars, requestVars
<1>2. Jobs' /\ Todo' /\ OneTts' /\ WholeNllb'
  BY <1>1, JobFrame
<1>3. \A where \in LC!ThreadPc : [pc |-> where, left |-> 0] \in ThreadRecord
  BY DEF ThreadRecord
<1>4. CASE TimerFire(n, g)
  <2>1. /\ thread[n][g].pc = "waiting" /\ thread[n][g].left = 0
        /\ thread' = [thread EXCEPT ![n][g] = [pc |-> "fired", left |-> 0]]
    BY <1>4 DEF TimerFire, LC!Fire, LC!At, LC!Goto
  <2>2. PICK x : x = [pc |-> "fired", left |-> 0]
    OBVIOUS
  <2>3. x \in ThreadRecord /\ x.pc = "fired"
    BY <1>3, <2>2 DEF LC!ThreadPc
  <2> QED BY <1>1, <1>2, <2>1, <2>2, <2>3, TimerMoves DEF MemoryInv
<1>5. CASE TimerTryLock(n, g)
  <2>1. PICK where \in {"retry", "locked"} :
          /\ thread[n][g].pc = "fired"
          /\ thread' = [thread EXCEPT ![n][g] = [pc |-> where, left |-> 0]]
    BY <1>5 DEF TimerTryLock, LC!LockBusy, LC!LockTaken, LC!At, LC!Goto
  <2>2. PICK x : x = [pc |-> where, left |-> 0]
    OBVIOUS
  <2>3. x \in ThreadRecord /\ x.pc = where
    BY <1>3, <2>2 DEF LC!ThreadPc
  <2> QED BY <1>1, <1>2, <2>1, <2>2, <2>3, TimerMoves DEF MemoryInv
<1>6. CASE TimerCheck(n, g)
  <2>1. PICK x \in ThreadRecord :
          /\ thread' = [thread EXCEPT ![n][g] = x]
          /\ \/ /\ thread[n][g].pc = "retry" /\ g # generation[n]
                /\ x.pc = "none"
             \/ /\ thread[n][g].pc = "retry" /\ g = generation[n]
                /\ x.pc = "waiting"
             \/ /\ thread[n][g].pc = "locked" /\ g # generation[n]
                /\ x.pc = "release"
             \/ /\ thread[n][g].pc = "locked" /\ g = generation[n]
                /\ x.pc = "unload"
    <3>1. CASE LC!RescheduleIfCurrent(n, g) /\ g = generation[n]
      <4>1. LC!Waiting(RetryDelay) \in ThreadRecord
        BY LifecycleConstants DEF LC!Waiting, ThreadRecord, LC!ThreadPc
      <4>2. thread' = [thread EXCEPT ![n][g] = LC!Waiting(RetryDelay)]
        BY <3>1 DEF LC!RescheduleIfCurrent, LC!ScheduleUnload
      <4>3. thread[n][g].pc = "retry" /\ LC!Waiting(RetryDelay).pc = "waiting"
        BY <3>1 DEF LC!RescheduleIfCurrent, LC!At, LC!Waiting
      <4> QED BY <3>1, <4>1, <4>2, <4>3
    <3>2. CASE LC!RescheduleIfCurrent(n, g) /\ g # generation[n]
      BY <1>3, <3>2
      DEF LC!RescheduleIfCurrent, LC!At, LC!Goto, LC!ThreadPc
    <3>3. CASE LC!CheckGeneration(n, g)
      BY <1>3, <3>3 DEF LC!CheckGeneration, LC!At, LC!Goto, LC!ThreadPc
    <3> QED BY <1>6, <3>1, <3>2, <3>3 DEF TimerCheck
  <2> QED BY <1>1, <1>2, <2>1, TimerMoves DEF MemoryInv
<1>7. CASE TimerRelease(n, g)
  <2>1. /\ thread[n][g].pc = "release"
        /\ thread' = [thread EXCEPT ![n][g] = [pc |-> "none", left |-> 0]]
    BY <1>7 DEF TimerRelease, LC!ReleaseLock, LC!At, LC!Goto
  <2>2. PICK x : x = [pc |-> "none", left |-> 0]
    OBVIOUS
  <2>3. x \in ThreadRecord /\ x.pc = "none"
    BY <1>3, <2>2 DEF LC!ThreadPc
  <2> QED BY <1>1, <1>2, <2>1, <2>2, <2>3, TimerMoves DEF MemoryInv
<1> QED BY <1>4, <1>5, <1>6, <1>7

LEMMA TimerUnloadMemory ==
  ASSUME MemoryInv, LockInv', NEW n \in Runtimes, NEW g \in LC!Generations,
         TimerUnload(n, g)
  PROVE  MemoryInv'
<1>1. /\ UNCHANGED <<generation, memory, asked, sinceUse, call, pc>>
      /\ UNCHANGED todo /\ thread[n][g].pc = "unload"
  BY DEF TimerUnload, LC!StartUnload, LC!At, requestVars
<1>2. jobs = <<>> /\ LockInv
  <2>1. <<n, g>> \in TimerThreads /\ TimerHolds(<<n, g>>)
    BY <1>1 DEF TimerThreads, TimerHolds
  <2> QED BY <1>1, <2>1, NoJobForTimer DEF MemoryInv
<1>3. \A where \in LC!ThreadPc : [pc |-> where, left |-> 0] \in ThreadRecord
  BY DEF ThreadRecord
<1>4. CASE IsLoaded(n)
  <2>1. PICK x : x = [pc |-> "unloading", left |-> 0]
    OBVIOUS
  <2>2. x \in ThreadRecord /\ x.pc = "unloading"
    BY <1>3, <2>1 DEF LC!ThreadPc
  <2>3. thread' = [thread EXCEPT ![n][g] = x]
    BY <1>4, <2>1 DEF TimerUnload, LC!StartUnload, LC!Goto
  <2>4. Streams' /\ Fallbacks' /\ MemoryType' /\ NotEarly' /\ NotNever'
    BY <1>1, <2>2, <2>3, TimerMoves
  <2>5. PICK j : j = Job(<<n, g>>, "unload", n, None)
    OBVIOUS
  <2>6. j \in JobRecord /\ OwnRuntime(j)'
    BY <2>5, NamesDiffer
    DEF Job, JobRecord, OwnRuntime, Callers, TimerThreads
  <2>7. Jobs' /\ Todo' /\ OneTts' /\ WholeNllb'
    BY <1>1, <1>2, <1>4, <2>5, <2>6, SubmitFrame DEF TimerUnload
  <2> QED BY <2>4, <2>7 DEF MemoryInv
<1>5. CASE ~IsLoaded(n)
  <2>1. PICK x : x = [pc |-> "release", left |-> 0]
    OBVIOUS
  <2>2. x \in ThreadRecord /\ x.pc = "release"
    BY <1>3, <2>1 DEF LC!ThreadPc
  <2>3. thread' = [thread EXCEPT ![n][g] = x]
    BY <1>5, <2>1 DEF TimerUnload, LC!StartUnload, LC!Goto
  <2>4. "tokenizer" \notin FailingParts => memory[n] = {}
    BY <1>2, <1>5, NotLoadedIsEmpty
  <2>5. Streams' /\ Fallbacks' /\ MemoryType' /\ NotEarly' /\ NotNever'
    BY <1>1, <2>2, <2>3, <2>4, TimerMoves
  <2>6. Jobs' /\ Todo' /\ OneTts' /\ WholeNllb'
    BY <1>1, <1>5, JobFrame DEF TimerUnload
  <2> QED BY <2>5, <2>6 DEF MemoryInv
<1> QED BY <1>4, <1>5

(* A second passes: what a timer has left to wait, its runtime gains.       *)
LEMMA TickMemory ==
  ASSUME MemoryInv, LockInv', Tick
  PROVE  MemoryInv'
<1>1. /\ UNCHANGED <<generation, memory, asked, call, pc, jobs, todo>> /\ LockInv
      /\ thread' = [n \in Runtimes |-> [g \in LC!Generations |->
                      [thread[n][g] EXCEPT !.left = LC!Less(@)]]]
      /\ sinceUse' = [n \in Runtimes |->
                        IF memory[n] # {} /\ sinceUse[n] < Max(Delays)
                        THEN sinceUse[n] + 1 ELSE sinceUse[n]]
  BY DEF Tick, LC!Tick, requestVars, MemoryInv
<1>2. Jobs' /\ Todo' /\ OneTts' /\ WholeNllb' /\ Streams' /\ Fallbacks'
  BY <1>1, JobFrame DEF MemoryInv, Streams, Fallbacks
<1> PICK longest : longest = Max(Delays)
  OBVIOUS
<1>3. longest \in Nat /\ \A d \in Delays : d \in Nat /\ d <= longest
  BY Longest
<1>4. ASSUME NEW n \in Runtimes
      PROVE  /\ sinceUse[n] \in 0..longest /\ sinceUse'[n] \in 0..longest
             /\ sinceUse'[n] >= sinceUse[n]
             /\ memory[n] # {} =>
                  sinceUse'[n] = longest \/ sinceUse'[n] = sinceUse[n] + 1
  <2>1. sinceUse[n] \in 0..longest
    BY DEF MemoryInv, MemoryType
  <2>2. sinceUse'[n] = IF memory[n] # {} /\ sinceUse[n] < longest
                       THEN sinceUse[n] + 1 ELSE sinceUse[n]
    BY <1>1
  <2> QED BY <1>3, <2>1, <2>2
<1>5. MemoryType'
  BY <1>1, <1>4 DEF MemoryInv, MemoryType
<1>6. ASSUME NEW n \in Runtimes, NEW g \in LC!Generations
      PROVE  /\ thread'[n][g].pc = thread[n][g].pc
             /\ thread[n][g].left \in Nat
             /\ thread'[n][g].left = LC!Less(thread[n][g].left)
  <2>1. thread[n][g] \in ThreadRecord
    BY <1>1 DEF LockInv, LockType
  <2>2. thread'[n][g] = [thread[n][g] EXCEPT !.left = LC!Less(@)]
    BY <1>1
  <2> QED BY <2>1, <2>2 DEF ThreadRecord
<1>7. \A n \in Runtimes, q \in Requests : Cares(q, n)' <=> Cares(q, n)
  BY <1>1 DEF Cares, Of
<1>8. ASSUME NEW n \in Runtimes
      PROVE  /\ Due(n) => Due(n)'
             /\ Expired(n) => Expired(n)'
             /\ Kept(n) => Kept(n)'
  <2>1. generation[n] \in LC!Generations
    BY <1>1 DEF LockInv, Fresh
  <2>2. /\ LC!Pending(n, generation[n])' <=> LC!Pending(n, generation[n])
        /\ \A g \in LC!Generations : Unloads(n, g)' <=> Unloads(n, g)
    BY <1>1, <1>6, <2>1 DEF LC!Pending, Unloads
  <2>3. asked[n] \in Delays /\ sinceUse[n] >= asked[n] => sinceUse'[n] >= asked[n]
    BY <1>3, <1>4
  <2>4. ASSUME asked[n] \in Delays, memory[n] # {},
               sinceUse[n] + thread[n][generation[n]].left >= asked[n]
        PROVE  sinceUse'[n] + thread'[n][generation[n]].left >= asked[n]
    <3>1. PICK before, after \in Nat : /\ before = thread[n][generation[n]].left
                                       /\ after = thread'[n][generation[n]].left
                                       /\ after = LC!Less(before) /\ before \in Nat
      BY <1>6, <2>1 DEF LC!Less
    <3>2. after + 1 >= before
      BY <3>1 DEF LC!Less
    <3> QED BY <1>3, <1>4, <2>4, <3>1, <3>2
  <2>5. Due(n) => Due(n)'
    BY <1>1, <1>6, <1>7, <2>1, <2>2, <2>3, <2>4 DEF Due
  <2>6. Expired(n) => Expired(n)'
    BY <1>1, <2>2, <2>3 DEF Expired
  <2>7. Kept(n) => Kept(n)'
    BY <1>1, <1>7, <2>2 DEF Kept
  <2> QED BY <2>5, <2>6, <2>7
<1>9. NotEarly' /\ NotNever'
  BY <1>8 DEF MemoryInv, NotEarly, NotNever
<1> QED BY <1>2, <1>5, <1>9 DEF MemoryInv
-----------------------------------------------------------------------------
LEMMA NextMemory == MemoryInv /\ [Next]_vars => MemoryInv'
<1> SUFFICES ASSUME MemoryInv, [Next]_vars PROVE MemoryInv'
  OBVIOUS
<1>1. LockInv'
  BY NextLock DEF MemoryInv
<1>2. ASSUME NEW r \in Requests,
             Arrive(r) \/ HandlerStep(r) \/ ClientStep(r) \/ Orphan(r)
      PROVE  MemoryInv'
  BY <1>1, <1>2, HandlerSteps, SubmitSteps, BeginStep, FinishStep
  DEF HandlerStep, ClientStep
<1>3. CASE WorkerStep
  BY <1>1, <1>3, StartJobStep, LoadPartStep, JobSteps, PutChunkStep,
     UnloadForStep, UnloadForTimerMemory
  DEF WorkerStep
<1>4. ASSUME NEW n \in Runtimes, NEW g \in LC!Generations, TimerStep(n, g)
      PROVE  MemoryInv'
  BY <1>1, <1>4, QuietTimer, TimerUnloadMemory DEF TimerStep
<1>5. CASE Tick
  BY <1>1, <1>5, TickMemory
<1>6. CASE UNCHANGED vars
  <2>1. /\ UNCHANGED <<generation, thread, memory, asked, sinceUse>>
        /\ UNCHANGED <<jobs, todo, call, pc>>
    BY <1>6 DEF vars, lifecycleVars, workerVars, requestVars
  <2>2. \A q \in Requests, n \in Runtimes : Cares(q, n)' <=> Cares(q, n)
    BY <2>1 DEF Cares, Of
  <2>3. Streams' /\ Fallbacks'
    BY <2>1 DEF MemoryInv, Streams, Fallbacks
  <2> QED BY <1>1, <2>1, <2>2, <2>3, IdleFrame, JobFrame DEF MemoryInv
<1> QED BY <1>2, <1>3, <1>4, <1>5, <1>6 DEF Next

(* The inductive invariant about the models in memory and their timers.     *)
THEOREM MemoryInvariant == Spec => []MemoryInv
<1>1. Init => MemoryInv
  BY InitMemory
<1>2. MemoryInv /\ [Next]_vars => MemoryInv'
  BY NextMemory
<1> QED BY <1>1, <1>2, PTL DEF Spec

(* Whatever is asked for and whatever fails to load, TTS holds one model.   *)
THEOREM OneTtsHolds == Spec => []OneTtsModel
<1>1. MemoryInv => OneTtsModel
  <2> SUFFICES ASSUME MemoryInv, "tts" \in Runtimes
               PROVE  Cardinality(memory["tts"]) <= 1
    BY DEF OneTtsModel
  <2>1. CASE memory["tts"] = {}
    BY <2>1, FS_EmptySet
  <2>2. CASE \E m : memory["tts"] = {m}
    BY <2>2, FS_Singleton
  <2> QED BY <2>1, <2>2 DEF MemoryInv, OneTts
<1> QED BY <1>1, MemoryInvariant, PTL

(* Where the path of the NLLB model is configured, no timer unloads a model *)
(* before its keep-alive is over: the fallback of a translation to the LLM  *)
(* is the only way to an early unload.                                      *)
THEOREM NoEarlyUnload ==
  ASSUME PathConfigured
  PROVE  Spec => []UnloadOnlyWhenIdle
<1>1. MemoryInv => UnloadOnlyWhenIdle
  BY DEF MemoryInv, NotEarly, Expired, UnloadOnlyWhenIdle, Unloads, LC!At
<1> QED BY <1>1, MemoryInvariant, PTL

(* If moreover the tokenizer of NLLB does not fail to load, no model is     *)
(* left in memory without a timer: the fallback and the half-loaded NLLB    *)
(* are the only ways to one.                                                *)
THEOREM NothingIsForgotten ==
  ASSUME PathConfigured, "tokenizer" \notin FailingParts
  PROVE  Spec => []IdleMemoryIsScheduled
<1>1. MemoryInv => IdleMemoryIsScheduled
  <2> SUFFICES ASSUME MemoryInv, NEW n \in Runtimes, ~lockHeld,
                      memory[n] # {}, asked[n] # None
               PROVE  LC!Pending(n, generation[n])
    BY DEF IdleMemoryIsScheduled
  <2>1. Holders = {}
    BY DEF MemoryInv, LockInv, Exclusive
  <2>2. \A r \in Requests : ~Cares(r, n)
    BY <2>1, CaringHolds DEF Holders, Cares
  <2>3. ASSUME NEW g \in LC!Generations, Unloads(n, g) PROVE FALSE
    <3>1. <<n, g>> \in TimerThreads /\ TimerHolds(<<n, g>>)
      BY <2>3 DEF TimerThreads, TimerHolds, Unloads
    <3> QED BY <2>1, <3>1 DEF Holders
  <2> QED BY <2>2, <2>3 DEF MemoryInv, NotNever, Kept
<1> QED BY <1>1, MemoryInvariant, PTL
-----------------------------------------------------------------------------
(* What is left for the type invariant: the timers' own state, and the pool *)
(* and the streams of the requests.                                         *)
Clocks ==
  /\ timer \in [Runtimes -> LC!Generations \cup {None}]
  /\ unloadAt \in [Runtimes -> Nat \cup {None}]
  /\ keepAlive \in [Runtimes -> LC!KeepAlives]

Streaming ==
  /\ pool \subseteq Requests
  /\ chunks \in [Requests -> 0..MaxChunks]

LEMMA ClocksNext ==
  ASSUME Clocks, LockInv, LC!Next
  PROVE  Clocks'
<1>1. ASSUME NEW n \in Runtimes, LC!BeginRequest(n)
      PROVE  Clocks'
  BY <1>1 DEF LC!BeginRequest, Clocks
<1>2. ASSUME NEW n \in Runtimes, NEW ka \in LC!KeepAlives,
             NEW isLoaded \in BOOLEAN, LC!FinishRequest(n, ka, isLoaded)
      PROVE  Clocks'
  <2>1. generation[n] + 1 \in LC!Generations
    BY <1>2, LifecycleConstants
    DEF LC!FinishRequest, LockInv, Fresh, LC!Generations
  <2>2. keepAlive' \in [Runtimes -> LC!KeepAlives]
    BY <1>2 DEF LC!FinishRequest, Clocks
  <2>3. /\ timer' \in [Runtimes -> LC!Generations \cup {None}]
        /\ unloadAt' \in [Runtimes -> Nat \cup {None}]
    BY <1>2, <2>1, LifecycleConstants
    DEF LC!FinishRequest, LC!ScheduleUnload, Clocks
  <2> QED BY <2>2, <2>3 DEF Clocks
<1>3. ASSUME NEW n \in Runtimes, NEW g \in LC!Generations, LC!TimerStep(n, g)
      PROVE  Clocks'
  BY <1>3, LifecycleConstants
  DEF LC!TimerStep, LC!Fire, LC!LockBusy, LC!LockTaken, LC!RescheduleIfCurrent,
      LC!CheckGeneration, LC!StartUnload, LC!EndUnload, LC!ReleaseLock,
      LC!ScheduleUnload, Clocks
<1>4. CASE LC!Tick
  <2>1. \A s \in Nat : LC!Less(s) \in Nat
    BY DEF LC!Less
  <2> QED BY <1>4, <2>1 DEF LC!Tick, Clocks
<1> QED BY <1>1, <1>2, <1>3, <1>4 DEF LC!Next, LC!RequestStep

LEMMA StreamingNext ==
  ASSUME Streaming, MemoryInv, Next
  PROVE  Streaming'
<1> USE DEF Streaming, lifecycleVars, workerVars, requestVars
<1>1. MaxChunks \in Nat
  BY ServerAssumption DEF ServerAssumption
<1>2. ASSUME NEW r \in Requests,
             Arrive(r) \/ HandlerStep(r) \/ ClientStep(r) \/ Orphan(r)
      PROVE  Streaming'
  <2>1. CASE Pull(r)
    BY <1>1, <2>1 DEF Pull, TakeThread
  <2>2. CASE ~Pull(r)
    BY <1>2, <2>2
    DEF Arrive, HandlerStep, ClientStep, Orphan, Reject, Start, AcquireLock,
        AcquireTimeout, Begin, RunJob, Fallback, Finish, UnloadNow, Release,
        Open, Receive, Close, Read, Disconnect, TakeThread, LeaveThread
  <2> QED BY <2>1, <2>2
<1>3. CASE PutChunk
  <2>1. Head1.caller \in Requests
    BY <1>3, HeadJobRuntime DEF PutChunk
  <2>2. \A k \in 0..MaxChunks : k > 0 => k - 1 \in 0..MaxChunks
    BY <1>1
  <2> QED BY <1>3, <2>1, <2>2 DEF PutChunk
<1>4. CASE WorkerStep /\ ~PutChunk
  BY <1>4
  DEF WorkerStep, StartJob, LoadPart, EndInference, EndStream, StopStream,
      UnloadFor, UnloadForTimer, LeaveThread
<1>5. CASE \/ \E n \in Runtimes, g \in LC!Generations : TimerStep(n, g)
           \/ Tick
  BY <1>5
  DEF TimerStep, TimerFire, TimerTryLock, TimerCheck, TimerUnload,
      TimerRelease, Tick
<1> QED BY <1>2, <1>3, <1>4, <1>5 DEF Next

(* All the rest follows.                                                    *)
LEMMA TypesTogether == MemoryInv /\ Clocks /\ Streaming => TypeOK
<1> SUFFICES ASSUME MemoryInv, Clocks, Streaming PROVE TypeOK
  OBVIOUS
<1>1. LockInv /\ LockType /\ Fresh /\ MemoryType
  BY DEF MemoryInv, LockInv
<1>2. LC!TypeOK
  BY <1>1 DEF Clocks, Fresh, LockType, ThreadRecord, LC!TypeOK
<1>3. jobs \in Seq(JobRecord)
  <2>1. CASE jobs = <<>>
    BY <2>1
  <2>2. CASE jobs # <<>>
    <3>1. jobs = <<Head1>> /\ Head1 \in JobRecord
      BY <1>1, <2>2, HeadJob DEF MemoryInv, Jobs
    <3>2. \A j \in JobRecord : <<j>> \in Seq(JobRecord)
      OBVIOUS
    <3> QED BY <3>1, <3>2
  <2> QED BY <2>1, <2>2
<1>4. todo \in Seq(Parts) \cup {None}
  <2>1. CASE todo # None /\ todo # <<>> /\ Head1.runtime = "translation"
    <3>1. todo \in {<<"translator", "tokenizer">>, <<"tokenizer">>}
      BY <2>1 DEF MemoryInv, Todo
    <3>2. <<"translator", "tokenizer">> \in Seq(Parts) /\ <<"tokenizer">> \in Seq(Parts)
      BY DEF Parts
    <3> QED BY <3>1, <3>2
  <2>2. CASE todo # None /\ todo # <<>> /\ Head1.runtime # "translation"
    <3>1. PICK m \in ModelsOf(Head1.runtime) : todo = <<m>>
      BY <2>2 DEF MemoryInv, Todo
    <3>2. m \in Parts
      BY <2>2 DEF ModelsOf, Parts
    <3> QED BY <3>1, <3>2
  <2>3. CASE todo = None \/ todo = <<>>
    <3>1. <<>> \in Seq(Parts)
      OBVIOUS
    <3> QED BY <2>3, <3>1
  <2> QED BY <2>1, <2>2, <2>3
<1> QED BY <1>1, <1>2, <1>3, <1>4
        DEF TypeOK, LockType, MemoryType, Streaming, JobRecord

(* Every variable of the server has its type.                               *)
THEOREM TypeCorrect == Spec => []TypeOK
<1>1. Init => Clocks /\ Streaming
  BY ServerAssumption
  DEF Init, LC!Init, LC!KeepAlives, LC!Generations, Clocks, Streaming,
      ServerAssumption
<1>2. MemoryInv /\ Clocks /\ Streaming /\ [Next]_vars => Clocks' /\ Streaming'
  <2> SUFFICES ASSUME MemoryInv, Clocks, Streaming, [Next]_vars
               PROVE  Clocks' /\ Streaming'
    OBVIOUS
  <2>1. LockInv
    BY DEF MemoryInv
  <2>2. LC!Next \/ UNCHANGED <<timer, unloadAt, keepAlive>>
    BY <2>1, LifecycleStep DEF LC!lifecycleVars
  <2>3. Clocks'
    BY <2>1, <2>2, ClocksNext DEF Clocks
  <2>4. CASE UNCHANGED vars
    BY <2>3, <2>4 DEF vars, requestVars, Streaming
  <2> QED BY <2>3, <2>4, StreamingNext
<1> QED BY <1>1, <1>2, MemoryInvariant, TypesTogether, PTL DEF Spec
-----------------------------------------------------------------------------
(* The refinement of KeepAlivePolicy.  Every step of the server that moves  *)
(* the model of a runtime moves it as the policy allows, and all the others *)
(* leave every model where it is.                                           *)
(*                                                                          *)
(* The lifecycles inside the server are those of module Lifecycle, so that  *)
(* what is proved of its steps can be used of theirs.                       *)
LCP == INSTANCE LifecycleProofs

LEMMA SameConstants == LCP!LifecycleAssumption
BY ServerAssumption
DEF ServerAssumption, LC!LifecycleAssumption, LCP!LifecycleAssumption

LEMMA SameSteps ==
  [LC!Next]_(LC!lifecycleVars) => [LCP!Next]_(LCP!lifecycleVars)
BY DEF LC!Next, LC!RequestStep, LC!BeginRequest, LC!FinishRequest, LC!TimerStep,
       LC!Fire, LC!LockBusy, LC!LockTaken, LC!RescheduleIfCurrent,
       LC!CheckGeneration, LC!StartUnload, LC!EndUnload, LC!ReleaseLock, LC!Tick,
       LC!ScheduleUnload, LC!CancelTimer, LC!At, LC!Goto, LC!Waiting, LC!NoThread,
       LC!Less, LC!KeepAlives, LC!Generations, LC!lifecycleVars,
       LCP!Next, LCP!RequestStep, LCP!BeginRequest, LCP!FinishRequest,
       LCP!TimerStep, LCP!Fire, LCP!LockBusy, LCP!LockTaken,
       LCP!RescheduleIfCurrent, LCP!CheckGeneration, LCP!StartUnload,
       LCP!EndUnload, LCP!ReleaseLock, LCP!Tick, LCP!ScheduleUnload,
       LCP!CancelTimer, LCP!At, LCP!Goto, LCP!Waiting, LCP!NoThread, LCP!Less,
       LCP!KeepAlives, LCP!Generations, LCP!lifecycleVars

(* begin_request and finish_request start a generation that has no thread   *)
(* yet.                                                                     *)
LEMMA NextGeneration ==
  ASSUME LockInv, NEW n \in Runtimes, generation[n] < MaxGeneration,
         generation' = [generation EXCEPT ![n] = @ + 1]
  PROVE  /\ generation'[n] = generation[n] + 1
         /\ generation'[n] \in LC!Generations
         /\ LC!CancelTimer(n)[generation'[n]].pc = "none"
<1>1. /\ generation[n] \in Nat /\ generation[n] + 1 \in LC!Generations
      /\ generation'[n] = generation[n] + 1 /\ generation'[n] > generation[n]
  BY LifecycleConstants DEF LockInv, Fresh, LC!Generations
<1>2. thread[n][generation'[n]].pc = "none"
  BY <1>1 DEF LockInv, Fresh, FreshGeneration
<1> QED BY <1>1, <1>2, CancelKeeps DEF LockInv

(* What the timers add to the memory for the policy: a thread that does not *)
(* wait has no time left.                                                   *)
PolicyInv == MemoryInv /\ LCP!IInv

(* A timer thread that no longer waits, or never started, has no time left. *)
LEMMA NoTimeLeft ==
  ASSUME LCP!IInv, NEW n \in Runtimes, NEW g \in LC!Generations,
         thread[n][g].pc # "waiting"
  PROVE  thread[n][g].left = 0
BY DEF LCP!IInv, LCP!RuntimeInv, LCP!OnlyWaitingCounts, LCP!At,
       LCP!Generations, LC!Generations

(* Both parts hold throughout: the lifecycles of the server take steps of   *)
(* Lifecycle only.                                                          *)
LEMMA PolicyInvHolds == Spec => []PolicyInv
<1>1. Init => LCP!IInv
  BY SameConstants, LCP!InitInv
  DEF Init, LC!Init, LCP!Init, LC!Generations, LCP!Generations, LC!NoThread,
      LCP!NoThread
<1>2. MemoryInv /\ LCP!IInv /\ [Next]_vars => LCP!IInv'
  BY LifecycleStep, SameSteps, SameConstants, LCP!NextInv DEF MemoryInv
<1>3. Init => PolicyInv
  BY <1>1, InitMemory DEF PolicyInv
<1>4. PolicyInv /\ [Next]_vars => PolicyInv'
  BY <1>2, NextMemory DEF PolicyInv
<1> QED BY <1>3, <1>4, PTL DEF Spec

(* One runtime moves, or none.                                              *)
LEMMA PolicyMove ==
  ASSUME NEW n \in Runtimes, NEW where, NEW seconds,
         Place(n)' = where, Left(n)' = seconds,
         \A m \in Runtimes : m # n => Place(m)' = Place(m) /\ Left(m)' = Left(m)
  PROVE  Policy!Move(n, where, seconds)
BY DEF Policy!Move

(* A step that moves no model and sets no keep-alive is none of the policy. *)
LEMMA PolicyStutters ==
  ASSUME \A n \in Runtimes : Place(n)' = Place(n) /\ Left(n)' = Left(n),
         UNCHANGED keepAlive
  PROVE  UNCHANGED Policy!policyVars
BY DEF Policy!policyVars


(* What the place of a model depends on. Its memory may change unseen while *)
(* a request uses it.                                                       *)
LEMMA SamePlace ==
  ASSUME NEW n \in Runtimes,
         \A r \in Requests : Uses(r, n)' <=> Uses(r, n),
         \A r \in Requests : UnloadsAtOnce(r, n)' <=> UnloadsAtOnce(r, n),
         LC!Pending(n, generation[n])' <=> LC!Pending(n, generation[n]),
         Unloads(n, generation[n])' <=> Unloads(n, generation[n]),
         LC!Pending(n, generation[n]) =>
           thread'[n][generation'[n]].left = thread[n][generation[n]].left,
         \/ memory'[n] = {} <=> memory[n] = {}
         \/ \E r \in Requests : Uses(r, n)
  PROVE  Place(n)' = Place(n) /\ Left(n)' = Left(n)
<1>1. Place(n)' = Place(n)
  BY DEF Place, Leaves, Unloads
<1>2. Place(n) = "warm" => LC!Pending(n, generation[n])
  BY DEF Place
<1> QED BY <1>1, <1>2 DEF Left

(* What becomes of a runtime that no step touches.                          *)
LEMMA SameRuntimePlace ==
  ASSUME NEW n \in Runtimes, thread'[n] = thread[n],
         generation'[n] = generation[n],
         \A r \in Requests : Uses(r, n)' <=> Uses(r, n),
         \A r \in Requests : UnloadsAtOnce(r, n)' <=> UnloadsAtOnce(r, n),
         \/ memory'[n] = memory[n]
         \/ \E r \in Requests : Uses(r, n)
  PROVE  Place(n)' = Place(n) /\ Left(n)' = Left(n)
<1>1. /\ LC!Pending(n, generation[n])' <=> LC!Pending(n, generation[n])
      /\ Unloads(n, generation[n])' <=> Unloads(n, generation[n])
      /\ thread'[n][generation'[n]].left = thread[n][generation[n]].left
  BY DEF LC!Pending, Unloads
<1> QED BY <1>1, SamePlace

(* Who uses a model, or unloads it at once, cares for it.                   *)
LEMMA UsersCare ==
  ASSUME NEW r \in Requests, NEW n \in Runtimes
  PROVE  Uses(r, n) \/ UnloadsAtOnce(r, n) <=> Cares(r, n)
BY DEF Uses, UnloadsAtOnce, Cares, Caring

(* A timer that is pending keeps a model warm.                              *)
LEMMA PendingIsWarm ==
  ASSUME MemoryInv, PathConfigured, NEW n \in Runtimes,
         LC!Pending(n, generation[n])
  PROVE  /\ Place(n) = "warm" /\ memory[n] # {}
         /\ Left(n) = thread[n][generation[n]].left
         /\ \A r \in Requests : ~Uses(r, n) /\ ~UnloadsAtOnce(r, n)
<1>1. memory[n] # {} /\ \A r \in Requests : ~Cares(r, n)
  BY DEF MemoryInv, NotEarly, Due
<1>2. ~Unloads(n, generation[n])
  BY DEF LC!Pending, Unloads
<1>3. Place(n) = "warm"
  BY <1>1, <1>2, UsersCare DEF Place, Leaves, Unloads
<1> QED BY <1>1, <1>3, UsersCare DEF Left

(* Nobody acts: no model is in use or on its way out.                       *)
LEMMA NobodyActs ==
  ASSUME MemoryInv, \A r \in Requests : pc[r] \notin Caring,
         \A n \in Runtimes, g \in LC!Generations : ~Unloads(n, g)
  PROVE  Policy!Quiet
<1>1. ASSUME NEW n \in Runtimes
      PROVE  Place(n) \in {"out", "warm", "kept"}
  <2>1. generation[n] \in LC!Generations
    BY DEF MemoryInv, LockInv, Fresh
  <2>2. ~Unloads(n, generation[n])
    BY <2>1
  <2>3. \A r \in Requests : ~Uses(r, n) /\ ~UnloadsAtOnce(r, n)
    BY UsersCare DEF Cares
  <2> QED BY <2>2, <2>3 DEF Place, Leaves, Unloads
<1> QED BY <1>1 DEF Policy!Quiet

(* A request moves on with what it has.                                     *)
Using     == {"created", "orphaned", "suspended", "ready", "pulling", "closing",
              "submit", "running", "fallback", "finish"}
Dropping  == {"unload_now", "unloading"}

LEMMA RequestStutters ==
  ASSUME LockInv, NEW r \in Requests, NEW where, Goto(r, where),
         pc[r] \in Using <=> where \in Using,
         pc[r] \in Dropping <=> where \in Dropping,
         \A q \in Requests : pc[q] # "idle" => call'[q] = call[q],
         UNCHANGED <<generation, thread, memory, keepAlive>>
  PROVE  UNCHANGED Policy!policyVars
<1>1. /\ pc'[r] = where
      /\ \A q \in Requests : q # r => pc'[q] = pc[q]
  BY DEF LockInv, LockType, Goto
<1>2. ASSUME NEW q \in Requests, NEW n \in Runtimes
      PROVE  /\ Uses(q, n)' <=> Uses(q, n)
             /\ UnloadsAtOnce(q, n)' <=> UnloadsAtOnce(q, n)
  <2>1. pc[q] # "idle" => Of(q)' = Of(q)
    BY DEF Of
  <2>2. /\ pc'[q] \in Using <=> pc[q] \in Using
        /\ pc'[q] \in Dropping <=> pc[q] \in Dropping
    BY <1>1
  <2> QED BY <2>1, <2>2 DEF Uses, UnloadsAtOnce, Using, Dropping
<1> QED BY <1>2, SameRuntimePlace, PolicyStutters

(* Admission, lock, time-out, submission and the stream between its chunks  *)
(* are such steps.                                                          *)
LEMMA HandlersStutter ==
  ASSUME MemoryInv, NEW r \in Requests,
         \/ Arrive(r) \/ Reject(r) \/ Start(r) \/ AcquireLock(r)
         \/ AcquireTimeout(r) \/ Release(r) \/ Open(r) \/ Receive(r)
         \/ Read(r) \/ Disconnect(r) \/ Orphan(r) \/ Close(r)
         \/ RunJob(r) \/ Fallback(r) \/ UnloadNow(r) \/ Pull(r)
  PROVE  UNCHANGED Policy!policyVars
<1> USE DEF At, Using, Dropping
<1>1. UNCHANGED <<generation, thread, memory, keepAlive>>
  BY DEF Arrive, Reject, Start, AcquireLock, AcquireTimeout, Release, Open,
         Receive, Read, Disconnect, Orphan, Close, RunJob, Fallback, UnloadNow,
         Pull, lifecycleVars, workerVars
<1>2. \A q \in Requests : pc[q] # "idle" => call'[q] = call[q]
  BY DEF Arrive, Reject, Start, AcquireLock, AcquireTimeout, Release, Open,
         Receive, Read, Disconnect, Orphan, Close, RunJob, Fallback, UnloadNow,
         Pull, MemoryInv, LockInv, LockType
<1>3. \E where : /\ Goto(r, where)
                 /\ pc[r] \in Using <=> where \in Using
                 /\ pc[r] \in Dropping <=> where \in Dropping
  BY DEF Arrive, Reject, Start, AcquireLock, AcquireTimeout, Release, Open,
         Receive, Read, Disconnect, Orphan, Close, RunJob, Fallback, UnloadNow,
         Pull
<1> QED BY <1>1, <1>2, <1>3, RequestStutters DEF MemoryInv

(* begin_request: the model is used from now on.                            *)
LEMMA BeginUses ==
  ASSUME MemoryInv, NEW r \in Requests, Begin(r)
  PROVE  Policy!Next
<1> PICK n : n = Of(r)
  OBVIOUS
<1> USE DEF At, Goto, workerVars
<1>1. /\ LockInv /\ pc[r] = "begin" /\ RequestHolds(r) /\ n \in Runtimes
      /\ UNCHANGED <<call, memory, keepAlive>>
      /\ \A q \in Requests : Of(q)' = Of(q)
      /\ LC!BeginRequest(n)
  BY CallNames DEF Begin, LC!BeginRequest, MemoryInv, RequestHolds, Of
<1>2. /\ pc'[r] \in {"created", "submit"}
      /\ \A q \in Requests : q # r => pc'[q] = pc[q]
  BY DEF Begin, MemoryInv, LockInv, LockType
<1>3. Policy!Quiet
  <2>1. \A q \in Requests : pc[q] \notin Caring
    BY <1>1, Alone, CaringHolds DEF Caring
  <2> QED BY <1>1, <2>1, Alone, NobodyActs
<1>4. Place(n)' = "used" /\ Left(n)' = 0
  <2>1. Uses(r, n)'
    BY <1>1, <1>2 DEF Uses
  <2>2. Place(n)' = "used"
    BY <2>1 DEF Place
  <2> QED BY <2>2 DEF Left
<1>5. ASSUME NEW m \in Runtimes, m # n
      PROVE  Place(m)' = Place(m) /\ Left(m)' = Left(m)
  <2>1. thread'[m] = thread[m] /\ generation'[m] = generation[m]
    BY <1>1, <1>5 DEF LC!BeginRequest
  <2>2. ASSUME NEW q \in Requests
        PROVE  /\ Uses(q, m)' <=> Uses(q, m)
               /\ UnloadsAtOnce(q, m)' <=> UnloadsAtOnce(q, m)
    BY <1>1, <1>2, <1>5 DEF Uses, UnloadsAtOnce
  <2> QED BY <1>1, <2>1, <2>2, SameRuntimePlace
<1>6. Policy!Move(n, "used", 0)
  BY <1>1, <1>4, <1>5, PolicyMove
<1>7. Policy!Use(n)
  BY <1>1, <1>3, <1>6 DEF Policy!Use
<1> QED BY <1>1, <1>7 DEF Policy!Next

(* finish_request: the model leaves at once, stays for its keep-alive or    *)
(* for good, or was not loaded.                                             *)
LEMMA FinishEnds ==
  ASSUME PolicyInv, "tokenizer" \notin FailingParts, NEW r \in Requests, Finish(r)
  PROVE  Policy!Next
<1> PICK n, ka : n = Of(r) /\ ka = call[r].keepAlive
  OBVIOUS
<1> USE DEF At, Goto
<1>1. /\ MemoryInv /\ LockInv /\ pc[r] = "finish" /\ RequestHolds(r)
      /\ n \in Runtimes /\ ka \in LC!KeepAlives
      /\ UNCHANGED <<call, memory>>
      /\ \A q \in Requests : Of(q)' = Of(q)
      /\ LC!FinishRequest(n, ka, IsLoaded(n))
  BY CallNames DEF Finish, PolicyInv, MemoryInv, RequestHolds, Of
<1>2. /\ pc'[r] = IF IsLoaded(n) /\ ka = 0 THEN "unload_now" ELSE "release"
      /\ \A q \in Requests : q # r => pc'[q] = pc[q] /\ pc[q] \notin Caring
  BY <1>1, Alone, CaringHolds DEF Finish, LC!UnloadsNow, LockInv, LockType
<1>3. Place(n) = "used"
  <2>1. Uses(r, n)
    BY <1>1 DEF Uses
  <2> QED BY <2>1 DEF Place
<1>4. /\ generation'[n] \in LC!Generations
      /\ generation'[n] = generation[n] + 1
      /\ LC!CancelTimer(n)[generation'[n]].pc = "none"
      /\ LC!CancelTimer(n) \in [LC!Generations -> ThreadRecord]
      /\ \A m \in Runtimes : m # n => generation'[m] = generation[m]
  <2>1. /\ generation[n] < MaxGeneration
        /\ generation' = [generation EXCEPT ![n] = @ + 1]
        /\ generation \in [Runtimes -> LC!Generations] /\ LockType
    BY <1>1 DEF LC!FinishRequest, LockInv, Fresh
  <2>2. LockInv /\ n \in Runtimes
    BY <1>1
  <2>3. /\ generation'[n] \in LC!Generations
        /\ generation'[n] = generation[n] + 1
        /\ LC!CancelTimer(n)[generation'[n]].pc = "none"
    BY <2>1, <2>2, NextGeneration
  <2>4. LC!CancelTimer(n) \in [LC!Generations -> ThreadRecord]
    BY <2>1, <2>2, CancelKeeps
  <2>5. \A m \in Runtimes : m # n => generation'[m] = generation[m]
    BY <2>1
  <2> QED BY <2>3, <2>4, <2>5
<1>5. ASSUME NEW m \in Runtimes, m # n
      PROVE  Place(m)' = Place(m) /\ Left(m)' = Left(m)
  <2>1. thread'[m] = thread[m]
    BY <1>1, <1>5 DEF LC!FinishRequest, LC!ScheduleUnload, LockInv, LockType
  <2>2. ASSUME NEW q \in Requests
        PROVE  /\ Uses(q, m)' <=> Uses(q, m)
               /\ UnloadsAtOnce(q, m)' <=> UnloadsAtOnce(q, m)
    BY <1>1, <1>2, <1>5 DEF Uses, UnloadsAtOnce
  <2> QED BY <1>1, <1>4, <1>5, <2>1, <2>2, SameRuntimePlace
<1>6. /\ \A q \in Requests : ~Uses(q, n)'
      /\ \A q \in Requests : UnloadsAtOnce(q, n)' <=> q = r /\ IsLoaded(n) /\ ka = 0
  <2>1. ASSUME NEW q \in Requests, q # r
        PROVE  ~Uses(q, n)' /\ ~UnloadsAtOnce(q, n)'
    BY <1>2, <2>1 DEF Uses, UnloadsAtOnce, Caring
  <2>2. ~Uses(r, n)' /\ (UnloadsAtOnce(r, n)' <=> IsLoaded(n) /\ ka = 0)
    BY <1>1, <1>2 DEF Uses, UnloadsAtOnce
  <2> QED BY <2>1, <2>2
<1>7. keepAlive' = [keepAlive EXCEPT ![n] = ka]
  BY <1>1 DEF LC!FinishRequest
<1>8. \/ Place(n)' = "out" /\ Left(n)' = 0
      \/ ka = None /\ Place(n)' = "kept" /\ Left(n)' = 0
      \/ ka = 0 /\ Place(n)' = "leaving" /\ Left(n)' = 0
      \/ ka \in Delays /\ Place(n)' = "warm" /\ Left(n)' = ka
  <2>1. CASE IsLoaded(n) /\ ka \in Delays
    <3>1. thread'[n] = [LC!CancelTimer(n) EXCEPT ![generation[n] + 1] = LC!Waiting(ka)]
      BY <1>1, <2>1 DEF LC!FinishRequest, LC!ScheduleUnload, LockInv, LockType
    <3>2. thread'[n][generation'[n]] = LC!Waiting(ka)
      BY <1>4, <3>1
    <3>3. /\ LC!Pending(n, generation[n])' /\ ~Unloads(n, generation[n])'
          /\ thread'[n][generation'[n]].left = ka
      BY <3>2 DEF LC!Pending, Unloads, LC!Waiting
    <3>4. memory'[n] # {} /\ ka # 0
      BY <1>1, <2>1, Longest DEF IsLoaded
    <3>5. Place(n)' = "warm"
      BY <1>6, <3>3, <3>4 DEF Place, Leaves, Unloads
    <3> QED BY <2>1, <3>3, <3>5 DEF Left
  <2>2. CASE ~(IsLoaded(n) /\ ka \in Delays)
    <3>1. thread'[n] = LC!CancelTimer(n)
      BY <1>1, <2>2 DEF LC!FinishRequest, LockInv, LockType
    <3>2. ~LC!Pending(n, generation[n])' /\ ~Unloads(n, generation[n])'
      BY <1>4, <3>1 DEF LC!Pending, Unloads
    <3>3. CASE ~IsLoaded(n)
      <4>1. memory'[n] = {}
        BY <1>1, <3>3, NoJob, NotLoadedIsEmpty
      <4>2. Place(n)' = "out"
        BY <1>6, <3>2, <3>3, <4>1 DEF Place, Leaves, Unloads
      <4> QED BY <4>2 DEF Left
    <3>4. CASE IsLoaded(n) /\ ka = 0
      <4>1. UnloadsAtOnce(r, n)'
        BY <1>6, <3>4
      <4>2. Place(n)' = "leaving"
        BY <1>6, <4>1 DEF Place, Leaves
      <4> QED BY <3>4, <4>2 DEF Left
    <3>5. CASE IsLoaded(n) /\ ka = None
      <4>1. memory'[n] # {} /\ ka # 0
        BY <1>1, <3>5, LifecycleConstants DEF IsLoaded
      <4>2. Place(n)' = "kept"
        BY <1>6, <3>2, <4>1 DEF Place, Leaves, Unloads
      <4> QED BY <3>5, <4>2 DEF Left
    <3> QED BY <1>1, <2>2, <3>3, <3>4, <3>5 DEF LC!KeepAlives
  <2> QED BY <2>1, <2>2
<1>9. Policy!Finish(n, ka)
  BY <1>1, <1>3, <1>5, <1>7, <1>8, PolicyMove DEF Policy!Finish
<1> QED BY <1>1, <1>9 DEF Policy!Next, LC!KeepAlives

(* The worker changes the memory only of a runtime in use, which the caller *)
(* of its job goes on using.                                                *)
LEMMA JobStutters ==
  ASSUME MemoryInv, PathConfigured, jobs # <<>>, Head1.kind # "unload",
         pc' = pc \/ \E where \in Using : Goto(Head1.caller, where),
         UNCHANGED <<generation, thread, keepAlive, call>>,
         \A m \in Runtimes : m # Head1.runtime => memory'[m] = memory[m]
  PROVE  UNCHANGED Policy!policyVars
<1> PICK r, n : r = Head1.caller /\ n = Head1.runtime
  OBVIOUS
<1>1. /\ r \in Requests /\ n \in Runtimes /\ LockInv
      /\ pc[r] \in Using /\ pc[r] \notin Dropping /\ Uses(r, n)
  <2>1. /\ LockInv /\ Waits(Head1) /\ n \in Runtimes /\ r \in Requests
        /\ Cares(r, n)
    BY HeadJobRuntime
  <2>2. pc[r] \in Using /\ pc[r] \notin Dropping
    BY <2>1 DEF Waits, Using, Dropping
  <2> QED BY <2>1, <2>2 DEF Uses, Cares, Using
<1>2. /\ pc'[r] \in Using /\ pc'[r] \notin Dropping
      /\ \A q \in Requests : q # r => pc'[q] = pc[q]
  BY <1>1 DEF Goto, LockInv, LockType, Using, Dropping
<1>3. ASSUME NEW q \in Requests, NEW m \in Runtimes
      PROVE  /\ Uses(q, m)' <=> Uses(q, m)
             /\ UnloadsAtOnce(q, m)' <=> UnloadsAtOnce(q, m)
  BY <1>1, <1>2 DEF Uses, UnloadsAtOnce, Using, Dropping, Of
<1> QED BY <1>1, <1>3, SameRuntimePlace, PolicyStutters

(* The worker, as long as its job is no unload.                             *)
LEMMA WorkerStutters ==
  ASSUME MemoryInv, PathConfigured,
         StartJob \/ LoadPart \/ EndInference \/ PutChunk \/ EndStream \/ StopStream
  PROVE  UNCHANGED Policy!policyVars
<1>1. /\ jobs # <<>> /\ Head1.kind # "unload"
      /\ UNCHANGED <<generation, thread, keepAlive, call>>
  BY DEF StartJob, LoadPart, EndInference, PutChunk, EndStream, StopStream,
         lifecycleVars, requestVars, MemoryInv, Todo
<1>2. \A m \in Runtimes : m # Head1.runtime => memory'[m] = memory[m]
  BY DEF StartJob, LoadPart, EndInference, PutChunk, EndStream, StopStream,
         workerVars, MemoryInv, MemoryType
<1>3. pc' = pc \/ \E where \in Using : Goto(Head1.caller, where)
  <2>1. CASE StartJob \/ LoadPart \/ PutChunk
    BY <2>1 DEF StartJob, LoadPart, PutChunk, requestVars
  <2>2. CASE EndInference \/ StopStream
    BY <2>2 DEF EndInference, StopStream, EndJob, Using
  <2>3. CASE EndStream
    BY <1>1, <2>3, HeadJobRuntime DEF EndStream, EndJob, Waits, Using
  <2> QED BY <2>1, <2>2, <2>3
<1> QED BY <1>1, <1>2, <1>3, JobStutters

(* A model that was on its way out has left.                                *)
LEMMA Leaving ==
  ASSUME NEW n \in Runtimes, Place(n) = "leaving", memory'[n] = {},
         \A r \in Requests : ~Uses(r, n)' /\ ~UnloadsAtOnce(r, n)',
         ~Unloads(n, generation[n])', UNCHANGED keepAlive,
         \A m \in Runtimes : m # n => Place(m)' = Place(m) /\ Left(m)' = Left(m)
  PROVE  Policy!Next
<1>1. Place(n)' = "out"
  BY DEF Place, Leaves, Unloads
<1>2. Left(n)' = 0
  BY <1>1 DEF Left
<1>3. Policy!Leave(n)
  BY <1>1, <1>2, PolicyMove DEF Policy!Leave
<1> QED BY <1>3 DEF Policy!Next

(* The unload of a request that asked for it at once: its model leaves, and *)
(* the request goes on to the release, or loses the lock.                   *)
LEMMA UnloadForLeaves ==
  ASSUME MemoryInv, NEW r \in Requests, UnloadFor(r)
  PROVE  Policy!Next
<1> PICK n : n = Head1.runtime
  OBVIOUS
<1>1. /\ jobs # <<>> /\ Head1.kind = "unload" /\ Head1.caller = r
      /\ UNCHANGED <<generation, thread, call, keepAlive>>
      /\ memory' = [memory EXCEPT ![n] = {}]
  BY DEF UnloadFor, lifecycleVars
<1>2. /\ n \in Runtimes /\ n = Of(r) /\ pc[r] = "unloading"
      /\ LockInv /\ RequestHolds(r)
  BY <1>1, HeadJobRuntime, NamesDiffer DEF OwnRuntime, Waits, RequestHolds
<1>3. /\ pc'[r] \in {"release", "lost"}
      /\ \A q \in Requests : q # r => pc'[q] = pc[q] /\ pc[q] \notin Caring
  BY <1>1, <1>2, Alone, CaringHolds DEF UnloadFor, Goto, LockInv, LockType
<1>4. /\ memory'[n] = {} /\ \A m \in Runtimes : m # n => memory'[m] = memory[m]
  BY <1>1, <1>2 DEF MemoryInv, MemoryType
<1>5. Place(n) = "leaving"
  <2>1. UnloadsAtOnce(r, n) /\ ~Uses(r, n)
    BY <1>2 DEF UnloadsAtOnce, Uses
  <2>2. \A q \in Requests : q # r => ~Uses(q, n)
    BY <1>2, <1>3, UsersCare DEF Cares
  <2> QED BY <2>1, <2>2 DEF Place, Leaves
<1>6. \A q \in Requests : ~Uses(q, n)' /\ ~UnloadsAtOnce(q, n)'
  BY <1>3 DEF Uses, UnloadsAtOnce, Caring
<1>7. ~Unloads(n, generation[n])'
  <2>1. generation[n] \in LC!Generations
    BY <1>2 DEF LockInv, Fresh
  <2> QED BY <1>1, <1>2, <2>1, Alone DEF Unloads
<1>8. ASSUME NEW m \in Runtimes, m # n
      PROVE  Place(m)' = Place(m) /\ Left(m)' = Left(m)
  <2>1. ASSUME NEW q \in Requests
        PROVE  /\ Uses(q, m)' <=> Uses(q, m)
               /\ UnloadsAtOnce(q, m)' <=> UnloadsAtOnce(q, m)
    BY <1>1, <1>2, <1>3, <1>8 DEF Uses, UnloadsAtOnce, Of
  <2> QED BY <1>1, <1>4, <1>8, <2>1, SameRuntimePlace
<1> QED BY <1>1, <1>2, <1>4, <1>5, <1>6, <1>7, <1>8, Leaving

(* A timer thread that unloads is of the current generation, and alone.     *)
LEMMA TimerLeaving ==
  ASSUME MemoryInv, PathConfigured, NEW n \in Runtimes,
         NEW g \in LC!Generations, Unloads(n, g)
  PROVE  /\ g = generation[n] /\ Place(n) = "leaving"
         /\ \A r \in Requests, m \in Runtimes :
              ~Uses(r, m) /\ ~UnloadsAtOnce(r, m)
<1>1. g = generation[n]
  BY DEF MemoryInv, NotEarly, Expired
<1>2. \A r \in Requests : ~RequestHolds(r)
  BY TimerAlone DEF MemoryInv, Unloads, TimerHolds
<1>3. \A r \in Requests, m \in Runtimes : ~Uses(r, m) /\ ~UnloadsAtOnce(r, m)
  BY <1>2, UsersCare, CaringHolds DEF Cares
<1>4. Unloads(n, generation[n])
  BY <1>1
<1> QED BY <1>1, <1>3, <1>4 DEF Place, Leaves, Unloads

(* A step of a timer thread is seen, if at all, of its own runtime, and     *)
(* only if it is the thread of the current generation.                      *)
PendingPc == {"waiting", "fired", "retry", "locked"}

LEMMA ThreadStep ==
  ASSUME LockInv, NEW n \in Runtimes, NEW g \in LC!Generations,
         NEW to, NEW rest, thread' = [thread EXCEPT ![n][g] = [pc |-> to, left |-> rest]],
         UNCHANGED <<generation, call, pc>>,
         \A m \in Runtimes : m # n => memory'[m] = memory[m]
  PROVE  /\ \A m \in Runtimes : m # n => Place(m)' = Place(m) /\ Left(m)' = Left(m)
         /\ memory' = memory /\ g # generation[n] =>
              Place(n)' = Place(n) /\ Left(n)' = Left(n)
         /\ \A q \in Requests, m \in Runtimes :
              /\ Uses(q, m)' <=> Uses(q, m)
              /\ UnloadsAtOnce(q, m)' <=> UnloadsAtOnce(q, m)
         /\ g = generation[n] =>
              /\ thread'[n][generation'[n]].left = rest
              /\ LC!Pending(n, generation[n])' <=> to \in PendingPc
              /\ Unloads(n, generation[n])' <=> to \in {"unload", "unloading"}
<1>1. /\ thread'[n][g] = [pc |-> to, left |-> rest]
      /\ \A k \in LC!Generations : k # g => thread'[n][k] = thread[n][k]
      /\ \A m \in Runtimes : m # n => thread'[m] = thread[m]
  BY ThreadMoves
<1>2. \A q \in Requests, m \in Runtimes :
        /\ Uses(q, m)' <=> Uses(q, m)
        /\ UnloadsAtOnce(q, m)' <=> UnloadsAtOnce(q, m)
  BY DEF Uses, UnloadsAtOnce, Of
<1>3. \A m \in Runtimes : m # n => Place(m)' = Place(m) /\ Left(m)' = Left(m)
  BY <1>1, <1>2, SameRuntimePlace
<1>4. ASSUME memory' = memory, g # generation[n]
      PROVE  Place(n)' = Place(n) /\ Left(n)' = Left(n)
  <2>1. generation[n] \in LC!Generations
    BY DEF LockInv, Fresh
  <2>2. thread'[n][generation'[n]] = thread[n][generation[n]]
    BY <1>1, <1>4, <2>1
  <2>3. /\ LC!Pending(n, generation[n])' <=> LC!Pending(n, generation[n])
        /\ Unloads(n, generation[n])' <=> Unloads(n, generation[n])
        /\ thread'[n][generation'[n]].left = thread[n][generation[n]].left
    BY <2>2 DEF LC!Pending, Unloads
  <2> QED BY <1>2, <1>4, <2>3, SamePlace
<1>5. ASSUME g = generation[n]
      PROVE  /\ thread'[n][generation'[n]].left = rest
             /\ LC!Pending(n, generation[n])' <=> to \in PendingPc
             /\ Unloads(n, generation[n])' <=> to \in {"unload", "unloading"}
  <2>1. thread'[n][generation'[n]] = [pc |-> to, left |-> rest]
    BY <1>1, <1>5
  <2> QED BY <2>1 DEF LC!Pending, Unloads, PendingPc
<1> QED BY <1>2, <1>3, <1>4, <1>5

(* It fires, tries the lock, or releases it: the model stays where it is.   *)
LEMMA FireStutters ==
  ASSUME PolicyInv, NEW n \in Runtimes, NEW g \in LC!Generations,
         TimerFire(n, g) \/ TimerTryLock(n, g) \/ TimerRelease(n, g)
  PROVE  UNCHANGED Policy!policyVars
<1>1. UNCHANGED <<generation, memory, call, pc, keepAlive>> /\ LockInv
  BY DEF TimerFire, TimerTryLock, TimerRelease, LC!Fire, LC!LockBusy,
         LC!LockTaken, LC!ReleaseLock, workerVars, requestVars, PolicyInv,
         MemoryInv
<1>2. PICK to :
        /\ thread' = [thread EXCEPT ![n][g] = [pc |-> to, left |-> 0]]
        /\ \/ thread[n][g].pc \in PendingPc /\ to \in PendingPc
           \/ thread[n][g].pc = "release" /\ to = "none"
        /\ thread[n][g].pc = "waiting" => thread[n][g].left = 0
  BY DEF TimerFire, TimerTryLock, TimerRelease, LC!Fire, LC!LockBusy,
         LC!LockTaken, LC!ReleaseLock, LC!At, LC!Goto, PendingPc
<1>3. thread[n][g].left = 0
  BY <1>2, NoTimeLeft DEF PolicyInv
<1>4. CASE g # generation[n]
  BY <1>1, <1>2, <1>4, ThreadStep, PolicyStutters
<1>5. CASE g = generation[n]
  <2>1. /\ LC!Pending(n, generation[n])' <=> LC!Pending(n, generation[n])
        /\ Unloads(n, generation[n])' <=> Unloads(n, generation[n])
        /\ thread'[n][generation'[n]].left = thread[n][generation[n]].left
    <3>1. /\ LC!Pending(n, generation[n])' <=> to \in PendingPc
          /\ Unloads(n, generation[n])' <=> to \in {"unload", "unloading"}
          /\ thread'[n][generation'[n]].left = 0
      BY <1>1, <1>2, <1>5, ThreadStep
    <3> QED BY <1>2, <1>3, <1>5, <3>1 DEF LC!Pending, Unloads, PendingPc
  <2>2. Place(n)' = Place(n) /\ Left(n)' = Left(n)
    <3>1. \A q \in Requests : /\ Uses(q, n)' <=> Uses(q, n)
                              /\ UnloadsAtOnce(q, n)' <=> UnloadsAtOnce(q, n)
      BY <1>1, <1>2, ThreadStep
    <3> QED BY <1>1, <2>1, <3>1, SamePlace
  <2> QED BY <1>1, <1>2, <2>2, ThreadStep, PolicyStutters
<1> QED BY <1>4, <1>5

(* It finds its generation out of date: nothing happens to the model.       *)
(* Otherwise it leaves, or stays for the time of a retry.                   *)
LEMMA CheckMoves ==
  ASSUME PolicyInv, PathConfigured, NEW n \in Runtimes,
         NEW g \in LC!Generations, TimerCheck(n, g)
  PROVE  Policy!Next \/ UNCHANGED Policy!policyVars
<1>1. UNCHANGED <<generation, memory, call, pc, keepAlive>> /\ LockInv /\ MemoryInv
  BY DEF TimerCheck, LC!RescheduleIfCurrent, LC!CheckGeneration, workerVars,
         requestVars, PolicyInv, MemoryInv
<1>2. PICK to, rest :
        /\ thread' = [thread EXCEPT ![n][g] = [pc |-> to, left |-> rest]]
        /\ \/ g # generation[n]
           \/ thread[n][g].pc = "retry" /\ to = "waiting" /\ rest = RetryDelay
           \/ thread[n][g].pc = "locked" /\ to = "unload" /\ rest = 0
  <2>1. CASE LC!RescheduleIfCurrent(n, g) /\ g = generation[n]
    <3>1. thread' = [thread EXCEPT ![n][g] = LC!Waiting(RetryDelay)]
      BY <2>1 DEF LC!RescheduleIfCurrent, LC!ScheduleUnload
    <3> QED BY <2>1, <3>1 DEF LC!Waiting, LC!RescheduleIfCurrent, LC!At
  <2>2. CASE LC!RescheduleIfCurrent(n, g) /\ g # generation[n]
    BY <2>2 DEF LC!RescheduleIfCurrent, LC!Goto
  <2>3. CASE LC!CheckGeneration(n, g)
    BY <2>3 DEF LC!CheckGeneration, LC!At, LC!Goto
  <2> QED BY <2>1, <2>2, <2>3 DEF TimerCheck
<1>3. CASE g # generation[n]
  BY <1>1, <1>2, <1>3, ThreadStep, PolicyStutters
<1>4. CASE g = generation[n]
  <2>1. /\ thread[n][g].pc \in {"retry", "locked"} /\ thread[n][g].left = 0
        /\ LC!Pending(n, generation[n])
    BY <1>2, <1>4, NoTimeLeft DEF PolicyInv, LC!Pending
  <2>2. /\ Place(n) = "warm" /\ memory[n] # {} /\ Left(n) = 0
        /\ \A q \in Requests : ~Uses(q, n) /\ ~UnloadsAtOnce(q, n)
    BY <1>1, <1>4, <2>1, PendingIsWarm
  <2>3. /\ thread'[n][generation'[n]].left = rest
        /\ LC!Pending(n, generation[n])' <=> to \in PendingPc
        /\ Unloads(n, generation[n])' <=> to \in {"unload", "unloading"}
    BY <1>1, <1>2, <1>4, ThreadStep
  <2>4. /\ \A m \in Runtimes : m # n => Place(m)' = Place(m) /\ Left(m)' = Left(m)
        /\ \A q \in Requests : ~Uses(q, n)' /\ ~UnloadsAtOnce(q, n)'
    BY <1>1, <1>2, <2>2, ThreadStep
  <2>5. CASE to = "waiting" /\ rest = RetryDelay
    <3>1. Place(n)' = "warm"
      BY <1>1, <2>2, <2>3, <2>4, <2>5 DEF Place, Leaves, Unloads, PendingPc
    <3>2. Left(n)' = RetryDelay
      BY <2>3, <2>5, <3>1 DEF Left
    <3>3. Policy!Postpone(n)
      BY <1>1, <2>2, <2>4, <3>1, <3>2, PolicyMove DEF Policy!Postpone
    <3> QED BY <3>3 DEF Policy!Next
  <2>6. CASE thread[n][g].pc = "locked" /\ to = "unload" /\ rest = 0
    <3>1. Place(n)' = "leaving"
      BY <2>3, <2>4, <2>6 DEF Place, Leaves, Unloads
    <3>2. Left(n)' = 0
      BY <3>1 DEF Left
    <3>3. TimerHolds(<<n, g>>)
      BY <2>6 DEF TimerHolds
    <3>4. \A q \in Requests : pc[q] \notin Caring
      BY <1>1, <3>3, TimerAlone, CaringHolds
    <3>5. \A m \in Runtimes, k \in LC!Generations : ~Unloads(m, k)
      BY <1>1, <2>6, <3>3, TimerAlone DEF Unloads
    <3>6. Policy!Quiet
      BY <1>1, <3>4, <3>5, NobodyActs
    <3>7. Policy!Expire(n)
      BY <1>1, <2>2, <2>4, <3>1, <3>2, <3>6, PolicyMove DEF Policy!Expire
    <3> QED BY <3>7 DEF Policy!Next
  <2> QED BY <1>2, <1>4, <2>5, <2>6
<1> QED BY <1>3, <1>4

(* It looks at is_loaded: the model is being unloaded, or is gone.          *)
LEMMA TimerUnloadLeaves ==
  ASSUME PolicyInv, PathConfigured, "tokenizer" \notin FailingParts,
         NEW n \in Runtimes, NEW g \in LC!Generations, TimerUnload(n, g)
  PROVE  Policy!Next \/ UNCHANGED Policy!policyVars
<1>1. /\ UNCHANGED <<generation, memory, call, pc, keepAlive>>
      /\ LockInv /\ MemoryInv /\ thread[n][g].pc = "unload"
      /\ Unloads(n, g) /\ TimerHolds(<<n, g>>)
  BY DEF TimerUnload, LC!StartUnload, LC!At, requestVars, PolicyInv, MemoryInv,
         Unloads, TimerHolds
<1>2. PICK to : /\ to = IF IsLoaded(n) THEN "unloading" ELSE "release"
                /\ thread' = [thread EXCEPT ![n][g] = [pc |-> to, left |-> 0]]
  BY DEF TimerUnload, LC!StartUnload, LC!Goto
<1>3. /\ g = generation[n] /\ Place(n) = "leaving"
      /\ \A r \in Requests, m \in Runtimes : ~Uses(r, m) /\ ~UnloadsAtOnce(r, m)
  BY <1>1, TimerLeaving
<1>4. /\ Unloads(n, generation[n])' <=> IsLoaded(n)
      /\ \A m \in Runtimes : m # n => Place(m)' = Place(m) /\ Left(m)' = Left(m)
      /\ \A q \in Requests : ~Uses(q, n)' /\ ~UnloadsAtOnce(q, n)'
  <2>1. Unloads(n, generation[n])' <=> to \in {"unload", "unloading"}
    BY <1>1, <1>2, <1>3, ThreadStep
  <2>2. \A m \in Runtimes : m # n => Place(m)' = Place(m) /\ Left(m)' = Left(m)
    BY <1>1, <1>2, ThreadStep
  <2>3. \A q \in Requests : ~Uses(q, n)' /\ ~UnloadsAtOnce(q, n)'
    BY <1>1, <1>2, <1>3, ThreadStep
  <2> QED BY <1>2, <2>1, <2>2, <2>3
<1>5. CASE IsLoaded(n)
  <2>1. Place(n)' = "leaving"
    BY <1>4, <1>5 DEF Place, Leaves, Unloads
  <2>2. Place(n)' = Place(n) /\ Left(n)' = Left(n)
    BY <1>3, <2>1 DEF Left
  <2> QED BY <1>1, <1>4, <2>2, PolicyStutters
<1>6. CASE ~IsLoaded(n)
  <2>1. <<n, g>> \in TimerThreads
    BY DEF TimerThreads
  <2>2. memory'[n] = {}
    BY <1>1, <1>6, <2>1, NoJobForTimer, NotLoadedIsEmpty
  <2> QED BY <1>1, <1>3, <1>4, <1>6, <2>2, Leaving
<1> QED BY <1>5, <1>6

(* The same for the unload of a timer thread.                               *)
LEMMA UnloadForTimerLeaves ==
  ASSUME PolicyInv, PathConfigured, NEW n \in Runtimes,
         NEW g \in LC!Generations, UnloadForTimer(n, g)
  PROVE  Policy!Next
<1>1. /\ UNCHANGED <<generation, call, pc, keepAlive>>
      /\ LockInv /\ MemoryInv /\ Unloads(n, g)
      /\ thread' = [thread EXCEPT ![n][g] = [pc |-> "release", left |-> 0]]
  BY DEF UnloadForTimer, LC!EndUnload, LC!At, LC!Goto, requestVars, PolicyInv,
         MemoryInv, Unloads
<1> PICK to : to = "release"
  OBVIOUS
<1>2. memory'[n] = {} /\ \A m \in Runtimes : m # n => memory'[m] = memory[m]
  BY DEF UnloadForTimer, PolicyInv, MemoryInv, MemoryType
<1>3. /\ g = generation[n] /\ Place(n) = "leaving"
      /\ \A r \in Requests, m \in Runtimes : ~Uses(r, m) /\ ~UnloadsAtOnce(r, m)
  BY <1>1, TimerLeaving
<1>4. /\ ~Unloads(n, generation[n])'
      /\ \A m \in Runtimes : m # n => Place(m)' = Place(m) /\ Left(m)' = Left(m)
      /\ \A q \in Requests : ~Uses(q, n)' /\ ~UnloadsAtOnce(q, n)'
  <2>1. thread' = [thread EXCEPT ![n][g] = [pc |-> to, left |-> 0]]
    BY <1>1
  <2>2. UNCHANGED <<generation, call, pc>> /\ LockInv
    BY <1>1
  <2>3. /\ \A m \in Runtimes : m # n => Place(m)' = Place(m) /\ Left(m)' = Left(m)
        /\ g = generation[n] =>
             (Unloads(n, generation[n])' <=> to \in {"unload", "unloading"})
    BY <1>2, <2>1, <2>2, ThreadStep
  <2>4. \A q \in Requests : ~Uses(q, n)' /\ ~UnloadsAtOnce(q, n)'
    BY <1>2, <1>3, <2>1, <2>2, ThreadStep
  <2> QED BY <1>3, <2>3, <2>4
<1> QED BY <1>1, <1>2, <1>3, <1>4, Leaving

(* A second passes for the models that are kept warm.                       *)
LEMMA TickTicks ==
  ASSUME MemoryInv, Tick
  PROVE  Policy!Tick
<1>1. /\ UNCHANGED <<generation, memory, call, pc, keepAlive>> /\ LockInv
      /\ thread' = [n \in Runtimes |-> [g \in LC!Generations |->
                      [thread[n][g] EXCEPT !.left = LC!Less(@)]]]
  BY DEF Tick, LC!Tick, requestVars, MemoryInv
<1>2. \A q \in Requests, n \in Runtimes :
        /\ Uses(q, n)' <=> Uses(q, n)
        /\ UnloadsAtOnce(q, n)' <=> UnloadsAtOnce(q, n)
  BY <1>1 DEF Uses, UnloadsAtOnce, Of
<1>3. ASSUME NEW n \in Runtimes
      PROVE  /\ Place(n)' = Place(n)
             /\ Left(n)' = IF Left(n) = 0 THEN 0 ELSE Left(n) - 1
  <2>1. generation[n] \in LC!Generations
    BY <1>1 DEF LockInv, Fresh
  <2>2. /\ thread'[n][generation'[n]].pc = thread[n][generation[n]].pc
        /\ thread'[n][generation'[n]].left = LC!Less(thread[n][generation[n]].left)
    <3>1. thread[n][generation[n]] \in ThreadRecord
      BY <1>1, <2>1 DEF LockInv, LockType
    <3>2. thread'[n][generation'[n]] =
            [thread[n][generation[n]] EXCEPT !.left = LC!Less(@)]
      BY <1>1, <2>1
    <3> QED BY <3>1, <3>2 DEF ThreadRecord
  <2>3. /\ LC!Pending(n, generation[n])' <=> LC!Pending(n, generation[n])
        /\ Unloads(n, generation[n])' <=> Unloads(n, generation[n])
    BY <2>2 DEF LC!Pending, Unloads
  <2>4. Place(n)' = Place(n)
    BY <1>1, <1>2, <2>3 DEF Place, Leaves, Unloads
  <2> QED BY <2>2, <2>4 DEF Left, LC!Less
<1> QED BY <1>1, <1>3 DEF Policy!Tick
-----------------------------------------------------------------------------
(* At the start no model is in memory.                                      *)
LEMMA InitPolicy == Init => Policy!Init
<1> SUFFICES ASSUME Init PROVE Policy!Init
  OBVIOUS
<1>1. ASSUME NEW n \in Runtimes
      PROVE  Place(n) = "out" /\ Left(n) = 0
  <2>1. /\ memory[n] = {}
        /\ thread[n][generation[n]].pc = "none"
        /\ \A r \in Requests : ~Uses(r, n) /\ ~UnloadsAtOnce(r, n)
    BY LifecycleConstants
    DEF Init, LC!Init, LC!NoThread, LC!Generations, Uses, UnloadsAtOnce
  <2>2. Place(n) = "out"
    BY <2>1 DEF Place, Leaves
  <2> QED BY <2>2 DEF Left
<1> QED BY <1>1 DEF Init, LC!Init, Policy!Init

(* Each step of the server is one of the policy, or none.                   *)
LEMMA NextPolicy ==
  ASSUME PolicyInv, [Next]_vars, PathConfigured, "tokenizer" \notin FailingParts
  PROVE  [Policy!Next]_(Policy!policyVars)
<1> SUFFICES Policy!Next \/ UNCHANGED Policy!policyVars
  OBVIOUS
<1>1. MemoryInv
  BY DEF PolicyInv
<1>2. ASSUME NEW r \in Requests,
             Arrive(r) \/ HandlerStep(r) \/ ClientStep(r) \/ Orphan(r)
      PROVE  Policy!Next \/ UNCHANGED Policy!policyVars
  BY <1>1, <1>2, HandlersStutter, BeginUses, FinishEnds
  DEF HandlerStep, ClientStep
<1>3. CASE WorkerStep
  BY <1>1, <1>3, WorkerStutters, UnloadForLeaves, UnloadForTimerLeaves
  DEF WorkerStep
<1>4. ASSUME NEW n \in Runtimes, NEW g \in LC!Generations, TimerStep(n, g)
      PROVE  Policy!Next \/ UNCHANGED Policy!policyVars
  BY <1>4, FireStutters, CheckMoves, TimerUnloadLeaves DEF TimerStep
<1>5. CASE Tick
  BY <1>1, <1>5, TickTicks DEF Policy!Next
<1>6. CASE UNCHANGED vars
  <2>1. UNCHANGED <<generation, thread, memory, keepAlive, call, pc>>
    BY <1>6 DEF vars, lifecycleVars, workerVars, requestVars
  <2>2. \A q \in Requests, n \in Runtimes :
          /\ Uses(q, n)' <=> Uses(q, n)
          /\ UnloadsAtOnce(q, n)' <=> UnloadsAtOnce(q, n)
    BY <2>1 DEF Uses, UnloadsAtOnce, Of
  <2> QED BY <2>1, <2>2, SameRuntimePlace, PolicyStutters
<1> QED BY <1>2, <1>3, <1>4, <1>5, <1>6 DEF Next

(* The server keeps its promise about the models in memory, for any number  *)
(* of requests and runtimes and any keep-alives, whatever the interleaving  *)
(* and whichever client leaves - where a path for NLLB is configured and    *)
(* its tokenizer does not fail to load.                                     *)
THEOREM ImplementsKeepAlivePolicy ==
  ASSUME PathConfigured, "tokenizer" \notin FailingParts
  PROVE  Spec => KeepsPolicy
<1>1. PolicyInv /\ [Next]_vars => [Policy!Next]_(Policy!policyVars)
  BY NextPolicy
<1>2. Spec => Policy!Spec
  BY <1>1, InitPolicy, PolicyInvHolds, PTL DEF Spec, Policy!Spec
<1> QED BY <1>2 DEF KeepsPolicy
=============================================================================
