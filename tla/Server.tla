-------------------------------- MODULE Server --------------------------------
(***************************************************************************)
(* The request handlers of server.py, the stream generator _chat_stream,   *)
(* the single inference worker and the model runtimes, composed with one   *)
(* RuntimeLifecycle per runtime (module Lifecycle).                        *)
(*                                                                         *)
(* The processes are the requests, the worker thread and the timer         *)
(* threads.  They share the inference lock, the worker's job queue, the    *)
(* models in memory, the lifecycles, the thread pool that runs the         *)
(* handlers and every step of a stream, and the event loop that accepts    *)
(* requests, hands work to the pool, sends chunks, notices clients that    *)
(* leave and closes the generators they drop.  A request is used once; the *)
(* number of requests bounds the generations.                              *)
(***************************************************************************)
EXTENDS Integers, Sequences, FiniteSets

CONSTANTS
  Runtimes, Delays, RetryDelay, MaxGeneration, None,  \* see Lifecycle
  Requests,        \* the requests of a run
  Calls,           \* what a request may ask for, see Call
  PoolSize,        \* threads of the pool that runs the handlers
  MaxChunks,       \* bound on the chunks of a stream
  PathConfigured,  \* is TRANSLATION_MODEL_PATH set
  FailingParts,    \* parts of models whose loading may raise
  EarlyDisconnect, \* may a client go away before its stream is first pulled
  UnloadMayRaise   \* may release_mlx_memory raise at the end of an unload

VARIABLES
  generation, timer, unloadAt, keepAlive, thread,  \* see Lifecycle
  lockHeld,  \* inference_lock.locked()
  memory,    \* memory[n]: the parts of models the runtime object n refers to
  jobs,      \* the executor's queue; the worker is busy with its head
  todo,      \* parts the head job has still to load; None: not started
  pool,      \* the requests that occupy a thread of the pool
  pc,        \* where a request is
  call,      \* what it asked for
  queue,     \* queue[r]: the queue of iterate(): None, or its only slot
  chunks,    \* chunks[r]: how many chunks the model has still to generate
  asked,     \* asked[n]: the keep-alive of the last request for n
  sinceUse   \* sinceUse[n]: seconds since a request last used n

LC == INSTANCE Lifecycle

lifecycleVars == <<generation, timer, unloadAt, keepAlive, thread>>
workerVars    == <<memory, jobs, todo, asked, sinceUse>>
requestVars   == <<pool, pc, call, queue, chunks>>
vars          == <<lifecycleVars, lockHeld, workerVars, requestVars>>

(* A call names its operation, the TTS model it wants and its keep-alive.  *)
TtsModels == {"kokoro", "custom_voice", "voice_design"}
Parts     == {"model", "translator", "tokenizer"} \cup TtsModels

ModelsOf(op) ==
  IF op = "tts" THEN TtsModels ELSE IF op = "translation" THEN {"nllb"} ELSE {"model"}

Call == {c \in [op : Runtimes \cup {"stream"},
                model : TtsModels \cup {"model", "nllb"},
                keepAlive : LC!KeepAlives] : c.model \in ModelsOf(c.op)}

(* MaxGeneration counts the two generations each request may start.         *)
ASSUME ServerAssumption ==
  /\ LC!LifecycleAssumption
  /\ \E longest \in Delays : \A d \in Delays : d <= longest
  /\ Calls \subseteq Call /\ \A c \in Calls : c.op = "stream" => "chat" \in Runtimes
  /\ "translation" \in Runtimes => "chat" \in Runtimes
  /\ PoolSize \in Nat \ {0} /\ MaxChunks \in Nat
  /\ FailingParts \subseteq Parts
  /\ EarlyDisconnect \in BOOLEAN /\ PathConfigured \in BOOLEAN
  /\ UnloadMayRaise \in BOOLEAN
  /\ Requests \cap (Runtimes \X LC!Generations) = {}
  /\ None \notin {"empty", "value", "done", "error"} /\ None \notin Seq(Parts)

RuntimeOf(c) == IF c.op = "stream" THEN "chat" ELSE c.op

(* _load: the parts in the order they are assigned, and is_loaded.          *)
LoadOrder(n, model) ==
  IF n = "translation" THEN <<"translator", "tokenizer">> ELSE <<model>>

IsLoaded(n) ==
  IF n = "translation" THEN {"translator", "tokenizer"} \subseteq memory[n]
                       ELSE memory[n] # {}

(* The test at the top of _load; the TTS provider compares the model too.   *)
Ready(n, model) == IF n = "tts" THEN memory[n] = {model} ELSE IsLoaded(n)

(* Jobs: an inference or a stream for a request, or the unload of a runtime *)
(* for the request or the timer thread that waits for it.                   *)
Job(caller, kind, n, model) ==
  [caller |-> caller, kind |-> kind, runtime |-> n, model |-> model]

Submit(job) == jobs' = Append(jobs, job)

HasJob(caller) == \E i \in DOMAIN jobs : jobs[i].caller = caller

Max(S) == CHOOSE x \in S : \A y \in S : y <= x

Init ==
  /\ LC!Init
  /\ lockHeld = FALSE
  /\ memory   = [n \in Runtimes |-> {}]
  /\ jobs     = <<>>
  /\ todo     = None
  /\ pool     = {}
  /\ pc       = [r \in Requests |-> "idle"]
  /\ call     = [r \in Requests |-> None]
  /\ queue    = [r \in Requests |-> None]
  /\ chunks   = [r \in Requests |-> 0]
  /\ asked    = [n \in Runtimes |-> None]
  /\ sinceUse = [n \in Runtimes |-> 0]

At(r, where) == pc[r] = where
Goto(r, where) == pc' = [pc EXCEPT ![r] = where]
TakeThread(r) == Cardinality(pool) < PoolSize /\ pool' = pool \cup {r}
LeaveThread(r) == pool' = pool \ {r}

Of(r) == RuntimeOf(call[r])

(* The event loop is one thread.  A generator that its client has dropped   *)
(* is closed on it, up to the release of the inference lock; until then the *)
(* loop does nothing else.                                                  *)
OnLoop(r) ==
  \/ At(r, "closing")
  \/ /\ pc[r] \in {"finish", "unload_now", "unloading", "release"}
     /\ r \notin pool

LoopBusy == \E r \in Requests : OnLoop(r)
-----------------------------------------------------------------------------
(* Admission: a request is accepted and waits for a thread of the pool;     *)
(* its handler validates it, then waits for the inference lock.             *)
Arrive(r) ==
  /\ At(r, "idle") /\ ~LoopBusy
  /\ \E c \in Calls : call' = [call EXCEPT ![r] = c]
  /\ Goto(r, "queued")
  /\ UNCHANGED <<lifecycleVars, lockHeld, workerVars, pool, queue, chunks>>

Reject(r) ==
  /\ At(r, "queued") /\ ~LoopBusy
  /\ Cardinality(pool) < PoolSize
  /\ Goto(r, "answered")
  /\ UNCHANGED <<lifecycleVars, lockHeld, workerVars, pool, call, queue, chunks>>

Start(r) ==
  /\ At(r, "queued") /\ ~LoopBusy
  /\ TakeThread(r)
  /\ Goto(r, "waiting")
  /\ UNCHANGED <<lifecycleVars, lockHeld, workerVars, call, queue, chunks>>

AcquireLock(r) ==
  /\ At(r, "waiting")
  /\ ~lockHeld
  /\ lockHeld' = TRUE
  /\ Goto(r, "begin")
  /\ UNCHANGED <<lifecycleVars, workerVars, pool, call, queue, chunks>>

(* Mutants: the result of acquire(timeout=...) is ignored; no timeout.      *)
AcquireIgnored(r) ==
  /\ At(r, "waiting")
  /\ lockHeld
  /\ Goto(r, "begin")
  /\ UNCHANGED <<lifecycleVars, lockHeld, workerVars, pool, call, queue, chunks>>

AcquireForever(r) == FALSE

(* The lock stayed busy for inference_lock_timeout_seconds: 503. *)
AcquireTimeout(r) ==
  /\ At(r, "waiting")
  /\ lockHeld
  /\ Goto(r, "answered")
  /\ LeaveThread(r)
  /\ UNCHANGED <<lifecycleVars, lockHeld, workerVars, call, queue, chunks>>

(* begin_request; a stream's handler then returns its StreamingResponse.    *)
Begin(r) ==
  /\ At(r, "begin")
  /\ LC!BeginRequest(Of(r))
  /\ \/ /\ call[r].op = "stream"
        /\ Goto(r, "created")
        /\ LeaveThread(r)
     \/ /\ call[r].op # "stream"
        /\ Goto(r, "submit")
        /\ UNCHANGED pool
  /\ UNCHANGED <<lockHeld, workerVars, call, queue, chunks>>

(* inference_worker.run(...): hand the job over and wait for its result.    *)
RunJob(r) ==
  /\ At(r, "submit")
  /\ Submit(Job(r, "infer", Of(r), call[r].model))
  /\ Goto(r, "running")
  /\ UNCHANGED <<lifecycleVars, lockHeld, memory, todo, asked, sinceUse,
                 pool, call, queue, chunks>>

(* _translate_with_llm, when the NLLB path is not configured.               *)
Fallback(r) ==
  /\ At(r, "fallback")
  /\ Submit(Job(r, "infer", "chat", "model"))
  /\ Goto(r, "running")
  /\ UNCHANGED <<lifecycleVars, lockHeld, memory, todo, asked, sinceUse,
                 pool, call, queue, chunks>>

(* The finally block: finish_request, which may unload at once, then the    *)
(* release of the inference lock.  Its keep-alive counts even if the        *)
(* request did not come to use the runtime.                                 *)
Finish(r) ==
  /\ At(r, "finish")
  /\ LC!FinishRequest(Of(r), call[r].keepAlive, IsLoaded(Of(r)))
  /\ Goto(r, IF LC!UnloadsNow(call[r].keepAlive, IsLoaded(Of(r)))
             THEN "unload_now" ELSE "release")
  /\ asked' = [asked EXCEPT ![Of(r)] = call[r].keepAlive]
  /\ UNCHANGED <<lockHeld, memory, jobs, todo, sinceUse, pool, call, queue, chunks>>

(* is_loaded is read again: nothing can have changed under the lock.        *)
UnloadNow(r) ==
  /\ At(r, "unload_now") /\ IsLoaded(Of(r))
  /\ Submit(Job(r, "unload", Of(r), None))
  /\ Goto(r, "unloading")
  /\ UNCHANGED <<lifecycleVars, lockHeld, memory, todo, asked, sinceUse,
                 pool, call, queue, chunks>>

Release(r) ==
  /\ At(r, "release")
  /\ lockHeld' = FALSE
  /\ Goto(r, "answered")
  /\ LeaveThread(r)
  /\ UNCHANGED <<lifecycleVars, workerVars, call, queue, chunks>>
-----------------------------------------------------------------------------
(* _chat_stream.  Every next() on the generator takes a thread of the pool; *)
(* between two of them the generator is suspended, with the lock held,      *)
(* until the client has read what was sent.                                 *)

(* The first next(): the chunk that names the role. *)
Open(r) ==
  /\ At(r, "created") /\ ~LoopBusy
  /\ Cardinality(pool) < PoolSize
  /\ Goto(r, "suspended")
  /\ UNCHANGED <<lifecycleVars, lockHeld, workerVars, pool, call, queue, chunks>>

(* The next next(): the second one starts iterate(), one after _Done ends   *)
(* the generator, the others wait for an item of the queue.                 *)
Pull(r) ==
  /\ At(r, "ready") /\ ~LoopBusy
  /\ TakeThread(r)
  /\ \/ /\ queue[r] = None
        /\ Submit(Job(r, "stream", "chat", "model"))
        /\ queue'  = [queue EXCEPT ![r] = "empty"]
        /\ chunks' = [chunks EXCEPT ![r] = MaxChunks]
        /\ Goto(r, "pulling")
     \/ /\ queue[r] # None
        /\ Goto(r, IF queue[r] = "done" THEN "finish" ELSE "pulling")
        /\ UNCHANGED <<jobs, queue, chunks>>
  /\ UNCHANGED <<lifecycleVars, lockHeld, memory, todo, asked, sinceUse, call>>

(* Mutant: an _Error ends the stream outside the try block.                 *)
ReceiveUnguarded(r) ==
  /\ At(r, "pulling")
  /\ \/ /\ queue[r] \in {"value", "done"}
        /\ queue' = [queue EXCEPT ![r] = IF @ = "value" THEN "empty" ELSE @]
        /\ Goto(r, "suspended")
     \/ /\ queue[r] = "error"
        /\ Goto(r, "answered")
        /\ UNCHANGED queue
  /\ LeaveThread(r)
  /\ UNCHANGED <<lifecycleVars, lockHeld, workerVars, call, chunks>>

Receive(r) ==
  /\ At(r, "pulling")
  /\ \/ /\ queue[r] = "value"
        /\ queue' = [queue EXCEPT ![r] = "empty"]
        /\ Goto(r, "suspended")
        /\ LeaveThread(r)
     \/ /\ queue[r] = "done"
        /\ Goto(r, "suspended")
        /\ LeaveThread(r)
        /\ UNCHANGED queue
     \/ /\ queue[r] = "error"
        /\ Goto(r, "finish")
        /\ UNCHANGED <<pool, queue>>
  /\ UNCHANGED <<lifecycleVars, lockHeld, workerVars, call, chunks>>

(* The client has read the chunk, or has gone. *)
Read(r) ==
  /\ At(r, "suspended") /\ ~LoopBusy
  /\ Goto(r, "ready")
  /\ UNCHANGED <<lifecycleVars, lockHeld, workerVars, pool, call, queue, chunks>>

Disconnect(r) ==
  /\ pc[r] \in {"suspended", "ready"} /\ ~LoopBusy
  /\ Goto(r, "closing")
  /\ UNCHANGED <<lifecycleVars, lockHeld, workerVars, pool, call, queue, chunks>>

(* Gone before the first next(): the generator is dropped without ever      *)
(* having run, so that its finally block does not run either.               *)
Orphan(r) ==
  /\ EarlyDisconnect
  /\ At(r, "created") /\ ~LoopBusy
  /\ Goto(r, "orphaned")
  /\ UNCHANGED <<lifecycleVars, lockHeld, workerVars, pool, call, queue, chunks>>

(* Mutant: the stop event is never set. *)
NeverStops(r) == FALSE

(* GeneratorExit: iterate() sets its stop event and waits for its job.      *)
StopSet(r) == At(r, "closing")

(* Mutant: the stop event is set, the job is not waited for.                *)
CloseAtOnce(r) ==
  /\ At(r, "closing")
  /\ Goto(r, "finish")
  /\ UNCHANGED <<lifecycleVars, lockHeld, workerVars, pool, call, queue, chunks>>

Close(r) ==
  /\ At(r, "closing")
  /\ ~HasJob(r)
  /\ Goto(r, "finish")
  /\ UNCHANGED <<lifecycleVars, lockHeld, workerVars, pool, call, queue, chunks>>
-----------------------------------------------------------------------------
(* The worker thread. *)
Head1 == Head(jobs)

(* The caller of the head job goes on at where; the worker takes the next.  *)
EndJob(where) ==
  /\ jobs' = Tail(jobs)
  /\ todo' = None
  /\ Goto(Head1.caller, where)
  /\ asked'    = [asked EXCEPT ![Head1.runtime] = call[Head1.caller].keepAlive]
  /\ sinceUse' = [sinceUse EXCEPT ![Head1.runtime] = 0]

(* Mutant: the TTS backend of another kind is not dropped first.            *)
StartKeepsOld ==
  /\ jobs # <<>> /\ todo = None /\ Head1.kind # "unload"
  /\ todo' = IF Ready(Head1.runtime, Head1.model) THEN <<>>
             ELSE LoadOrder(Head1.runtime, Head1.model)
  /\ UNCHANGED <<lifecycleVars, lockHeld, memory, jobs, asked, sinceUse,
                 requestVars>>

(* _load, up to the first part: nothing to do, the missing NLLB path, or    *)
(* the TTS model of another kind dropped.                                   *)
StartJob ==
  /\ jobs # <<>> /\ todo = None /\ Head1.kind # "unload"
  /\ LET n == Head1.runtime
         m == Head1.model
     IN \/ /\ Ready(n, m)
           /\ todo' = <<>>
           /\ UNCHANGED <<memory, jobs, asked, sinceUse, pc>>
        \/ /\ ~Ready(n, m) /\ n = "translation" /\ ~PathConfigured
           /\ jobs' = Tail(jobs)
           /\ Goto(Head1.caller, "fallback")
           /\ UNCHANGED <<memory, todo, asked, sinceUse>>
        \/ /\ ~Ready(n, m) /\ (n = "translation" => PathConfigured)
           /\ todo' = LoadOrder(n, m)
           /\ memory' = IF n = "tts" THEN [memory EXCEPT ![n] = {}] ELSE memory
           /\ UNCHANGED <<jobs, asked, sinceUse, pc>>
  /\ UNCHANGED <<lifecycleVars, lockHeld, pool, call, queue, chunks>>

LoadPart ==
  /\ todo # None /\ todo # <<>>
  /\ memory' = [memory EXCEPT ![Head1.runtime] = @ \cup {Head(todo)}]
  /\ todo'   = Tail(todo)
  /\ UNCHANGED <<lifecycleVars, lockHeld, jobs, asked, sinceUse, requestVars>>

(* Mutant: finish_request is not in a finally block.                        *)
EndUnfinished ==
  /\ jobs # <<>> /\ todo # None /\ Head1.kind = "infer"
  /\ todo # <<>> => Head(todo) \in FailingParts
  /\ EndJob("finish") \/ EndJob("release")
  /\ UNCHANGED <<lifecycleVars, lockHeld, memory, pool, call, queue, chunks>>

(* An inference returns, or raises while it loads or later. *)
EndInference ==
  /\ jobs # <<>> /\ todo # None /\ Head1.kind = "infer"
  /\ todo # <<>> => Head(todo) \in FailingParts
  /\ EndJob("finish")
  /\ UNCHANGED <<lifecycleVars, lockHeld, memory, pool, call, queue, chunks>>

(* Mutant: the length of the stream is not limited. *)
PutUnlimited ==
  /\ jobs # <<>> /\ todo = <<>> /\ Head1.kind = "stream"
  /\ LET r == Head1.caller
     IN /\ queue[r] = "empty" /\ ~StopSet(r)
        /\ queue'  = [queue EXCEPT ![r] = "value"]
        /\ chunks' = [chunks EXCEPT ![r] = @ - 1]
  /\ UNCHANGED <<lifecycleVars, lockHeld, workerVars, pool, pc, call>>

(* _iterate: put a chunk when the slot is free, ... *)
PutChunk ==
  /\ jobs # <<>> /\ todo = <<>> /\ Head1.kind = "stream"
  /\ LET r == Head1.caller
     IN /\ queue[r] = "empty" /\ ~StopSet(r)
        /\ chunks[r] > 0
        /\ queue'  = [queue EXCEPT ![r] = "value"]
        /\ chunks' = [chunks EXCEPT ![r] = @ - 1]
  /\ UNCHANGED <<lifecycleVars, lockHeld, workerVars, pool, pc, call>>

(* ... end with _Done or _Error in it, ... *)
EndStream ==
  /\ jobs # <<>> /\ todo # None /\ Head1.kind = "stream"
  /\ LET r == Head1.caller
     IN /\ queue[r] = "empty" /\ ~StopSet(r)
        /\ \/ todo = <<>> /\ queue' = [queue EXCEPT ![r] = "done"]
           \/ /\ todo # <<>> => Head(todo) \in FailingParts
              /\ queue' = [queue EXCEPT ![r] = "error"]
        /\ EndJob(pc[r])
  /\ UNCHANGED <<lifecycleVars, lockHeld, memory, pool, call, chunks>>

(* ... or notice the stop event, which it does only after loading.          *)
StopStream ==
  /\ jobs # <<>> /\ todo # None /\ Head1.kind = "stream"
  /\ todo # <<>> => Head(todo) \in FailingParts
  /\ StopSet(Head1.caller)
  /\ EndJob("closing")
  /\ UNCHANGED <<lifecycleVars, lockHeld, memory, pool, call, queue, chunks>>

(* The unload of a runtime, for a request or for a timer thread.  It drops  *)
(* the references first; when it raises after that, a request loses what    *)
(* follows finish_request in its finally block, the release of the lock,    *)
(* whereas a timer releases in a finally block of its own.                  *)
UnloadFor(r) ==
  /\ jobs # <<>> /\ Head1.kind = "unload" /\ Head1.caller = r
  /\ memory' = [memory EXCEPT ![Head1.runtime] = {}]
  /\ jobs'   = Tail(jobs)
  /\ \/ Goto(r, "release") /\ UNCHANGED pool
     \/ UnloadMayRaise /\ Goto(r, "lost") /\ LeaveThread(r)
  /\ UNCHANGED <<lifecycleVars, lockHeld, todo, asked, sinceUse,
                 call, queue, chunks>>

UnloadForTimer(n, g) ==
  /\ jobs # <<>> /\ Head1.kind = "unload" /\ Head1.caller = <<n, g>>
  /\ memory' = [memory EXCEPT ![n] = {}]
  /\ jobs'   = Tail(jobs)
  /\ LC!EndUnload(n, g)
  /\ UNCHANGED <<lockHeld, todo, asked, sinceUse, requestVars>>
-----------------------------------------------------------------------------
(* The timer threads and the clock. *)
TimerFire(n, g) ==
  /\ LC!Fire(n, g)
  /\ UNCHANGED <<lockHeld, workerVars, requestVars>>

(* Mutant: the result of acquire(blocking=False) is ignored.                *)
TimerIgnoresLock(n, g) ==
  /\ LC!LockTaken(n, g) /\ lockHeld' = TRUE
  /\ UNCHANGED <<workerVars, requestVars>>

TimerTryLock(n, g) ==
  /\ \/ lockHeld /\ LC!LockBusy(n, g) /\ UNCHANGED lockHeld
     \/ ~lockHeld /\ LC!LockTaken(n, g) /\ lockHeld' = TRUE
  /\ UNCHANGED <<workerVars, requestVars>>

TimerCheck(n, g) ==
  /\ LC!RescheduleIfCurrent(n, g) \/ LC!CheckGeneration(n, g)
  /\ UNCHANGED <<lockHeld, workerVars, requestVars>>

TimerUnload(n, g) ==
  /\ LC!StartUnload(n, g, IsLoaded(n))
  /\ IF IsLoaded(n) THEN Submit(Job(<<n, g>>, "unload", n, None))
                    ELSE UNCHANGED jobs
  /\ UNCHANGED <<lockHeld, memory, todo, asked, sinceUse, requestVars>>

TimerRelease(n, g) ==
  /\ LC!ReleaseLock(n, g)
  /\ lockHeld' = FALSE
  /\ UNCHANGED <<workerVars, requestVars>>

(* sinceUse counts no further than the longest keep-alive. *)
Tick ==
  /\ LC!Tick
  /\ sinceUse' = [n \in Runtimes |->
                    IF memory[n] # {} /\ sinceUse[n] < Max(Delays)
                    THEN sinceUse[n] + 1 ELSE sinceUse[n]]
  /\ UNCHANGED <<lockHeld, memory, jobs, todo, asked, requestVars>>
-----------------------------------------------------------------------------
HandlerStep(r) ==
  \/ Reject(r)      \/ Start(r)   \/ AcquireLock(r) \/ AcquireTimeout(r)
  \/ Begin(r)       \/ RunJob(r)  \/ Fallback(r)    \/ Finish(r)
  \/ UnloadNow(r)   \/ Release(r)
  \/ Open(r)        \/ Pull(r)    \/ Receive(r)     \/ Close(r)

ClientStep(r) == Read(r) \/ Disconnect(r)

WorkerStep ==
  \/ StartJob \/ LoadPart \/ EndInference
  \/ PutChunk \/ EndStream \/ StopStream
  \/ \E r \in Requests : UnloadFor(r)
  \/ \E n \in Runtimes, g \in LC!Generations : UnloadForTimer(n, g)

TimerStep(n, g) ==
  \/ TimerFire(n, g) \/ TimerTryLock(n, g) \/ TimerCheck(n, g)
  \/ TimerUnload(n, g) \/ TimerRelease(n, g)

Next ==
  \/ \E r \in Requests : Arrive(r) \/ HandlerStep(r) \/ ClientStep(r) \/ Orphan(r)
  \/ WorkerStep
  \/ \E n \in Runtimes, g \in LC!Generations : TimerStep(n, g)
  \/ Tick

Spec == Init /\ [][Next]_vars

(* The machine schedules every thread, and seconds pass.  Nothing is        *)
(* assumed of the clients, unless ClientFairness says so.                   *)
ServerFairness ==
  /\ \A r \in Requests : WF_vars(HandlerStep(r))
  /\ WF_vars(WorkerStep)
  /\ \A n \in Runtimes, g \in LC!Generations : WF_vars(TimerStep(n, g))
  /\ WF_vars(Tick)

ClientFairness == \A r \in Requests : WF_vars(ClientStep(r))

FairSpec   == Spec /\ ServerFairness
ClientSpec == FairSpec /\ ClientFairness
-----------------------------------------------------------------------------
(* Every variable has its type. *)
RequestPc ==
  {"idle", "queued", "waiting", "begin", "submit", "running", "fallback",
   "finish", "unload_now", "unloading", "release", "answered",
   "created", "orphaned", "lost", "suspended", "ready", "pulling", "closing"}

Callers == Requests \cup (Runtimes \X LC!Generations)

TypeOK ==
  /\ LC!TypeOK
  /\ lockHeld \in BOOLEAN
  /\ memory \in [Runtimes -> SUBSET Parts]
  /\ jobs \in Seq([caller : Callers, kind : {"infer", "stream", "unload"},
                   runtime : Runtimes, model : Parts \cup {"nllb", None}])
  /\ todo \in Seq(Parts) \cup {None}
  /\ pool \subseteq Requests
  /\ pc \in [Requests -> RequestPc]
  /\ call \in [Requests -> Calls \cup {None}]
  /\ queue \in [Requests -> {None, "empty", "value", "done", "error"}]
  /\ chunks \in [Requests -> 0..MaxChunks]
  /\ asked \in [Runtimes -> LC!KeepAlives]
  /\ sinceUse \in [Runtimes -> 0..Max(Delays)]

(* The requests and the timer threads inside a critical section of the      *)
(* inference lock.                                                          *)
TimerThreads == Runtimes \X LC!Generations

RequestHolds(r) == pc[r] \notin {"idle", "queued", "waiting", "answered"}

TimerHolds(t) ==
  thread[t[1]][t[2]].pc \in {"locked", "unload", "unloading", "release"}

Holders ==
  {r \in Requests : RequestHolds(r)} \cup {t \in TimerThreads : TimerHolds(t)}

(* Mutual exclusion: the inference lock is held exactly while one request   *)
(* or timer thread is between its acquire and its release.  The handlers    *)
(* hand it across threads: a stream acquires it in its handler and releases *)
(* it in whichever thread ends or drops the generator.                      *)
LockDiscipline ==
  /\ lockHeld <=> Holders # {}
  /\ \A a, b \in Holders : a = b

(* The serialized worker: the executor never queues a second job behind the *)
(* one it runs, and the one it runs belongs to whoever holds the inference  *)
(* lock; an abandoned stream or a timer leaves no job behind.               *)
OneJob ==
  /\ Len(jobs) <= 1
  /\ \A i \in DOMAIN jobs : jobs[i].caller \in Holders

(* Models do not outstay their keep-alive: whenever the lock is free, every *)
(* part of a model in memory, whose last user did not ask to keep it, has a *)
(* timer of the current generation on its way to unload it.                 *)
IdleMemoryIsScheduled ==
  \A n \in Runtimes :
    ~lockHeld /\ memory[n] # {} /\ asked[n] # None
      => LC!Pending(n, generation[n])

(* Models stay for their keep-alive: a timer that unloads a runtime does so *)
(* only once nothing has used it for as long as its last user asked.        *)
UnloadOnlyWhenIdle ==
  \A n \in Runtimes, g \in LC!Generations :
    LC!At(n, g, "unloading") =>
      asked[n] \in Delays /\ sinceUse[n] >= asked[n]

(* Where the model of a runtime is, as one sees it who knows nothing of     *)
(* locks and threads; a stream that was orphaned uses its model for good.   *)
Uses(r, n) ==
  /\ pc[r] \in {"created", "orphaned", "suspended", "ready", "pulling", "closing",
                "submit", "running", "fallback", "finish"}
  /\ Of(r) = n

UnloadsAtOnce(r, n) == pc[r] \in {"unload_now", "unloading"} /\ Of(r) = n

Leaves(n) ==
  \/ \E r \in Requests : UnloadsAtOnce(r, n)
  \/ thread[n][generation[n]].pc \in {"unload", "unloading"}

Place(n) ==
  IF \E r \in Requests : Uses(r, n) THEN "used"
  ELSE IF Leaves(n) THEN "leaving"
  ELSE IF memory[n] = {} THEN "out"
  ELSE IF LC!Pending(n, generation[n]) THEN "warm" ELSE "kept"

(* Only a timer that still waits has time left.                             *)
Left(n) == IF Place(n) = "warm" THEN thread[n][generation[n]].left ELSE 0

Policy == INSTANCE KeepAlivePolicy WITH
  place  <- [n \in Runtimes |-> Place(n)],
  left   <- [n \in Runtimes |-> Left(n)],
  wanted <- keepAlive

(* The server keeps its promise: lock, lifecycles, timers and worker        *)
(* together implement the policy, whatever interrupts the steps of one by   *)
(* those of another.                                                        *)
KeepsPolicy == Policy!Spec

(* Only one TTS model is in memory at a time, whatever order the three are  *)
(* asked for in, and whichever of them fails to load.                       *)
OneTtsModel ==
  "tts" \in Runtimes => Cardinality(memory["tts"]) <= 1

(* Every accepted request is served or refused, even when the client that   *)
(* holds the lock with its stream never reads on and the waiting handlers   *)
(* occupy the whole pool: the handler returns, at the latest with a 503.    *)
Handled(r) ==
  pc[r] \in {"answered", "suspended", "ready", "pulling", "closing",
             "orphaned", "lost"}

HandlersReturn ==
  \A r \in Requests : At(r, "queued") ~> Handled(r)

(* The event loop does not stay busy: closing the generator of a client     *)
(* that has gone, on the loop's own thread, sets the stop event, waits for  *)
(* the worker, finishes and releases, and the other connections go on.      *)
LoopComesFree == LoopBusy ~> ~LoopBusy

(* The lock comes free again: no request, however it ends, leaves it held.  *)
LockIsReleased == lockHeld ~> ~lockHeld

(* Where that fails, it is for one of two reasons: the lock is lost for     *)
(* good only by a client that left before its stream was first pulled, or   *)
(* by a request whose immediate unload raised in its finally block.  No     *)
(* other way out of a request, and no failure on a timer thread, loses it,  *)
(* provided that clients read on or leave.                                  *)
LockLost == \E r \in Requests : pc[r] \in {"orphaned", "lost"}

LockIsReleasedOrLost ==
  ClientFairness => (lockHeld ~> (~lockHeld \/ LockLost))

(* A model that nobody asked to keep leaves memory in the end, as long as   *)
(* clients go on and the lock is not lost.                                  *)
IdleModelsLeave ==
  ClientFairness =>
    \A n \in Runtimes :
      (memory[n] # {} /\ asked[n] # None)
        ~> (memory[n] = {} \/ asked[n] = None \/ LockLost)
=============================================================================
