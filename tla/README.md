# A formal model of qwen-local

qwen-local is a single-process FastAPI service that serves OpenAI-shaped
endpoints (chat, embeddings, transcription, speech, translation) from local
models. Its own logic is small, and almost all of it is about *sharing*: one
inference at a time, one worker thread, models that are loaded on first use and
leave memory when their keep-alive is over, streams whose client may go away at
any moment. That logic is what these modules model, check and prove.

All source paths below are relative to `src/local_openai_mlx_provider/` unless
they start with `src/`.

## 1. The system

### Components, their state, their operations

| component | code | state | operations |
| --- | --- | --- | --- |
| RuntimeLifecycle (five: chat, embedding, tts, asr, translation) | `lifecycle.py` 27-131 | `_generation`, `_timer`, `_unload_at`, `_last_keep_alive`, and the timer threads it has started | `begin_request`, `finish_request`, `_unload_if_idle` (on a timer thread), `_reschedule_if_current`, `state` |
| Request handlers and the inference lock | `server.py` | `inference_lock`; a thread of AnyIO's pool per handler; temporary paths | the five inference endpoints, `_acquire_inference_lock`, `_chat_stream`, `_translate_with_llm`, `/health` |
| InferenceWorker | `inference_worker.py` | the queue of a `ThreadPoolExecutor(1)`, a thread-local `active`, per stream a `Queue(1)` and a stop event | `run`, `iterate`, `_put` |
| Model runtimes | `llm.py`, `embedding.py`, `asr.py`, `tts.py`, `translation.py` | the fields that refer to models, tokenizers and TTS backends | `_load`, `is_loaded`, `unload`, the inferences |
| Temporary audio files | `server.py` 424-500, 744-798, 809-855 | files in the temporary directory | create, write, ffmpeg, use, unlink |
| Signal check | `server.py` 858-897 | none | one pass over the samples of a WAV |
| Keep-alive parsing | `lifecycle.py` 134-162 | none | durations such as `5m`, `-1`, `0` |
| Health report | `server.py`, `lifecycle.py` 81-94 | none | reads deadline and `is_loaded` of each runtime |
| Configuration, wire types | `config.py`, `openai_types.py` | none | environment variables over defaults, required fields of a body |
| Launch scripts | `src/scripts`, `src/launchd` | none | launchd restarts the process |

### How they interact

A request of an endpoint runs in a thread of the pool. It validates its body,
acquires the inference lock (at most 60 seconds, then a 503), tells its
lifecycle that a request begins (which cancels the timer), hands a function to
the worker and waits. In a `finally` block it tells the lifecycle that the
request is over - which starts a timer, or unloads at once, or does neither,
depending on the keep-alive and on `is_loaded` - and releases the lock.

A streamed chat takes the lock and begins in its handler and then returns; the
generator `_chat_stream` goes on in a different pool thread for every chunk, is
suspended with the lock held in between, and finishes and releases in whichever
thread ends, closes or drops it.

A timer thread, once its delay is over, *tries* the same lock. If it is busy it
starts a new timer of one second, provided its generation is still the current
one; if it is free it compares generations, unloads through the worker and
releases.

Five kinds of shared state therefore meet: the inference lock, the lifecycles'
fields (each under its own small lock), the worker's queue, the models' memory
and the threads of the pool. `/health` reads three of them, step by step and
without the inference lock. The event loop, one thread, accepts requests, hands
work to the pool, and closes the generators of clients that have gone - itself,
waiting for the worker.

### What is hard

- A timer whose callback has started cannot be cancelled: whole requests fit
  between any two of its steps.
- The lock is released in another thread than the one that acquired it, and no
  `with` block pairs the two; a generator that never ran has no `finally`.
- An abandoned stream's job still occupies the worker; releasing before it ends
  lets two jobs overlap.
- Everyone who waits for the lock occupies a thread of the same pool that the
  holder needs for its next chunk.
- Loading fails between two parts of a model; an inference fails after loading.
- Values, the end mark and errors share a queue of one slot with a put that
  times out, retries and gives up when stopped.
- A file made with `delete=False` exists before its path is known to the code
  that removes it.
- A `finally` block of two calls, the first of which may raise, skips the second.
- A field set by a load that failed is there when the next load looks.
- Numbers of a JSON body may be `NaN` or `Infinity`, and NaN is on no side of any
  comparison.

`PROJECT.json` lists every such hazard at its line, with the properties that
would notice it going wrong, or the reason why none does yet.

### What makes each component correct

- Lifecycle: a timer that waits can be cancelled; the published deadline is that
  of a live timer; no timer runs that nobody asked for.
- Handlers and lock: one holder at a time; the lock always comes free; every
  accepted request is answered.
- Worker: one job at a time and none that outlives its call; streams deliver
  everything in order; closing ends a stream soon.
- Runtimes with lifecycles: a model leaves memory after its keep-alive, not
  before it and not never; TTS never holds two models.
- Audio files: no file in use disappears; no file is left behind, except by the
  failures that are known to leave one.
- Endpoints: a request is answered as it deserves, by the model it names, in the
  voice it names, with its own keep-alive; a refused one changes nothing.
- Signal check: the verdict of chunked reads is that of the whole first channel.
- Health: a report that no request overlaps is true of all runtimes at once.

## 2. The modules

| module | what it is |
| --- | --- |
| `Lifecycle` | one lifecycle per runtime, its timer threads and the clock; the requests and the inference lock are unconstrained |
| `LifecycleProofs` | theorems about `Lifecycle` |
| `Server` | handlers, stream generator, lock, pool, worker, memory of the runtimes, with `LC == INSTANCE Lifecycle` |
| `ServerProofs` | theorems about `Server`, among them that it implements `Lifecycle` |
| `KeepAlivePolicy` | what the service promises of models in memory; `Server` is shown to implement it |
| `ServerMemoryProofs` | theorems about what the runtimes of `Server` hold in memory, the refinement of `KeepAlivePolicy` among them |
| `Health` | `/health` as an observer; EXTENDS `Server` |
| `HealthProofs` | theorems about `Health`; EXTENDS `ServerMemoryProofs` |
| `InferenceWorker` | the worker in detail: queue, stop event, put loop, nested calls |
| `OrderedStream` | what the worker promises; `InferenceWorker` is shown to implement it |
| `InferenceWorkerProofs` | theorems about `InferenceWorker`, the refinement among them |
| `KeepAlive` | `parse_keep_alive` and its uses, on numbers that may be infinite or NaN |
| `Endpoints` | the five endpoints, one request after the other, from body to answer; EXTENDS `KeepAlive` |
| `EndpointsProofs` | theorems about `Endpoints`: loads and inferences, then answers, keep-alives and refusals |
| `AsrSignal` | the signal check of decoded audio |
| `AsrSignalProofs` | theorems about `AsrSignal`, after lemmas about sums over finite sets |
| `AudioFiles` | temporary files of both audio endpoints, with failures |
| `AudioFilesProofs` | theorems about `AudioFiles` |
| `MC...` | small instances for TLC, one per module with a run |

### Lifecycle

Each critical section of `RuntimeLifecycle._lock` is one action: `BeginRequest`,
`FinishRequest`, `RescheduleIfCurrent`, `CheckGeneration`. The callback
`_unload_if_idle` runs outside it, so each of its steps is an action too: `Fire`
(the delay is over), `LockBusy`/`LockTaken` (the try-lock), `StartUnload`
(`is_loaded` and the call of `_unload`), `EndUnload`, `ReleaseLock`.
`thread[n][g]` is the timer thread of runtime `n` started for generation `g`;
`timer[n]` names the one that `self._timer` refers to. `Timer.cancel` stops a
thread only while it waits: that is `CancelTimer`. Time is counted down:
`thread[n][g].left` and `unloadAt[n]` are the seconds still to go, and `Tick`
lets one pass. `Fire` needs `left = 0` but is never forced: a thread may be late.

A rescheduling thread starts its successor with its own generation and ends in
the same critical section, so the pair keeps one name. This loses nothing: the
old thread takes no further step on shared state.

### Server

`pc[r]` says where a request is:

| `pc` | code |
| --- | --- |
| `queued` | accepted, waiting for a thread of the pool |
| `waiting` | in `_acquire_inference_lock` |
| `begin` | lock held, before `begin_request` |
| `submit`, `running` | before and in `inference_worker.run` |
| `fallback` | NLLB said that no path is configured; before `_translate_with_llm` |
| `finish`, `unload_now`, `unloading`, `release` | the `finally` block |
| `created` | a `StreamingResponse` whose generator has not run yet |
| `suspended`, `ready`, `pulling` | between two chunks; a chunk is wanted; in `next()` |
| `closing` | `GeneratorExit` in `iterate()`, waiting for the job |
| `orphaned` | a generator dropped before its first `next()` |
| `lost` | `finish_request` raised: the lock was not released |
| `answered` | done |

`jobs` is the executor's queue and `todo` the parts the running job has still to
load (`None`: not started). `memory[n]` is the set of model parts the runtime
object refers to: one for most runtimes, `translator` then `tokenizer` for NLLB,
and the name of the backend for TTS. Loading is one step per assigned part,
because a failure between two of them is what matters. `FailingParts` says which
of them may raise; an inference may raise in any run, and with `UnloadMayRaise`
an unload may raise after it has dropped its references (`release_mlx_memory` is
called last). A timer thread releases the lock in a `finally` of its own and
survives that; a request that unloads at once does not.

The event loop is one thread. `OnLoop` says which requests occupy it: those whose
generator is being closed because the client has gone, up to the release. While
`LoopBusy` holds, nothing else that needs the loop happens: no request is
accepted, no work handed to the pool, no chunk sent, no disconnect noticed.

The handlers of the five endpoints have the same shape and are one set of
actions with the runtime as a parameter; translation adds `Fallback` and chat
adds the stream. Validation of the body is one nondeterministic `Reject`.
`inference_lock.acquire(timeout=60)` is `AcquireLock` when the lock is free and
`AcquireTimeout` when it is not: the sixty seconds are not counted, a time-out
may come at any moment the lock is busy. Queue and generator are at the
granularity of whole items here; `InferenceWorker` has the detail. The module
abstracts the runtimes' own locks, which only serialise calls that the worker
serialises already.

`asked` and `sinceUse` are history: the keep-alive of the last request for a
runtime (or of the last job that used it) and how long ago a job last used it.
No guard reads them. `sinceUse` stops at the longest keep-alive.

Each request goes through its life once. Every request starts two generations of
one runtime, so `MaxGeneration` is twice the number of requests and its guard
never binds in `Server`.

### KeepAlivePolicy

`src/README.md` (Model Lifecycle) promises in a few sentences what lifecycles,
timers, lock, handlers and worker bring about together, and this module says the
same as a state machine: a model is `out` of memory, `used`, kept `warm` for some
seconds, `kept` for good, or `leaving`. It comes into memory only by `Use`;
`Finish` decides by the keep-alive of the request what becomes of it, a failed
load included; a warm model whose seconds are over leaves (`Expire`) only at a
moment when no model is used or leaving, and is postponed otherwise. Locks,
generations, timer threads and jobs do not occur.

`Server` maps to it by `Place`, `Left` and `keepAlive`. A model is used from the
end of `begin_request` to `finish_request`, whoever runs the generator
meanwhile; an orphaned stream uses it for good. It is leaving while a request or
a timer thread of the current generation unloads it, and warm while such a
thread is pending; otherwise `memory` tells. `Begin` is `Use`, `Finish` is
`Finish`, the look at the generation is `Expire`, the reschedule is `Postpone`,
the end of an unload is `Leave`, and everything else - loads and jobs, chunks,
time-outs, threads that fire late, stale timers - changes nothing of the policy.

### InferenceWorker and OrderedStream

Each caller makes one call, `Run` or `Iterate`. The worker thread's program
counter distinguishes what other threads can interleave with: the look at the
stop event, the loop of `_put` with its time-out (`PutTry`, `PutFull`), the put
itself, the closing of the iterator in the `finally` block. The generator that
runs is the model's, not this code's: it yields, ends or raises freely. A
function on the worker may call `run` again (`NestedRun`); the flag `active`
makes that a plain call. `late` counts items generated after the stop event.

`OrderedStream` knows a status per call and two counters. It says that items are
delivered without a gap and in order, only until the call is closed, and that a
call that returns or raises has delivered all that was generated.

### Health

The handler runs on a pool thread and is five actions: it reads
`inference_lock.locked()`, then per runtime the deadline with the keep-alive
(`RuntimeLifecycle.state` under its lock) and `is_loaded` (outside it). All of
`Server` goes on between any two. `free` is history: whether the lock has stayed
free since it was read.

### Endpoints and KeepAlive

`Server` has one nondeterministic `Reject` and one kind of failure; `Endpoints`
has the rest of the handlers, without the interleaving: pydantic's required
fields, each handler's own checks in their order (`Checks`, `Bad`), the decoding
of audio, 503, the load of the right runtime with every outcome it may have
(`LoadOutcomes`: which fields are set afterwards, and what was raised), the
inference, the `except` clauses (`Catch`), the fallback to the LLM, the
`finally` block, the transcoding after it. Where a clause catches less than the
calls under it may raise, the model has both: `Decode` and `Transcode` answer 400
for a `ValueError` and 500 for anything else, and so does a keep-alive that is an
integer no float can hold (`Object`). A `finally` block that fails itself has the
last word: `RemoveFiles` for a transcription, whose answer of any kind an unlink
that raises replaces by a 500, and `Finish` for an unload at once that raises,
after which the lock is lost (`lockLost`) and no later request begins. A request
is an endpoint and a body; a body is a function from the fields that are there,
`stream` apart, to a few representative values. `environment` is what `config/model.env` sets; `settings` is what
`get_settings` makes of it. `Busy` stands for all the others who may hold the
lock, `Unload` for the timers.

`KeepAlive` gives a number one of four kinds (finite, `inf`, `-inf`, NaN) with
the comparisons of IEEE 754. A timer longer than `threading.TIMEOUT_MAX` is
`dead`: its thread raises before it waits.

### AsrSignal

`_validate_asr_audio_has_signal` with its header tests, its loop over chunks and
its conclusion. Peak, count and sum of squares are accumulated as the code does;
the properties define the same over the file's first channel as a whole. The
root of the mean square is compared with one, which is the comparison of the sum
of squares with the count; no other rounding takes part. A header may be that of
a WAV, of none (`wave.Error`, made a `ValueError`), or cut off (`EOFError`, caught
by nobody); reading may fail at any time with an `OSError` (`ReadFails`). What
nobody catches ends in the verdict `raised`, the 500 of `Endpoints!Decode`.

### AudioFiles

One handler is a transcription (upload, decode with ffmpeg when needed, use) or
a speech encoding (raw audio, ffmpeg, read back). Any of seven calls may
fail, `Failures` says which; two of them are unlinks, the decoder's own after
ffmpeg has failed (`discard`) and those of the `finally` block (`unlink`). `known[h]` is the set of paths the `finally` block sees:
a path is known only once the assignment after the write has run. A cleaner of
temporary directories, outside the repository, may take files away, which is why
the code tolerates missing ones.

## 3. What is checked

Each run is one question. All bounds are in the `.cfg` named.

| run | configuration | question | result |
| --- | --- | --- | --- |
| `lifecycle` | `Lifecycle.cfg` | do timer, deadline and generation agree, whatever the order of requests and callbacks? | holds; 8 401 states |
| `models` | `ServerModels.cfg` | do models leave memory after their keep-alive, neither early nor never; does TTS hold one model; is `KeepAlivePolicy` implemented? | holds; 682 916 states |
| `exclusion` | `ServerExclusion.cfg` | is the lock exclusive and the worker serial, with streams that stall, break off or are orphaned, fallbacks and unloads that raise? | holds; 1 552 597 states |
| `progress` | `ServerLiveness.cfg` | does every handler return and the event loop come free whatever clients do; with clients that go on, does the lock come free but for two known reasons, and do idle models leave? | holds; 58 532 states |
| `health` | `Health.cfg` | what is a report worth that is read in steps? | holds; 1 740 163 states |
| `endpoints` | `Endpoints.cfg` | is each request answered, served and kept alive as it asked, after any other two, in five configurations, with every failure of loads, inferences, files and unloads? | holds; 660 662 states |
| `asr_signal` | `AsrSignal.cfg` | is the verdict of the chunked reads that of the definition? | holds; 416 209 states |
| `worker` | `InferenceWorker.cfg` | does no job outlive its call, is a stop prompt, do nested calls pass, is `OrderedStream` implemented, do closes and calls end? | holds; 31 025 states |
| `audio_files` | `AudioFiles.cfg` | which failures leave a file behind, and does a file in use stay? | holds; 26 106 states |
| `fallback_outstays`, `partial_load`, `orphaned_stream` | see section 5 | documented behaviour the code does not have | violated |

### Bounds, and why they are enough

- Three requests where three can matter: a holder, one that waits and one that
  comes while a timer of the first is pending. Two requests where a property
  is temporal and both orders of two already show it. Two callers of the worker: one
  job runs, one is queued, and a third would queue behind it in the same way.
- Keep-alives of zero, `None` and one second, and two seconds in `lifecycle` and
  `models`, so that a longer one can follow a shorter one; the retry delay is
  one second as in the code, so that a keep-alive is equal to it, or longer.
- Streams of at most one or two chunks in `Server` and three items in
  `InferenceWorker`: the queue has one slot, so two items make the put wait and
  a third follows a wait.
- A pool of two threads for three requests, so that the pool can be full of
  handlers waiting for the lock. The code's forty need forty-one clients for the
  same situation.
- In `models`, the second part of NLLB does not fail, and a path is configured:
  the two cases it leaves out are those of section 5, where the property is
  violated. The first part does fail.
- In `progress`, one thread in the pool and two requests: the handler that waits
  for the lock then occupies the very thread the stream needs. Two chunks, so
  that a stream is also left between them. Clients may leave at any moment and
  unloads may raise; both ways of losing the lock are in the run, and
  `LockIsReleasedOrLost` says that there is no third.
- In `health`, two runtimes and two requests beside one report, a pool of two:
  one request may begin, end or time out between any two reads.
- In `endpoints`, three requests: one leaves a runtime in some state, one is
  refused or turned away or fails on it, and one must still be served rightly.
  About seventy requests: a good one of every kind, and each with a field
  missing or at fault, two at fault where the order of the checks shows, and
  edge values of numbers. Five environments: as shipped, NLLB set up and one
  model for both kinds of Qwen3-TTS, other defaults, a bad keep-alive with unknown
  backends, and default formats that are none of their endpoint's.
  `threading.TIMEOUT_MAX` is scaled down to 100 000 seconds, between one day and
  two, which is all that is told apart.
- In `asr_signal`, chunks of two frames for the code's 8 192, all mono files of
  up to five frames and stereo files of up to four with samples in {-2, 0, 1},
  frame rates that put four frames on both sides of a quarter of a second (12,
  16, 17) and zero, headers that announce what is there or more; and a few files
  with other widths, the extreme samples, and headers of no WAV or cut off.

Deadlock is checked wherever the system cannot stop. It is not
(`CHECK_DEADLOCK FALSE`) in `InferenceWorker`, `AudioFiles`, `AsrSignal` and
`Endpoints`, where all calls, handlers, files or requests of a run may be over and
nothing is left to do. In `Server`, `Health` and `Lifecycle` the clock always
ticks, so that deadlock says little there; the liveness properties say that
requests and unloads go on.

### Fairness

`ServerFairness` gives weak fairness to each handler, the worker, each timer
thread and the clock: these are operating-system threads that run when they can.
It assumes nothing of the clients, and `HandlersReturn` and `LoopComesFree` hold
under it alone. `ClientFairness` says that a client either reads what it was sent
or goes away. It is a premise within `LockIsReleasedOrLost` and
`IdleModelsLeave`, which need it, because a client that stops reading without
leaving keeps its stream, and with it the lock, as long as it likes: the code has
no time-out there. `orphaned_stream` is refuted under both (`ClientSpec`), so that
it is no matter of a thread or a client that merely stops. In `InferenceWorker`
the threads are fair (`FairSpec`); `CallsEnd` has the premise that the consumer
resumes or closes, `CloseEnds` has none. No strong fairness is used, although a
try-lock may in principle always meet a busy lock: the requests of a run are
finitely many, so that from some time on the lock is free whenever the timer
looks. `Health`, `Endpoints`, `AsrSignal` and `AudioFiles` are checked for safety
only.

### Mutants

Every property of a passing run is paired in `PROJECT.json` with a plausible
defect in the code (a retry that does not compare generations, a `finally` that
does not wait for the job, a put that gives up on a full queue, ...) under which
TLC finds that property violated. The mutated operators stand before the ones
they replace and are marked as such.

## 4. What is proved

TLAPS checks these for all values of the constants that satisfy the assumption
of the module (`LifecycleAssumption`, `ServerAssumption`, `EndpointsAssumption`,
...): any set of runtimes, requests and calls, any delays with a longest one, any
pool, stream length and failing parts, any settings, and both answers to what may
raise or leave early.

| theorem | statement |
| --- | --- |
| `LifecycleProofs!TypeCorrect` | the type invariant of `Lifecycle` |
| `LifecycleProofs!Invariant` | the inductive invariant `IInv` |
| `TimersAreCancellable`, `DeadlineIsTrue`, `TimersAreAskedFor` | the three safety invariants of the `lifecycle` run |
| `ServerProofs!LockInvariant` | the inductive invariant `LockInv` |
| `LockIsExclusive` | `LockDiscipline`: the lock is held exactly while one thread is in its critical section |
| `WorkerIsSerial` | `OneJob`: never a second job, and the one job is the holder's |
| `LifecyclesInServer` | every behaviour of `Server` is one of `Lifecycle` |
| `ServerMemoryProofs!MemoryInvariant` | the inductive invariant `MemoryInv` |
| `OneTtsHolds` | `OneTtsModel` |
| `NoEarlyUnload` | `UnloadOnlyWhenIdle`, where the NLLB path is configured |
| `NothingIsForgotten` | `IdleMemoryIsScheduled`, where it is configured and the tokenizer does not fail to load |
| `ImplementsKeepAlivePolicy` | `KeepsPolicy`: `Server` implements `KeepAlivePolicy`, under the same two conditions |
| `ServerMemoryProofs!TypeCorrect` | the type invariant of `Server` |
| `InferenceWorkerProofs!WorkerInvariant` | the inductive invariant of the worker |
| `TypeCorrect`, `NoJobIsLeft`, `StopIsPrompt`, `NoSelfWait` | the four invariants of the `worker` run |
| `ImplementsOrderedStream` | `DeliversInOrder`: the worker implements `OrderedStream` |
| `AudioFilesProofs!FileInvariant` | the inductive invariant of the audio handlers |
| `TypeCorrect`, `LeaksExplained`, `NoFileInUseIsRemoved` | the three invariants of the `audio_files` run |
| `EndpointsProofs!UseInvariant` | the inductive invariant `UseInv` |
| `UsedWhenLoaded`, `SpeechIsAsAsked` | `LoadedWhenUsed` and `SpokenAsAsked` |
| `AnswerInvariant` | the inductive invariant `AnswerInv`, which includes `UseInv` |
| `EndpointsTypes` | the type invariant of `Endpoints` |
| `EveryAnswerFits` | `AnswersFit`: a request gets past the checks if and only if it is `Acceptable`, and every status has its cause |
| `KeepAliveDecides` | `KeepAliveHonoured` |
| `RefusalsTouchNothing` | `OnlyServedRequestsTouch`, an action property |
| `HealthProofs!HealthInvariant` | the inductive invariant `HealthInv` |
| `HealthTypes` | the type invariant of `Health` |
| `DeadlineGoesWithKeepAlive` | `DeadlineFitsKeepAlive` |
| `FreeReportHolds` | `FreeReportIsTrue`, where the NLLB path is configured |
| `AsrSignalProofs!SignalInvariant` | the inductive invariant `SignalInv` |
| `FirstChannelCounted`, `VerdictsAreRight` | `CountsFirstChannel` and `VerdictIsRight`, for any files and any size of the chunks |

**The invariant of Lifecycle.** None of the three properties is inductive. A
step of `FinishRequest` starts a thread for a *new* generation; that it cannot
revive or overwrite an older thread needs `NoFutureThread`. That a rescheduled
thread can be cancelled needs `TimerIsCurrent`: the pending thread of the
current generation and `self._timer` come and go together. `DeadlineIsTimers`
and `TimerIsAskedFor` tie the deadline and the keep-alive to the timer, and
`OnlyWaitingCounts` says that the seconds left of a thread that has fired are
zero, which the reschedule relies on. Their conjunction, `RuntimeInv`, is local
to a runtime; `StepsAreLocal` shows that a step touches one runtime only.

**The invariant of Server.** Exclusiveness of the lock and serial use of the
worker cannot be proved one without the other. `EndJob`, `UnloadFor` and
`Release` are steps of *different* threads that move the same request through
its critical section; that the thread which ends a job finds the caller
waiting for exactly this job is `Waits`. That a new job never meets an old one
follows because the submitter holds the lock, so that the old job's caller
would be another holder - unless it is itself, which its place excludes
(`NoJob`). The stream makes the case distinction: its job is there exactly
from the second `next()` until its last item has been put, or until `Close` has waited for it.
`Fresh` says that the thread a finishing request starts is not one that holds
the lock already. `LockInv` is the conjunction of types, `Fresh`, `Exclusive`
and `AtMostOneJob`. `orphaned` requests are holders for good: the theorem does
not say that the lock comes free, and it does not.

**Carrying over.** By `LifecyclesInServer`, what is proved of `Lifecycle` with
unconstrained requests and an arbitrary lock is true of the lifecycles within
the server.

**The invariant of the memory.** `MemoryInv` adds to `LockInv` what the models
in memory have to do with timers and requests. A request *cares* for its runtime
from `begin_request` to the end of its `finish_request` (`Cares`). `Due` says of
a pending timer that nobody cares for its runtime and that the time since the
last use plus the time left is at least what was asked; a request that begins
makes it not pending, which is why nobody's use can fall between. `Expired`
carries this past the try-lock to the thread that unloads. `Kept` is the other
direction: what may leave has a timer, is being unloaded, or somebody cares.
Both need a job to be for its caller's own runtime (`OwnRuntime`), which the
fallback breaks, and `Kept` needs NLLB to be whole or absent between loads
(`WholeNllb`), which a failing tokenizer breaks: the two premises of the theorems
are the first two findings of section 5, and the proofs show that there is no
other way.

**The refinement of the policy.** The two invariants say what is true between
steps; `ImplementsKeepAlivePolicy` says that nothing else than the policy's steps
ever happens to a model. Its invariant `PolicyInv` is `MemoryInv` with that of
`Lifecycle`, which is needed because a thread that has fired must have no time
left. Most steps stutter, and that is the larger part of the proof: while a
request uses a runtime none of its timers is pending, so that what jobs load and
unload is hidden behind `used` (`JobStutters`); a thread of an older generation
is not the one that `Place` looks at. That a model expires only at a quiet
moment (`NobodyActs`) is the exclusiveness of the lock: the thread that looks at
the generation holds it, hence no request is between begin and release and no
other thread unloads. Both conditions are needed: a fallback brings a model into
memory that nobody `Use`s, and half of NLLB stays `kept` without having been
asked to, which are the first two findings.

**The invariant of the worker.** The jobs in the executor's queue are distinct,
and each belongs to a call that is still on (`Live`, `NotStarted`), so that
nothing is left behind. `Counted` and `Numbered` say that what was delivered,
what is in the one slot and what the thread has in hand are the numbers from one
on, without a gap; `Marked` that the end mark comes after all of them; `Prompt`
that the item generated after a stop is the last one. The refinement then reads
the counters of `OrderedStream` off these.

**The invariant of the audio handlers** says for every place of the handler which
of its two files exist, which it knows, and by which failure it got there.

**The invariant of the endpoints.** `MemoryShape` lists what the fields of a
runtime can be between requests, including what failed loads leave:
embedding may have its function without a model, NLLB its translator without a
tokenizer; every other combination is excluded. `InUse` says that an inference
has found the whole runtime, for TTS the backend of just the name asked for, and
`Said` carries this to the answer. `Good` is the lemma behind it: what every
outcome of every `_load` makes of one of these shapes.

**The invariant of the answers.** `AnswerInv` adds to `UseInv` the types and what
the place of a handler says of its request. `Judged`: beyond the checks a request
is acceptable, and it has begun exactly when it got the lock, which is not lost
then. Its heart is `Judgement`: `Checks` is a sequence in the handler's order and
`Acceptable` a condition without order, and for every endpoint the sequence finds
a fault if and only if the condition fails. A request refused by the checks gets
its status from the first fault, which is 500 only for an integer that no float
can hold; one that is served, only from what its load, its inference or its
transcoding did (`FitsInference`). A transcription has more ways out, before it
begins and in its `finally` block; `FitsTranscription` says what each status still
means there. `Kept` carries what `finish_request` has arranged past the
transcoding and the timers that fire meanwhile, which leave nothing loaded. The
bodies of the assumption have fields of the wire types; pydantic has refused the
others.

**The invariant of the health report.** No report can be true unless the server
is in order between its reads, which is `ServerInv`: the invariants of `Lifecycle`
and of the memory, and `Attended`: a pending timer has a model to unload, and a
loaded model whose keep-alive is not `None` has a pending timer, is just being
unloaded, or a request cares for it. `Picture` says that, as long as the lock has
stayed free since the first read, all that was read is still true: whoever loads
or unloads, or starts a request, holds the lock, and the steps of the others - a
clock, a timer that fires, a time-out of one that waits - do not change it. The
path must be configured, as in `NoEarlyUnload`: without it a fallback loads the LLM
behind the back of its lifecycle, and TLC finds such a report. `Fitting`
needs no free lock: deadline and keep-alive are read in one critical section, and
`DeadlinesFit` holds of every lifecycle at all times.

**The invariant of the signal check** says that the reader stands at the start of
a frame, and what the three counters are. The code sums over the indexes of a
chunk that it does not skip, the definition over the frames of the file.
`SumRenamed` and `SumOfParts` bring the two together: a sum depends neither on
the names of what is summed nor on the order. The library defines these
sums by a recursive function on sets that picks any element; `SumsExist` and
`SumsAgree` show that it is well-defined. The induction they need is
`ElementByElement`, which speaks of a *set* of subsets instead of a property, since
the provers cannot apply induction theorems that take an operator. That the
chunk of a truncated file ends at a frame, too, is `WholeFrames`.

TLC has checked each inductive invariant (of `HealthInv`, all but the quantifier
over counters in `LockInv`; of `ReaderInv`, with `File` for `Files`) on the run of
its module before it was proved.

**Only model-checked:** the six liveness properties. Liveness under fairness, and
`ENABLED`, are out of the prover's reach and stay with TLC. Every other property
of a passing run is stated by a theorem. No module declares a RECURSIVE operator.

## 5. Where the code and its documentation disagree

1. **A fallback translation outstays its keep-alive** (`fallback_outstays`).
   The shipped configuration sets no `TRANSLATION_MODEL_PATH`
   (`src/config/model.env:17`). A translation then runs on the LLM
   (`server.py:556`), of which only the translation lifecycle is told
   (`server.py:564`); that runtime is not loaded, so no timer starts, and the LLM
   stays in memory until some chat request ends. `src/README.md:309-312`
   promises an unload after `MODEL_KEEP_ALIVE`. The other way round, the timer of
   an earlier chat is not cancelled by the translation and unloads the LLM right
   after it, although `src/README.md:43` says "5 minutes after the last request".
2. **Half a model stays for good** (`partial_load`). The translator is assigned
   before the tokenizer is loaded (`translation.py:69-76`); when the tokenizer
   raises, `is_loaded` is false and `finish_request` starts no timer.
3. **An orphaned stream keeps the lock** (`orphaned_stream`). The lock is
   acquired before the response exists (`server.py:196`) and released in the
   `finally` block of a generator which, when the client is gone before its
   first `next()`, never runs. All later requests time out.

Besides these, the models record behaviour that contradicts no document but that
a maintainer may want to know of:

- An unload at once that raises loses the lock as well: the release follows
  `finish_request` in the same `finally` block (`server.py:222-223` and its
  siblings). `LockIsReleasedOrLost` names it as the one other exception.
- A transcription whose temporary files or whose start of ffmpeg raise an
  `OSError`, or whose decoded file ends within its header (`EOFError`), is answered
  500 without having asked for the lock: `server.py:466-473` and 889 catch only
  `ValueError` and `wave.Error`. So is speech whose encoder cannot be started, after
  the inference (`server.py:414-418`).
- An unlink that fails in the `finally` block of a transcription (`server.py:498`)
  answers 500 in place of the text, the 400 or the 503. One that fails in the
  decoder (`server.py:838-846`) leaves the decoder's output behind, which nobody
  else knows.
- A `keep_alive` that is a JSON integer beyond the range of floats is answered 500:
  `float()` raises `OverflowError` (`lifecycle.py:141`), and only
  `KeepAliveParseError` is caught.
- `speed` and `temperature` may be NaN: each test is a comparison, and false.
- A keep-alive that is infinite, or longer than `threading.TIMEOUT_MAX`, publishes
  a deadline whose timer thread has died; `KeepAliveHonoured` says exactly when.
- Quality TTS without a voice is refused with 400: the default voice is one of
  Kokoro's.
- A `MODEL_KEEP_ALIVE` that is no duration is found out only by the requests that
  do not bring their own, which are answered with 400.
- `/health` that overlaps a request may show a model unloaded with a deadline, or
  loaded without one; `FreeReportIsTrue` says when it may not.

## 6. What is not modelled, and why

- What the models compute: native MLX and CTranslate2 code.
- Payloads, wording, usage counts and logging: no property is about them.
- The characters of durations and the conversion of numbers in the environment;
  pydantic's checks of types; how the installed FastAPI renders an infinite or
  NaN keep-alive in `/health`: library behaviour outside the repository.
- The `stream` field in `Endpoints`: the streamed branch of chat
  (`server.py:191-206`) checks the same fields and is modelled in `Server`. Building
  the body of a good answer after the lock is released is taken to succeed.
- WAV data that end within a frame: the decoded file is written by ffmpeg in whole
  frames.
- The clock of the lock's time-out (see `AcquireTimeout`).
- The memory helpers at the end of `lifecycle.py`, which touch no state of the
  service.
- Launch scripts. launchd restarts the process; nothing of its state persists, so
  that a restart is `Init`.

## 7. Plan

Done, in this order: `Lifecycle` and its proofs; `Server` on top of it and its
safety and liveness runs; `InferenceWorker` with `OrderedStream`; `AudioFiles`;
`ServerProofs`; `Health`, `AsrSignal`, `KeepAlive` and `Endpoints`; the proofs
about the memory of `Server`, the worker, the audio files and the loads of the
endpoints; those about the answers of the endpoints, the health report and the
signal check; `KeepAlivePolicy` and its refinement by `Server`.

What is left to add: `InferenceWorker` in place of the abstract queue of
`Server`, were the state space to allow it.
