------------------------------ MODULE Lifecycle ------------------------------
(***************************************************************************)
(* RuntimeLifecycle of lifecycle.py, one instance per runtime: the object  *)
(* that keeps a model warm for its keep-alive after a request and has a    *)
(* threading.Timer unload it afterwards.                                   *)
(*                                                                         *)
(* Every critical section of self._lock is one action.  The callback of a  *)
(* timer, _unload_if_idle, is a thread of its own with one action per      *)
(* step, because requests and other timers run between them.  The callers  *)
(* (the request handlers) and the inference lock belong to module Server;  *)
(* here they are unconstrained: a request may begin or finish at any       *)
(* moment, a runtime may be loaded or not, a try-lock may go either way.   *)
(*                                                                         *)
(* Time is counted down, not up: a waiting timer knows the seconds it has  *)
(* left and unloadAt the seconds until self._unload_at, which is what      *)
(* state() reports.  A timer thread is named by the generation it was      *)
(* started for; the thread that reschedules itself ends in the same        *)
(* critical section that starts its successor, which takes over its name.  *)
(***************************************************************************)
EXTENDS Integers

CONSTANTS
  Runtimes,       \* the runtimes that have a lifecycle (chat, embedding, ...)
  Delays,         \* the positive keep-alive durations requests may ask for
  RetryDelay,     \* seconds before a timer that found the lock busy retries
  MaxGeneration,  \* bound on the generation counter
  None            \* Python's None; as a keep-alive: keep the model loaded

ASSUME LifecycleAssumption ==
  /\ Delays \subseteq Nat \ {0}
  /\ RetryDelay \in Nat \ {0}
  /\ MaxGeneration \in Nat
  /\ None \notin Nat

(* What parse_keep_alive returns: None for a negative duration, or seconds. *)
KeepAlives  == Delays \cup {0, None}
Generations == 0..MaxGeneration

VARIABLES
  generation,  \* self._generation
  timer,       \* self._timer: None or the name of the thread it refers to
  unloadAt,    \* self._unload_at: None or the seconds until then
  keepAlive,   \* self._last_keep_alive
  thread       \* the timer threads of every runtime, by generation

lifecycleVars == <<generation, timer, unloadAt, keepAlive, thread>>

(* Where a timer thread is: waiting out its delay; about to try the         *)
(* inference lock (fired); about to reschedule (retry); holding the         *)
(* inference lock and about to compare generations (locked), to look at     *)
(* is_loaded (unload), blocked in self._unload() (unloading) or about to    *)
(* release the inference lock (release).                                    *)
ThreadPc == {"none", "waiting", "fired", "retry", "locked",
             "unload", "unloading", "release"}

NoThread       == [pc |-> "none", left |-> 0]
Waiting(delay) == [pc |-> "waiting", left |-> delay]

At(n, g, pc) == thread[n][g].pc = pc

(* Thread g of runtime n takes a step to pc. *)
Goto(n, g, pc) == thread' = [thread EXCEPT ![n][g] = [pc |-> pc, left |-> 0]]

Init ==
  /\ generation = [n \in Runtimes |-> 0]
  /\ timer      = [n \in Runtimes |-> None]
  /\ unloadAt   = [n \in Runtimes |-> None]
  /\ keepAlive  = [n \in Runtimes |-> None]
  /\ thread     = [n \in Runtimes |-> [g \in Generations |-> NoThread]]
-----------------------------------------------------------------------------
(* The threads of n after _cancel_timer_locked: Timer.cancel() stops a      *)
(* thread that still waits and does nothing to one whose callback runs.     *)
CancelTimer(n) ==
  [g \in Generations |-> IF timer[n] = g /\ At(n, g, "waiting")
                         THEN NoThread
                         ELSE thread[n][g]]

(* _schedule_unload_locked: start a thread for generation g; threads is     *)
(* what the rest of the critical section leaves of the threads of n.        *)
ScheduleUnload(n, delay, g, threads) ==
  /\ unloadAt' = [unloadAt EXCEPT ![n] = delay]
  /\ timer'    = [timer EXCEPT ![n] = g]
  /\ thread'   = [thread EXCEPT ![n] = [threads EXCEPT ![g] = Waiting(delay)]]

BeginRequest(n) ==
  /\ generation[n] < MaxGeneration
  /\ generation' = [generation EXCEPT ![n] = @ + 1]
  /\ thread'     = [thread EXCEPT ![n] = CancelTimer(n)]
  /\ timer'      = [timer EXCEPT ![n] = None]
  /\ unloadAt'   = [unloadAt EXCEPT ![n] = None]
  /\ UNCHANGED keepAlive

(* The critical section of finish_request.  What follows it, the immediate  *)
(* unload of a keep-alive of zero, is the caller's next step: UnloadsNow.   *)
FinishRequest(n, ka, isLoaded) ==
  /\ generation[n] < MaxGeneration
  /\ generation' = [generation EXCEPT ![n] = @ + 1]
  /\ keepAlive'  = [keepAlive EXCEPT ![n] = ka]
  /\ \/ /\ isLoaded /\ ka \in Delays
        /\ ScheduleUnload(n, ka, generation[n] + 1, CancelTimer(n))
     \/ /\ ~(isLoaded /\ ka \in Delays)
        /\ thread'   = [thread EXCEPT ![n] = CancelTimer(n)]
        /\ timer'    = [timer EXCEPT ![n] = None]
        /\ unloadAt' = [unloadAt EXCEPT ![n] = None]

UnloadsNow(ka, isLoaded) == isLoaded /\ ka = 0
-----------------------------------------------------------------------------
(* The timer thread: Timer.run waits, then calls _unload_if_idle(g).        *)
Fire(n, g) ==
  /\ At(n, g, "waiting") /\ thread[n][g].left = 0
  /\ Goto(n, g, "fired")
  /\ UNCHANGED <<generation, timer, unloadAt, keepAlive>>

(* inference_lock.acquire(blocking=False) fails or succeeds. *)
LockBusy(n, g) ==
  /\ At(n, g, "fired")
  /\ Goto(n, g, "retry")
  /\ UNCHANGED <<generation, timer, unloadAt, keepAlive>>

LockTaken(n, g) ==
  /\ At(n, g, "fired")
  /\ Goto(n, g, "locked")
  /\ UNCHANGED <<generation, timer, unloadAt, keepAlive>>

(* Mutants: the retry without its look at the generation, and without the   *)
(* new timer.                                                               *)
RescheduleAlways(n, g) ==
  /\ At(n, g, "retry")
  /\ ScheduleUnload(n, RetryDelay, g, thread[n])
  /\ UNCHANGED <<generation, keepAlive>>

RescheduleNever(n, g) ==
  /\ At(n, g, "retry")
  /\ Goto(n, g, "none")
  /\ UNCHANGED <<generation, timer, unloadAt, keepAlive>>

RescheduleIfCurrent(n, g) ==
  /\ At(n, g, "retry")
  /\ \/ /\ g # generation[n]
        /\ Goto(n, g, "none")
        /\ UNCHANGED <<timer, unloadAt>>
     \/ /\ g = generation[n]
        /\ ScheduleUnload(n, RetryDelay, g, thread[n])
  /\ UNCHANGED <<generation, keepAlive>>

(* Mutants: the deadline is not cleared; any generation will do.            *)
CheckKeepsDeadline(n, g) ==
  /\ At(n, g, "locked")
  /\ \/ g # generation[n] /\ Goto(n, g, "release") /\ UNCHANGED timer
     \/ /\ g = generation[n]
        /\ Goto(n, g, "unload")
        /\ timer' = [timer EXCEPT ![n] = None]
  /\ UNCHANGED <<generation, unloadAt, keepAlive>>

CheckNothing(n, g) ==
  /\ At(n, g, "locked")
  /\ Goto(n, g, "unload")
  /\ timer'    = [timer EXCEPT ![n] = None]
  /\ unloadAt' = [unloadAt EXCEPT ![n] = None]
  /\ UNCHANGED <<generation, keepAlive>>

CheckGeneration(n, g) ==
  /\ At(n, g, "locked")
  /\ \/ /\ g # generation[n]
        /\ Goto(n, g, "release")
        /\ UNCHANGED <<timer, unloadAt>>
     \/ /\ g = generation[n]
        /\ Goto(n, g, "unload")
        /\ timer'    = [timer EXCEPT ![n] = None]
        /\ unloadAt' = [unloadAt EXCEPT ![n] = None]
  /\ UNCHANGED <<generation, keepAlive>>

(* "if self._is_loaded(): self._unload()": the call blocks until it ends. *)
StartUnload(n, g, isLoaded) ==
  /\ At(n, g, "unload")
  /\ Goto(n, g, IF isLoaded THEN "unloading" ELSE "release")
  /\ UNCHANGED <<generation, timer, unloadAt, keepAlive>>

EndUnload(n, g) ==
  /\ At(n, g, "unloading")
  /\ Goto(n, g, "release")
  /\ UNCHANGED <<generation, timer, unloadAt, keepAlive>>

ReleaseLock(n, g) ==
  /\ At(n, g, "release")
  /\ Goto(n, g, "none")
  /\ UNCHANGED <<generation, timer, unloadAt, keepAlive>>

(* Mutant: the time left is not cut at zero. *)
LessUncut(seconds) == seconds - 1

(* One second passes.  A thread whose delay is over may still not have run. *)
Less(seconds) == IF seconds = 0 THEN 0 ELSE seconds - 1

Tick ==
  /\ thread' = [n \in Runtimes |-> [g \in Generations |->
                  [thread[n][g] EXCEPT !.left = Less(@)]]]
  /\ unloadAt' = [n \in Runtimes |->
                    IF unloadAt[n] = None THEN None ELSE Less(unloadAt[n])]
  /\ UNCHANGED <<generation, timer, keepAlive>>
-----------------------------------------------------------------------------
TimerStep(n, g) ==
  \/ Fire(n, g)
  \/ LockBusy(n, g)
  \/ LockTaken(n, g)
  \/ RescheduleIfCurrent(n, g)
  \/ CheckGeneration(n, g)
  \/ \E isLoaded \in BOOLEAN : StartUnload(n, g, isLoaded)
  \/ EndUnload(n, g)
  \/ ReleaseLock(n, g)

RequestStep(n) ==
  \/ BeginRequest(n)
  \/ \E ka \in KeepAlives, isLoaded \in BOOLEAN : FinishRequest(n, ka, isLoaded)

Next ==
  \/ \E n \in Runtimes : RequestStep(n)
  \/ \E n \in Runtimes, g \in Generations : TimerStep(n, g)
  \/ Tick

Spec == Init /\ [][Next]_lifecycleVars
-----------------------------------------------------------------------------
(* Every variable has its type. *)
TypeOK ==
  /\ generation \in [Runtimes -> Generations]
  /\ timer \in [Runtimes -> Generations \cup {None}]
  /\ unloadAt \in [Runtimes -> Nat \cup {None}]
  /\ keepAlive \in [Runtimes -> KeepAlives]
  /\ thread \in [Runtimes -> [Generations -> [pc : ThreadPc, left : Nat]]]

(* A thread that still stands for a promise to unload the runtime. *)
Pending(n, g) == thread[n][g].pc \in {"waiting", "fired", "retry", "locked"}

(* No timer is ever lost: a thread that waits out its delay is the one      *)
(* self._timer refers to and belongs to the current generation, so that     *)
(* the next begin_request or finish_request can cancel it.  A timer whose   *)
(* callback is being rescheduled while requests come and go is the case     *)
(* that could break it.                                                     *)
WaitingIsCancellable ==
  \A n \in Runtimes, g \in Generations :
    At(n, g, "waiting") => g = generation[n] /\ timer[n] = g

(* state() tells the truth: when it reports unload_in_seconds, a thread of  *)
(* the current generation is pending and is due in exactly that time, and   *)
(* when a thread of the current generation is pending the time is reported. *)
PublishedDeadline ==
  \A n \in Runtimes :
    /\ unloadAt[n] # None =>
         /\ Pending(n, generation[n])
         /\ thread[n][generation[n]].left = unloadAt[n]
    /\ Pending(n, generation[n]) => unloadAt[n] # None

(* A keep-alive that asks for no timer has none.  After a request that      *)
(* finished with "keep loaded" or with zero no deadline is published, no    *)
(* thread of the current generation is on its way to unload the model, and  *)
(* none of any generation waits to: an older timer whose callback was       *)
(* running when the request came, and found the lock busy, must not start   *)
(* another one behind the request's back.                                   *)
NoTimerUnlessAsked ==
  \A n \in Runtimes :
    keepAlive[n] \notin Delays =>
      /\ unloadAt[n] = None
      /\ ~Pending(n, generation[n])
      /\ \A g \in Generations : ~At(n, g, "waiting")
=============================================================================
