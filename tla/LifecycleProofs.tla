--------------------------- MODULE LifecycleProofs ---------------------------
(***************************************************************************)
(* Theorems about Lifecycle, for every set of runtimes, of delays and      *)
(* every bound on the generations.  None of the three safety invariants is *)
(* inductive; RuntimeInv says what the lock of a lifecycle really guards.  *)
(***************************************************************************)
EXTENDS Lifecycle, TLAPS

(* What holds of runtime n between two critical sections: no thread exists  *)
(* for a generation to come; self._timer, self._unload_at and a pending     *)
(* thread of the current generation come and go together; a thread that     *)
(* waits is of the current generation.                                      *)
NoFutureThread(n) ==
  \A g \in Generations : g > generation[n] => thread[n][g] = NoThread

TimerIsCurrent(n) ==
  /\ timer[n] # None => timer[n] = generation[n] /\ Pending(n, generation[n])
  /\ Pending(n, generation[n]) => timer[n] = generation[n]

WaitingIsCurrent(n) ==
  \A g \in Generations : At(n, g, "waiting") => g = generation[n]

DeadlineIsTimers(n) ==
  /\ unloadAt[n] # None <=> timer[n] # None
  /\ unloadAt[n] # None => thread[n][generation[n]].left = unloadAt[n]

TimerIsAskedFor(n) == timer[n] # None => keepAlive[n] \in Delays

OnlyWaitingCounts(n) ==
  \A g \in Generations : ~At(n, g, "waiting") => thread[n][g].left = 0

RuntimeInv(n) ==
  /\ NoFutureThread(n)
  /\ TimerIsCurrent(n)
  /\ WaitingIsCurrent(n)
  /\ DeadlineIsTimers(n)
  /\ TimerIsAskedFor(n)
  /\ OnlyWaitingCounts(n)

IInv == TypeOK /\ \A n \in Runtimes : RuntimeInv(n)
-----------------------------------------------------------------------------
(* None is neither a generation nor a number of seconds, and a delay is a   *)
(* positive number of seconds.                                              *)
LEMMA Constants ==
  /\ None \notin Generations /\ None \notin Nat
  /\ Delays \subseteq Nat /\ RetryDelay \in Nat
  /\ Generations \subseteq Nat /\ 0 \in Generations
  /\ \A d \in Delays \cup {RetryDelay} : d # 0 /\ d # None
BY LifecycleAssumption DEF LifecycleAssumption, Generations

LEMMA InitType == Init => TypeOK
BY Constants DEF Init, TypeOK, KeepAlives, NoThread, ThreadPc

(* Cancelling leaves the threads well-typed, and changes only a thread      *)
(* that waits.                                                              *)
LEMMA CancelType ==
  ASSUME TypeOK, NEW n \in Runtimes
  PROVE  CancelTimer(n) \in [Generations -> [pc : ThreadPc, left : Nat]]
BY DEF TypeOK, CancelTimer, NoThread, ThreadPc

LEMMA RequestType ==
  ASSUME TypeOK, NEW n \in Runtimes, RequestStep(n)
  PROVE  TypeOK'
<1>1. CancelTimer(n) \in [Generations -> [pc : ThreadPc, left : Nat]]
  BY CancelType
<1>2. CASE BeginRequest(n)
  <2>1. generation[n] + 1 \in Generations
    BY <1>2, LifecycleAssumption
    DEF BeginRequest, TypeOK, Generations, LifecycleAssumption
  <2> QED BY <1>1, <1>2, <2>1 DEF BeginRequest, TypeOK
<1>3. ASSUME NEW ka \in KeepAlives, NEW isLoaded \in BOOLEAN,
             FinishRequest(n, ka, isLoaded)
      PROVE  TypeOK'
  <2>1. generation[n] + 1 \in Generations
    BY <1>3, LifecycleAssumption
    DEF FinishRequest, TypeOK, Generations, LifecycleAssumption
  <2>2. generation' \in [Runtimes -> Generations]
        /\ keepAlive' \in [Runtimes -> KeepAlives]
    BY <1>3, <2>1 DEF FinishRequest, TypeOK
  <2>3. CASE isLoaded /\ ka \in Delays
    <3>1. Waiting(ka) \in [pc : ThreadPc, left : Nat]
      BY <2>3, Constants DEF Waiting, ThreadPc
    <3>2. ScheduleUnload(n, ka, generation[n] + 1, CancelTimer(n))
      BY <1>3, <2>3 DEF FinishRequest
    <3> QED
      BY <1>1, <2>1, <2>2, <2>3, <3>1, <3>2, Constants
      DEF ScheduleUnload, TypeOK
  <2>4. CASE ~(isLoaded /\ ka \in Delays)
    BY <1>1, <1>3, <2>2, <2>4 DEF FinishRequest, TypeOK
  <2> QED BY <2>3, <2>4
<1> QED BY <1>2, <1>3 DEF RequestStep

(* A thread that goes from one place to another stays well-typed.           *)
LEMMA GotoType ==
  ASSUME TypeOK, NEW n \in Runtimes, NEW g \in Generations,
         NEW where \in ThreadPc, Goto(n, g, where)
  PROVE  thread' \in [Runtimes -> [Generations -> [pc : ThreadPc, left : Nat]]]
BY DEF TypeOK, Goto

LEMMA TimerType ==
  ASSUME TypeOK, NEW n \in Runtimes, NEW g \in Generations, TimerStep(n, g)
  PROVE  TypeOK'
<1> USE DEF ThreadPc
<1>1. CASE Fire(n, g)
  BY <1>1, GotoType DEF Fire, TypeOK
<1>2. CASE LockBusy(n, g)
  BY <1>2, GotoType DEF LockBusy, TypeOK
<1>3. CASE LockTaken(n, g)
  BY <1>3, GotoType DEF LockTaken, TypeOK
<1>4. CASE RescheduleIfCurrent(n, g)
  <2>1. CASE g # generation[n]
    BY <1>4, <2>1, GotoType DEF RescheduleIfCurrent, TypeOK
  <2>2. CASE g = generation[n]
    <3>1. Waiting(RetryDelay) \in [pc : ThreadPc, left : Nat]
      BY Constants DEF Waiting
    <3>2. ScheduleUnload(n, RetryDelay, g, thread[n])
      BY <1>4, <2>2 DEF RescheduleIfCurrent
    <3> QED
      BY <1>4, <3>1, <3>2, Constants
      DEF RescheduleIfCurrent, ScheduleUnload, TypeOK
  <2> QED BY <2>1, <2>2
<1>5. CASE CheckGeneration(n, g)
  BY <1>5, GotoType DEF CheckGeneration, TypeOK
<1>6. ASSUME NEW isLoaded \in BOOLEAN, StartUnload(n, g, isLoaded)
      PROVE  TypeOK'
  BY <1>6, GotoType DEF StartUnload, TypeOK
<1>7. CASE EndUnload(n, g)
  BY <1>7, GotoType DEF EndUnload, TypeOK
<1>8. CASE ReleaseLock(n, g)
  BY <1>8, GotoType DEF ReleaseLock, TypeOK
<1> QED
  BY <1>1, <1>2, <1>3, <1>4, <1>5, <1>6, <1>7, <1>8 DEF TimerStep

LEMMA TickType ==
  ASSUME TypeOK, Tick
  PROVE  TypeOK'
<1>1. \A s \in Nat : Less(s) \in Nat
  BY DEF Less
<1>2. unloadAt' \in [Runtimes -> Nat \cup {None}]
  BY <1>1 DEF TypeOK, Tick
<1>3. ASSUME NEW n \in Runtimes, NEW g \in Generations
      PROVE  [thread[n][g] EXCEPT !.left = Less(@)] \in [pc : ThreadPc, left : Nat]
  <2>1. thread[n][g] \in [pc : ThreadPc, left : Nat]
    BY DEF TypeOK
  <2>2. Less(thread[n][g].left) \in Nat
    BY <1>1, <2>1
  <2> QED BY <2>1, <2>2
<1>4. thread' \in [Runtimes -> [Generations -> [pc : ThreadPc, left : Nat]]]
  BY <1>3 DEF Tick
<1> QED BY <1>2, <1>4 DEF TypeOK, Tick

(* Every variable of a lifecycle has its type in every reachable state.     *)
THEOREM TypeCorrect == Spec => []TypeOK
<1>1. Init => TypeOK
  BY InitType
<1>2. TypeOK /\ [Next]_lifecycleVars => TypeOK'
  <2> SUFFICES ASSUME TypeOK, [Next]_lifecycleVars
               PROVE  TypeOK'
    OBVIOUS
  <2>1. CASE Next
    BY <2>1, RequestType, TimerType, TickType DEF Next
  <2>2. CASE UNCHANGED lifecycleVars
    BY <2>2 DEF lifecycleVars, TypeOK
  <2> QED BY <2>1, <2>2
<1> QED BY <1>1, <1>2, PTL DEF Spec
-----------------------------------------------------------------------------
(* The inductive invariant. *)
LEMMA InitInv == Init => IInv
<1> SUFFICES ASSUME Init PROVE IInv
  OBVIOUS
<1>1. TypeOK
  BY InitType
<1>2. ASSUME NEW n \in Runtimes PROVE RuntimeInv(n)
  BY <1>2, Constants
  DEF Init, NoThread, RuntimeInv, NoFutureThread, TimerIsCurrent,
      WaitingIsCurrent, DeadlineIsTimers, TimerIsAskedFor, OnlyWaitingCounts,
      Pending, At
<1> QED BY <1>1, <1>2 DEF IInv

(* A step of runtime n leaves the others alone. *)
Same(m) ==
  /\ generation'[m] = generation[m] /\ timer'[m] = timer[m]
  /\ unloadAt'[m] = unloadAt[m] /\ keepAlive'[m] = keepAlive[m]
  /\ thread'[m] = thread[m]

LEMMA SameInv ==
  ASSUME NEW m \in Runtimes, RuntimeInv(m), Same(m)
  PROVE  RuntimeInv(m)'
BY DEF Same, RuntimeInv, NoFutureThread, TimerIsCurrent, WaitingIsCurrent,
       DeadlineIsTimers, TimerIsAskedFor, OnlyWaitingCounts, Pending, At

LEMMA StepsAreLocal ==
  ASSUME TypeOK, NEW n \in Runtimes, NEW m \in Runtimes, m # n,
         RequestStep(n) \/ \E g \in Generations : TimerStep(n, g)
  PROVE  Same(m)
BY DEF TypeOK, Same, RequestStep, BeginRequest, FinishRequest, ScheduleUnload,
       TimerStep, Fire, LockBusy, LockTaken, RescheduleIfCurrent,
       CheckGeneration, StartUnload, EndUnload, ReleaseLock, Goto

(* After _cancel_timer_locked no thread of the runtime waits, and the       *)
(* others are as they were: the timer it cancels is the only one waiting.   *)
LEMMA CancelStopsWaiting ==
  ASSUME TypeOK, NEW n \in Runtimes, RuntimeInv(n), NEW g \in Generations
  PROVE  /\ CancelTimer(n)[g].pc # "waiting"
         /\ CancelTimer(n)[g].left = 0
         /\ thread[n][g] = NoThread => CancelTimer(n)[g] = NoThread
<1>1. CASE At(n, g, "waiting")
  <2>1. g = generation[n] /\ Pending(n, generation[n])
    BY <1>1 DEF RuntimeInv, WaitingIsCurrent, Pending, At
  <2>2. timer[n] = g
    BY <2>1 DEF RuntimeInv, TimerIsCurrent
  <2> QED BY <1>1, <2>2 DEF CancelTimer, NoThread
<1>2. CASE ~At(n, g, "waiting")
  BY <1>2 DEF CancelTimer, RuntimeInv, OnlyWaitingCounts, At
<1> QED BY <1>1, <1>2

(* begin_request starts a generation that has no timer. *)
LEMMA BeginInv ==
  ASSUME TypeOK, NEW n \in Runtimes, RuntimeInv(n), BeginRequest(n)
  PROVE  RuntimeInv(n)'
<1> DEFINE h == generation[n] + 1
<1>1. /\ h \in Generations /\ generation[n] \in Nat
      /\ generation'[n] = h /\ thread'[n] = CancelTimer(n)
      /\ timer'[n] = None /\ unloadAt'[n] = None
  BY LifecycleAssumption
  DEF BeginRequest, TypeOK, Generations, LifecycleAssumption
<1>2. \A g \in Generations : g > generation[n] => thread'[n][g] = NoThread
  BY <1>1, CancelStopsWaiting DEF RuntimeInv, NoFutureThread
<1>3. \A g \in Generations : thread'[n][g].pc # "waiting" /\ thread'[n][g].left = 0
  BY <1>1, CancelStopsWaiting
<1>4. thread'[n][h].pc = "none"
  BY <1>1, <1>2 DEF NoThread
<1>5. NoFutureThread(n)'
  BY <1>1, <1>2 DEF NoFutureThread, Generations
<1>6. TimerIsCurrent(n)' /\ DeadlineIsTimers(n)' /\ TimerIsAskedFor(n)'
  BY <1>1, <1>4 DEF TimerIsCurrent, DeadlineIsTimers, TimerIsAskedFor, Pending
<1>7. WaitingIsCurrent(n)' /\ OnlyWaitingCounts(n)'
  BY <1>3 DEF WaitingIsCurrent, OnlyWaitingCounts, At
<1> QED BY <1>5, <1>6, <1>7 DEF RuntimeInv

(* finish_request does too, and may give it one. *)
LEMMA FinishInv ==
  ASSUME TypeOK, NEW n \in Runtimes, RuntimeInv(n),
         NEW ka \in KeepAlives, NEW isLoaded \in BOOLEAN,
         FinishRequest(n, ka, isLoaded)
  PROVE  RuntimeInv(n)'
<1> DEFINE h == generation[n] + 1
<1>1. /\ h \in Generations /\ generation[n] \in Nat
      /\ generation'[n] = h /\ keepAlive'[n] = ka
  BY LifecycleAssumption
  DEF FinishRequest, TypeOK, Generations, LifecycleAssumption
<1>2. CancelTimer(n) \in [Generations -> [pc : ThreadPc, left : Nat]]
  BY CancelType
<1>3. CASE isLoaded /\ ka \in Delays
  <2>1. ScheduleUnload(n, ka, h, CancelTimer(n))
    BY <1>3 DEF FinishRequest
  <2>2. /\ timer'[n] = h /\ unloadAt'[n] = ka
        /\ thread'[n] = [CancelTimer(n) EXCEPT ![h] = Waiting(ka)]
    BY <2>1 DEF ScheduleUnload, TypeOK
  <2>3. thread'[n][h] = Waiting(ka)
    BY <1>1, <1>2, <2>2
  <2>4. \A g \in Generations : g # h => thread'[n][g] = CancelTimer(n)[g]
    BY <1>2, <2>2
  <2>5. ka # None /\ h # None
    BY <1>1, <1>3, Constants
  <2>6. NoFutureThread(n)'
    BY <1>1, <2>4, CancelStopsWaiting
    DEF NoFutureThread, RuntimeInv, Generations
  <2>7. TimerIsCurrent(n)' /\ DeadlineIsTimers(n)' /\ TimerIsAskedFor(n)'
    BY <1>1, <1>3, <2>2, <2>3, <2>5
    DEF TimerIsCurrent, DeadlineIsTimers, TimerIsAskedFor, Pending, Waiting
  <2>8. WaitingIsCurrent(n)' /\ OnlyWaitingCounts(n)'
    BY <1>1, <2>3, <2>4, CancelStopsWaiting
    DEF WaitingIsCurrent, OnlyWaitingCounts, At, Waiting
  <2> QED BY <2>6, <2>7, <2>8 DEF RuntimeInv
<1>4. CASE ~(isLoaded /\ ka \in Delays)
  <2>1. thread'[n] = CancelTimer(n) /\ timer'[n] = None /\ unloadAt'[n] = None
    BY <1>4 DEF FinishRequest, TypeOK
  <2>2. \A g \in Generations : g > generation[n] => thread'[n][g] = NoThread
    BY <2>1, CancelStopsWaiting DEF RuntimeInv, NoFutureThread
  <2>3. \A g \in Generations : thread'[n][g].pc # "waiting" /\ thread'[n][g].left = 0
    BY <2>1, CancelStopsWaiting
  <2>4. thread'[n][h].pc = "none"
    BY <1>1, <2>2 DEF NoThread
  <2>5. NoFutureThread(n)'
    BY <1>1, <2>2 DEF NoFutureThread, Generations
  <2>6. TimerIsCurrent(n)' /\ DeadlineIsTimers(n)' /\ TimerIsAskedFor(n)'
    BY <1>1, <2>1, <2>4
    DEF TimerIsCurrent, DeadlineIsTimers, TimerIsAskedFor, Pending
  <2>7. WaitingIsCurrent(n)' /\ OnlyWaitingCounts(n)'
    BY <2>3 DEF WaitingIsCurrent, OnlyWaitingCounts, At
  <2> QED BY <2>5, <2>6, <2>7 DEF RuntimeInv
<1> QED BY <1>3, <1>4

(* A thread of the current generation that stays pending and keeps its      *)
(* place under self._timer leaves the invariant alone.                      *)
LEMMA PendingMoveInv ==
  ASSUME TypeOK, NEW n \in Runtimes, NEW g \in Generations, RuntimeInv(n),
         NEW where \in {"fired", "retry", "locked"},
         Pending(n, g), thread[n][g].left = 0, Goto(n, g, where),
         UNCHANGED <<generation, timer, unloadAt, keepAlive>>
  PROVE  RuntimeInv(n)'
<1>1. thread'[n][g] = [pc |-> where, left |-> 0]
  BY DEF Goto, TypeOK
<1>2. \A k \in Generations : k # g => thread'[n][k] = thread[n][k]
  BY DEF Goto, TypeOK
<1>4. generation[n] \in Generations
  BY DEF TypeOK
<1>3. g <= generation[n]
  <2>1. thread[n][g] # NoThread
    BY DEF Pending, NoThread
  <2> QED BY <1>4, <2>1 DEF RuntimeInv, NoFutureThread, Generations
<1>5. NoFutureThread(n)'
  BY <1>2, <1>3, <1>4 DEF RuntimeInv, NoFutureThread, Generations
<1>6. Pending(n, generation[n])' <=> Pending(n, generation[n])
  BY <1>1, <1>2, <1>4 DEF Pending
<1>7. thread'[n][generation[n]].left = thread[n][generation[n]].left
  BY <1>1, <1>2, <1>4
<1>8. TimerIsCurrent(n)' /\ DeadlineIsTimers(n)' /\ TimerIsAskedFor(n)'
  BY <1>6, <1>7
  DEF RuntimeInv, TimerIsCurrent, DeadlineIsTimers, TimerIsAskedFor, Pending
<1>9. WaitingIsCurrent(n)' /\ OnlyWaitingCounts(n)'
  BY <1>1, <1>2 DEF RuntimeInv, WaitingIsCurrent, OnlyWaitingCounts, At
<1> QED BY <1>5, <1>8, <1>9 DEF RuntimeInv

(* A thread that is not pending, or not of the current generation, may go   *)
(* anywhere past the pending places.                                        *)
LEMMA SpentMoveInv ==
  ASSUME TypeOK, NEW n \in Runtimes, NEW g \in Generations, RuntimeInv(n),
         NEW where \in {"none", "unload", "unloading", "release"},
         g # generation[n] \/ ~Pending(n, g),
         thread[n][g] # NoThread, Goto(n, g, where),
         UNCHANGED <<generation, timer, unloadAt, keepAlive>>
  PROVE  RuntimeInv(n)'
<1>1. thread'[n][g] = [pc |-> where, left |-> 0]
  BY DEF Goto, TypeOK
<1>2. \A k \in Generations : k # g => thread'[n][k] = thread[n][k]
  BY DEF Goto, TypeOK
<1>3. g <= generation[n]
  BY DEF RuntimeInv, NoFutureThread, TypeOK, Generations
<1>4. generation[n] \in Generations
  BY DEF TypeOK
<1>5. NoFutureThread(n)'
  BY <1>2, <1>3, <1>4 DEF RuntimeInv, NoFutureThread, Generations
<1>6. Pending(n, generation[n])' <=> Pending(n, generation[n])
  BY <1>1, <1>2, <1>4 DEF Pending
<1>7. Pending(n, generation[n]) =>
        thread'[n][generation[n]].left = thread[n][generation[n]].left
  BY <1>1, <1>2, <1>4
<1>8. TimerIsCurrent(n)' /\ DeadlineIsTimers(n)' /\ TimerIsAskedFor(n)'
  BY <1>6, <1>7
  DEF RuntimeInv, TimerIsCurrent, DeadlineIsTimers, TimerIsAskedFor, Pending
<1>9. WaitingIsCurrent(n)' /\ OnlyWaitingCounts(n)'
  BY <1>1, <1>2 DEF RuntimeInv, WaitingIsCurrent, OnlyWaitingCounts, At
<1> QED BY <1>5, <1>8, <1>9 DEF RuntimeInv

(* The only thread whose reschedule goes through is the current one, whose  *)
(* place under self._timer its successor takes.                             *)
LEMMA RescheduleInv ==
  ASSUME TypeOK, NEW n \in Runtimes, NEW g \in Generations, RuntimeInv(n),
         RescheduleIfCurrent(n, g)
  PROVE  RuntimeInv(n)'
<1>1. CASE g # generation[n]
  <2>1. /\ Goto(n, g, "none") /\ thread[n][g] # NoThread
        /\ UNCHANGED <<generation, timer, unloadAt, keepAlive>>
    BY <1>1 DEF RescheduleIfCurrent, At, NoThread
  <2> QED BY <1>1, <2>1, SpentMoveInv
<1>2. CASE g = generation[n]
  <2>1. /\ ScheduleUnload(n, RetryDelay, g, thread[n])
        /\ UNCHANGED <<generation, keepAlive>>
    BY <1>2 DEF RescheduleIfCurrent
  <2>2. /\ timer'[n] = g /\ unloadAt'[n] = RetryDelay
        /\ thread'[n][g] = Waiting(RetryDelay)
    BY <2>1 DEF ScheduleUnload, TypeOK
  <2>3. \A k \in Generations : k # g => thread'[n][k] = thread[n][k]
    BY <2>1 DEF ScheduleUnload, TypeOK
  <2>4. RetryDelay # None /\ g # None
    BY Constants
  <2>5. timer[n] # None
    BY <1>2, Constants
    DEF RescheduleIfCurrent, RuntimeInv, TimerIsCurrent, Pending, At
  <2>6. NoFutureThread(n)'
    BY <1>2, <2>1, <2>3 DEF RuntimeInv, NoFutureThread, Generations
  <2>7. TimerIsCurrent(n)' /\ DeadlineIsTimers(n)' /\ TimerIsAskedFor(n)'
    BY <1>2, <2>1, <2>2, <2>4, <2>5
    DEF RuntimeInv, TimerIsCurrent, DeadlineIsTimers, TimerIsAskedFor,
        Pending, Waiting
  <2>8. WaitingIsCurrent(n)' /\ OnlyWaitingCounts(n)'
    BY <1>2, <2>1, <2>2, <2>3
    DEF RuntimeInv, WaitingIsCurrent, OnlyWaitingCounts, At, Waiting
  <2> QED BY <2>6, <2>7, <2>8 DEF RuntimeInv
<1> QED BY <1>1, <1>2

(* The thread that finds itself current gives up its place in the same      *)
(* critical section that clears the deadline.                               *)
LEMMA CheckInv ==
  ASSUME TypeOK, NEW n \in Runtimes, NEW g \in Generations, RuntimeInv(n),
         CheckGeneration(n, g)
  PROVE  RuntimeInv(n)'
<1>1. CASE g # generation[n]
  <2>1. /\ Goto(n, g, "release") /\ thread[n][g] # NoThread
        /\ UNCHANGED <<generation, timer, unloadAt, keepAlive>>
    BY <1>1 DEF CheckGeneration, At, NoThread
  <2> QED BY <1>1, <2>1, SpentMoveInv
<1>2. CASE g = generation[n]
  <2>1. /\ timer'[n] = None /\ unloadAt'[n] = None
        /\ thread'[n][g] = [pc |-> "unload", left |-> 0]
        /\ UNCHANGED <<generation, keepAlive>>
    BY <1>2 DEF CheckGeneration, Goto, TypeOK
  <2>2. \A k \in Generations : k # g => thread'[n][k] = thread[n][k]
    BY <1>2 DEF CheckGeneration, Goto, TypeOK
  <2>3. NoFutureThread(n)'
    BY <1>2, <2>1, <2>2 DEF RuntimeInv, NoFutureThread, Generations
  <2>4. TimerIsCurrent(n)' /\ DeadlineIsTimers(n)' /\ TimerIsAskedFor(n)'
    BY <1>2, <2>1
    DEF TimerIsCurrent, DeadlineIsTimers, TimerIsAskedFor, Pending
  <2>5. WaitingIsCurrent(n)' /\ OnlyWaitingCounts(n)'
    BY <1>2, <2>1, <2>2
    DEF RuntimeInv, WaitingIsCurrent, OnlyWaitingCounts, At
  <2> QED BY <2>3, <2>4, <2>5 DEF RuntimeInv
<1> QED BY <1>1, <1>2

LEMMA TimerInv ==
  ASSUME TypeOK, NEW n \in Runtimes, NEW g \in Generations, RuntimeInv(n),
         TimerStep(n, g)
  PROVE  RuntimeInv(n)'
<1>1. CASE Fire(n, g)
  BY <1>1, PendingMoveInv DEF Fire, At, Pending
<1>2. CASE LockBusy(n, g)
  <2>1. Pending(n, g) /\ thread[n][g].left = 0
    BY <1>2 DEF LockBusy, At, Pending, RuntimeInv, OnlyWaitingCounts
  <2> QED BY <1>2, <2>1, PendingMoveInv DEF LockBusy
<1>3. CASE LockTaken(n, g)
  <2>1. Pending(n, g) /\ thread[n][g].left = 0
    BY <1>3 DEF LockTaken, At, Pending, RuntimeInv, OnlyWaitingCounts
  <2> QED BY <1>3, <2>1, PendingMoveInv DEF LockTaken
<1>4. CASE RescheduleIfCurrent(n, g)
  BY <1>4, RescheduleInv
<1>5. CASE CheckGeneration(n, g)
  BY <1>5, CheckInv
<1>6. ASSUME NEW isLoaded \in BOOLEAN, StartUnload(n, g, isLoaded)
      PROVE  RuntimeInv(n)'
  <2>1. ~Pending(n, g) /\ thread[n][g] # NoThread
    BY <1>6 DEF StartUnload, At, Pending, NoThread
  <2> QED BY <1>6, <2>1, SpentMoveInv DEF StartUnload
<1>7. CASE EndUnload(n, g)
  <2>1. ~Pending(n, g) /\ thread[n][g] # NoThread
    BY <1>7 DEF EndUnload, At, Pending, NoThread
  <2> QED BY <1>7, <2>1, SpentMoveInv DEF EndUnload
<1>8. CASE ReleaseLock(n, g)
  <2>1. ~Pending(n, g) /\ thread[n][g] # NoThread
    BY <1>8 DEF ReleaseLock, At, Pending, NoThread
  <2> QED BY <1>8, <2>1, SpentMoveInv DEF ReleaseLock
<1> QED
  BY <1>1, <1>2, <1>3, <1>4, <1>5, <1>6, <1>7, <1>8 DEF TimerStep

(* The published deadline and the timer behind it run down together.        *)
LEMMA TickInv ==
  ASSUME TypeOK, NEW n \in Runtimes, RuntimeInv(n), Tick
  PROVE  RuntimeInv(n)'
<1>1. \A g \in Generations :
        /\ thread'[n][g].pc = thread[n][g].pc
        /\ thread'[n][g].left = Less(thread[n][g].left)
        /\ thread[n][g] = NoThread => thread'[n][g] = NoThread
  <2> SUFFICES ASSUME NEW g \in Generations
               PROVE  /\ thread'[n][g].pc = thread[n][g].pc
                      /\ thread'[n][g].left = Less(thread[n][g].left)
                      /\ thread[n][g] = NoThread => thread'[n][g] = NoThread
    OBVIOUS
  <2>1. thread[n][g] \in [pc : ThreadPc, left : Nat]
    BY DEF TypeOK
  <2>2. thread'[n][g] = [thread[n][g] EXCEPT !.left = Less(@)]
    BY DEF Tick
  <2>3. thread'[n][g] = [pc |-> thread[n][g].pc, left |-> Less(thread[n][g].left)]
    BY <2>1, <2>2
  <2> QED BY <2>3 DEF NoThread, Less
<1>2. /\ UNCHANGED <<generation, timer, keepAlive>>
      /\ unloadAt'[n] = IF unloadAt[n] = None THEN None ELSE Less(unloadAt[n])
      /\ generation[n] \in Generations
  BY DEF Tick, TypeOK
<1>3. unloadAt'[n] # None <=> unloadAt[n] # None
  BY <1>2, LifecycleAssumption DEF TypeOK, Less, LifecycleAssumption
<1>4. NoFutureThread(n)'
  BY <1>1, <1>2 DEF RuntimeInv, NoFutureThread
<1>5. TimerIsCurrent(n)' /\ TimerIsAskedFor(n)'
  BY <1>1, <1>2 DEF RuntimeInv, TimerIsCurrent, TimerIsAskedFor, Pending
<1>6. DeadlineIsTimers(n)'
  BY <1>1, <1>2, <1>3 DEF RuntimeInv, DeadlineIsTimers
<1>7. WaitingIsCurrent(n)' /\ OnlyWaitingCounts(n)'
  BY <1>1, <1>2 DEF RuntimeInv, WaitingIsCurrent, OnlyWaitingCounts, At, Less
<1> QED BY <1>4, <1>5, <1>6, <1>7 DEF RuntimeInv

LEMMA NextInv == IInv /\ [Next]_lifecycleVars => IInv'
<1> SUFFICES ASSUME IInv, [Next]_lifecycleVars
             PROVE  IInv'
  OBVIOUS
<1> USE DEF IInv
<1>1. ASSUME NEW n \in Runtimes, RequestStep(n)
      PROVE  IInv'
  <2>1. TypeOK'
    BY <1>1, RequestType
  <2>2. RuntimeInv(n)'
    BY <1>1, BeginInv, FinishInv DEF RequestStep
  <2>3. ASSUME NEW m \in Runtimes, m # n PROVE RuntimeInv(m)'
    BY <1>1, <2>3, StepsAreLocal, SameInv
  <2> QED BY <2>1, <2>2, <2>3
<1>2. ASSUME NEW n \in Runtimes, NEW g \in Generations, TimerStep(n, g)
      PROVE  IInv'
  <2>1. TypeOK'
    BY <1>2, TimerType
  <2>2. RuntimeInv(n)'
    BY <1>2, TimerInv
  <2>3. ASSUME NEW m \in Runtimes, m # n PROVE RuntimeInv(m)'
    BY <1>2, <2>3, StepsAreLocal, SameInv
  <2> QED BY <2>1, <2>2, <2>3
<1>3. CASE Tick
  BY <1>3, TickType, TickInv
<1>4. CASE UNCHANGED lifecycleVars
  <2>1. TypeOK'
    BY <1>4 DEF lifecycleVars, TypeOK
  <2>2. ASSUME NEW m \in Runtimes PROVE RuntimeInv(m)'
    BY <1>4, SameInv DEF lifecycleVars, Same
  <2> QED BY <2>1, <2>2
<1> QED BY <1>1, <1>2, <1>3, <1>4 DEF Next

(* The inductive invariant of a lifecycle holds throughout: timer, deadline *)
(* and the pending thread of the current generation come and go together,   *)
(* and no other thread waits (begin_request, finish_request,                *)
(* _unload_if_idle).                                                        *)
THEOREM Invariant == Spec => []IInv
BY InitInv, NextInv, PTL DEF Spec
-----------------------------------------------------------------------------
(* No timer is lost: a thread that waits is the one self._timer refers to.  *)
THEOREM TimersAreCancellable == Spec => []WaitingIsCancellable
<1>1. IInv => WaitingIsCancellable
  BY DEF IInv, RuntimeInv, WaitingIsCurrent, TimerIsCurrent, Pending, At,
         WaitingIsCancellable
<1> QED BY <1>1, Invariant, PTL

(* The deadline state() reports is that of the pending current thread.      *)
THEOREM DeadlineIsTrue == Spec => []PublishedDeadline
<1>1. IInv => PublishedDeadline
  <2> SUFFICES ASSUME IInv, NEW n \in Runtimes
               PROVE  /\ unloadAt[n] # None =>
                           /\ Pending(n, generation[n])
                           /\ thread[n][generation[n]].left = unloadAt[n]
                      /\ Pending(n, generation[n]) => unloadAt[n] # None
    BY DEF PublishedDeadline
  <2>1. generation[n] # None
    BY Constants DEF IInv, TypeOK
  <2> QED
    BY <2>1 DEF IInv, RuntimeInv, TimerIsCurrent, DeadlineIsTimers
<1> QED BY <1>1, Invariant, PTL

(* Without a keep-alive that asks for one no deadline is published, no      *)
(* current timer is pending, and no thread of any generation waits.         *)
THEOREM TimersAreAskedFor == Spec => []NoTimerUnlessAsked
<1>1. IInv => NoTimerUnlessAsked
  <2> SUFFICES ASSUME IInv, NEW n \in Runtimes, keepAlive[n] \notin Delays
               PROVE  /\ unloadAt[n] = None
                      /\ ~Pending(n, generation[n])
                      /\ \A g \in Generations : ~At(n, g, "waiting")
    BY DEF NoTimerUnlessAsked
  <2>1. timer[n] = None /\ unloadAt[n] = None
    BY DEF IInv, RuntimeInv, TimerIsAskedFor, DeadlineIsTimers
  <2>2. ~Pending(n, generation[n])
    BY <2>1, Constants DEF IInv, TypeOK, RuntimeInv, TimerIsCurrent
  <2>3. \A g \in Generations : ~At(n, g, "waiting")
    BY <2>2 DEF IInv, RuntimeInv, WaitingIsCurrent, At, Pending
  <2> QED BY <2>1, <2>2, <2>3
<1> QED BY <1>1, Invariant, PTL
-----------------------------------------------------------------------------
(* A deadline comes from the keep-alive of the last request that finished:  *)
(* it is no further off than that is long, or than a retry takes.           *)
Fits(left, ka) ==
  left # None => ka \in Delays /\ (left <= ka \/ left <= RetryDelay)

DeadlinesFit == \A n \in Runtimes : Fits(unloadAt[n], keepAlive[n])

LEMMA FitsNext ==
  IInv /\ DeadlinesFit /\ [Next]_lifecycleVars => DeadlinesFit'
<1> SUFFICES ASSUME IInv, DeadlinesFit, [Next]_lifecycleVars,
                    NEW m \in Runtimes
             PROVE  Fits(unloadAt[m], keepAlive[m])'
  BY DEF DeadlinesFit
<1> DEFINE same == unloadAt'[m] = unloadAt[m] /\ keepAlive'[m] = keepAlive[m]
<1>1. /\ Fits(unloadAt[m], keepAlive[m])
      /\ unloadAt[m] \in Nat \cup {None} /\ keepAlive[m] \in KeepAlives
      /\ unloadAt[m] # None => keepAlive[m] \in Delays
      /\ unloadAt \in [Runtimes -> Nat \cup {None}]
      /\ keepAlive \in [Runtimes -> KeepAlives]
  BY DEF DeadlinesFit, IInv, TypeOK, RuntimeInv, DeadlineIsTimers, TimerIsAskedFor
<1>2. same \/ unloadAt'[m] = None => Fits(unloadAt[m], keepAlive[m])'
  BY <1>1 DEF Fits
<1>3. ASSUME NEW n \in Runtimes, RequestStep(n)
      PROVE  Fits(unloadAt[m], keepAlive[m])'
  <2>1. CASE m # n \/ BeginRequest(n)
    BY <1>1, <1>2, <1>3, <2>1
    DEF RequestStep, BeginRequest, FinishRequest, ScheduleUnload
  <2>2. ASSUME m = n, NEW ka \in KeepAlives, NEW isLoaded \in BOOLEAN,
               FinishRequest(n, ka, isLoaded)
        PROVE  Fits(unloadAt[m], keepAlive[m])'
    <3>1. CASE isLoaded /\ ka \in Delays
      <4>1. unloadAt'[m] = ka /\ keepAlive'[m] = ka
        BY <1>1, <2>2, <3>1 DEF FinishRequest, ScheduleUnload
      <4> QED BY <3>1, <4>1, Constants DEF Fits
    <3>2. CASE ~(isLoaded /\ ka \in Delays)
      BY <1>1, <1>2, <2>2, <3>2 DEF FinishRequest
    <3> QED BY <3>1, <3>2
  <2> QED BY <1>3, <2>1, <2>2 DEF RequestStep
<1>4. ASSUME NEW n \in Runtimes, NEW g \in Generations, TimerStep(n, g)
      PROVE  Fits(unloadAt[m], keepAlive[m])'
  <2>1. CASE RescheduleIfCurrent(n, g)
    <3>1. same \/ (g = generation[n] /\ m = n)
      BY <1>1, <2>1 DEF RescheduleIfCurrent, ScheduleUnload
    <3>2. CASE g = generation[n] /\ m = n
      <4>1. unloadAt'[m] = RetryDelay /\ keepAlive'[m] = keepAlive[m]
        BY <1>1, <2>1, <3>2 DEF RescheduleIfCurrent, ScheduleUnload
      <4>2. keepAlive[m] \in Delays
        BY <2>1, <3>2, Constants
        DEF RescheduleIfCurrent, IInv, RuntimeInv, TypeOK, TimerIsCurrent,
            TimerIsAskedFor, Pending, At
      <4> QED BY <4>1, <4>2, Constants DEF Fits
    <3> QED BY <1>2, <3>1, <3>2
  <2>2. CASE ~RescheduleIfCurrent(n, g)
    BY <1>1, <1>2, <1>4, <2>2
    DEF TimerStep, Fire, LockBusy, LockTaken, CheckGeneration, StartUnload,
        EndUnload, ReleaseLock
  <2> QED BY <2>1, <2>2
<1>5. CASE Tick
  <2>1. keepAlive' = keepAlive
        /\ unloadAt'[m] = IF unloadAt[m] = None THEN None ELSE Less(unloadAt[m])
    BY <1>5 DEF Tick
  <2>2. unloadAt[m] \in Nat => Less(unloadAt[m]) \in Nat /\ Less(unloadAt[m]) <= unloadAt[m]
    BY DEF Less
  <2>3. CASE unloadAt[m] = None
    BY <1>2, <2>1, <2>3
  <2>4. CASE unloadAt[m] # None
    <3> DEFINE s == unloadAt[m]
               t == Less(s)
               ka == keepAlive[m]
    <3>1. /\ s \in Nat /\ t \in Nat /\ t <= s /\ ka \in Delays
          /\ s <= ka \/ s <= RetryDelay
      BY <1>1, <2>2, <2>4 DEF Fits
    <3>2. t <= ka \/ t <= RetryDelay
      <4> HIDE DEF s, t, ka
      <4> QED BY <3>1, Constants
    <3>3. unloadAt'[m] = t /\ keepAlive'[m] = ka
      BY <2>1, <2>4
    <3> QED BY <3>1, <3>2, <3>3 DEF Fits
  <2> QED BY <2>3, <2>4
<1>6. CASE UNCHANGED lifecycleVars
  BY <1>2, <1>6 DEF lifecycleVars
<1> QED BY <1>3, <1>4, <1>5, <1>6 DEF Next
=============================================================================
